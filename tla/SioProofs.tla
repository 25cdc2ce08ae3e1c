------------------------------ MODULE SioProofs ------------------------------
(***************************************************************************)
(* The serial port, for every number of ports and sectors, every length of *)
(* a sector and whatever the guest sends: reads of a card are true, writes *)
(* are whole, and no more than one first byte in a row is lost.  The       *)
(* argument is one invariant, CardGood, of a card and of what it was sent  *)
(* and answered since it was at rest: each state of a command says which   *)
(* bytes have gone before it.                                              *)
(***************************************************************************)
EXTENDS Sio, SequenceTheorems, WellFoundedInduction, TLAPS

-----------------------------------------------------------------------------
(* Sums.                                                                   *)

\* Induction over the natural numbers, for a set: the numbers are well-founded.
LEMMA Induction ==
  ASSUME NEW T, 0 \in T, \A n \in Nat : n \in T => n + 1 \in T
  PROVE  Nat \subseteq T
<1> DEFINE B == {n \in Nat : n \notin T}
           R == OpToRel(<, Nat)
<1> SUFFICES ASSUME B # {} PROVE FALSE
  OBVIOUS
<1>1. IsWellFoundedOn(R, Nat)
  BY NatLessThanWellFounded
<1> HIDE DEF R
<1>2. PICK x \in B : \A y \in B : ~ (<<y, x>> \in R)
  <2>1. B \subseteq Nat
    OBVIOUS
  <2> HIDE DEF B
  <2> QED
    BY <1>1, <2>1, WFMin
<1>3. x - 1 \in Nat /\ x - 1 \in B /\ x - 1 < x
  BY <1>2
<1>4. <<x - 1, x>> \in R
  BY <1>2, <1>3 DEF R, OpToRel
<1> QED
  BY <1>2, <1>3, <1>4

Byte == 0 .. 255

LEMMA XorByte == \A a, b \in Byte : BitXor(a, b) \in Byte
  BY SioAssumption DEF SioAssumption, Byte

\* The sums of the first n bytes.
SumsTo(g, n, bytes) ==
    /\ g[0] = 0
    /\ \A k \in 1 .. n : g[k] = BitXor(g[k - 1], bytes[k])

\* There are such sums ...
LEMMA SumsExist ==
  ASSUME NEW bytes \in Seq(Byte)
  PROVE  \E g \in [0 .. Len(bytes) -> Byte] : SumsTo(g, Len(bytes), bytes)
<1>1. Len(bytes) \in Nat /\ \A n \in 1 .. Len(bytes) : bytes[n] \in Byte
  BY LenProperties, ElementOfSeq
<1> DEFINE T == {m \in Nat : m <= Len(bytes) => \E g \in [0 .. m -> Byte] : SumsTo(g, m, bytes)}
<1>2. 0 \in T
  <2>1. [n \in 0 .. 0 |-> 0] \in [0 .. 0 -> Byte] /\ SumsTo([n \in 0 .. 0 |-> 0], 0, bytes)
    BY DEF SumsTo, Byte
  <2> QED
    BY <2>1
<1>3. ASSUME NEW m \in Nat, m \in T, m + 1 <= Len(bytes)
      PROVE  \E g \in [0 .. m + 1 -> Byte] : SumsTo(g, m + 1, bytes)
  <2>1. PICK g \in [0 .. m -> Byte] : SumsTo(g, m, bytes)
    BY <1>1, <1>3
  <2> DEFINE v == BitXor(g[m], bytes[m + 1])
             h == [n \in 0 .. m + 1 |-> IF n = m + 1 THEN v ELSE g[n]]
  <2>2. v \in Byte
    <3>1. g[m] \in Byte /\ bytes[m + 1] \in Byte
      BY <1>1, <1>3
    <3> QED
      BY <3>1, XorByte
  <2>3. h \in [0 .. m + 1 -> Byte]
    <3> HIDE DEF v
    <3> QED
      BY <2>2
  <2>4. SumsTo(h, m + 1, bytes)
    <3>1. h[0] = 0
      BY <2>1 DEF SumsTo
    <3>2. ASSUME NEW n \in 1 .. m PROVE h[n] = BitXor(h[n - 1], bytes[n])
      <4>1. h[n] = g[n] /\ h[n - 1] = g[n - 1]
        BY <3>2
      <4> QED
        BY <2>1, <4>1 DEF SumsTo
    <3>3. h[m + 1] = BitXor(h[(m + 1) - 1], bytes[m + 1])
      <4>1. h[m + 1] = v /\ h[m] = g[m] /\ (m + 1) - 1 = m
        <5> HIDE DEF v
        <5> QED
          OBVIOUS
      <4> QED
        BY <4>1
    <3> HIDE DEF h
    <3>4. \A n \in 1 .. m + 1 : h[n] = BitXor(h[n - 1], bytes[n])
      <4>1. \A n \in 1 .. m + 1 : n \in 1 .. m \/ n = m + 1
        OBVIOUS
      <4> QED
        BY <3>2, <3>3, <4>1
    <3> QED
      BY <3>1, <3>4 DEF SumsTo
  <2> QED
    BY <2>3, <2>4
<1>4. Nat \subseteq T
  <2>1. \A m \in Nat : m \in T => m + 1 \in T
    BY <1>3
  <2> HIDE DEF T
  <2> QED
    BY <1>2, <2>1, Induction
<1>5. Len(bytes) \in T
  BY <1>1, <1>4
<1> QED
  BY <1>5

\* ... and XorSums is them.
LEMMA SumsAre ==
  ASSUME NEW bytes \in Seq(Byte)
  PROVE  /\ XorSums(bytes) \in [0 .. Len(bytes) -> Byte]
         /\ SumsTo(XorSums(bytes), Len(bytes), bytes)
<1> DEFINE Rec(g) == g = [n \in 0 .. Len(bytes) |->
                             IF n = 0 THEN 0 ELSE BitXor(g[n - 1], bytes[n])]
<1>1. PICK g \in [0 .. Len(bytes) -> Byte] : SumsTo(g, Len(bytes), bytes)
  BY SumsExist
<1>2. Len(bytes) \in Nat
  BY LenProperties
<1>3. Rec(g)
  <2>1. \A n \in 0 .. Len(bytes) : g[n] = IF n = 0 THEN 0 ELSE BitXor(g[n - 1], bytes[n])
    BY <1>1, <1>2 DEF SumsTo
  <2> QED
    BY <2>1
<1>4. Rec(XorSums(bytes))
  BY <1>3 DEF XorSums
<1> DEFINE s == XorSums(bytes)
<1> HIDE DEF s
<1>5. s = [n \in 0 .. Len(bytes) |-> IF n = 0 THEN 0 ELSE BitXor(s[n - 1], bytes[n])]
  BY <1>4 DEF s
<1>6. SumsTo(s, Len(bytes), bytes) /\ DOMAIN s = 0 .. Len(bytes)
  BY <1>2, <1>5 DEF SumsTo
<1>7. \A n \in 0 .. Len(bytes) : s[n] = g[n]
  <2> DEFINE T == {n \in Nat : n <= Len(bytes) => s[n] = g[n]}
  <2>1. 0 \in T
    BY <1>1, <1>6 DEF SumsTo
  <2>2. ASSUME NEW n \in Nat, n \in T, n + 1 <= Len(bytes) PROVE s[n + 1] = g[n + 1]
    <3>1. n + 1 \in 1 .. Len(bytes) /\ (n + 1) - 1 = n /\ s[n] = g[n]
      BY <1>2, <2>2
    <3>2. /\ s[n + 1] = BitXor(s[(n + 1) - 1], bytes[n + 1])
          /\ g[n + 1] = BitXor(g[(n + 1) - 1], bytes[n + 1])
      BY <1>1, <1>6, <3>1 DEF SumsTo
    <3> QED
      BY <3>1, <3>2
  <2>3. Nat \subseteq T
    <3>1. \A n \in Nat : n \in T => n + 1 \in T
      BY <2>2
    <3> HIDE DEF T
    <3> QED
      BY <2>1, <3>1, Induction
  <2> QED
    BY <1>2, <2>3
<1>8. s = [n \in 0 .. Len(bytes) |-> g[n]]
  <2>1. s = [n \in 0 .. Len(bytes) |-> s[n]]
    BY <1>5
  <2> QED
    BY <1>7, <2>1
<1> QED
  BY <1>6, <1>8 DEF s

-----------------------------------------------------------------------------
(* The tables.                                                             *)

LEMMA ReadTable ==
  LET t == CardTable("Read") IN
  /\ Len(t) = 13
  /\ t[1] = Entry("Init", Free) /\ t[2] = Entry("Flag", 129) /\ t[3] = Entry("CardId1", 82)
  /\ t[4] = Entry("CardId2", 0) /\ t[5] = Entry("SendMsb", 0) /\ t[6] = Entry("SendLsb", Free)
  /\ t[7] = Entry("CmdAck1", Free) /\ t[8] = Entry("CmdAck2", 0) /\ t[9] = Entry("AckMsb", 0)
  /\ t[10] = Entry("AckLsb", 0) /\ t[11] = Entry("RecvSector", 0)
  /\ t[12] = Entry("RecvChecksum", 0) /\ t[13] = Entry("MemEnd", 0)
  BY DEF CardTable, CardHead, Address

LEMMA WriteTable ==
  LET t == CardTable("Write") IN
  /\ Len(t) = 11
  /\ t[1] = Entry("Init", Free) /\ t[2] = Entry("Flag", 129) /\ t[3] = Entry("CardId1", 87)
  /\ t[4] = Entry("CardId2", 0) /\ t[5] = Entry("SendMsb", 0) /\ t[6] = Entry("SendLsb", Free)
  /\ t[7] = Entry("SendSector", Free) /\ t[8] = Entry("SendChecksum", Free)
  /\ t[9] = Entry("CmdAck1", Free) /\ t[10] = Entry("CmdAck2", 0) /\ t[11] = Entry("MemEnd", 0)
  BY DEF CardTable, CardHead, Address

LEMMA IdTable ==
  LET t == CardTable("GetId") IN
  /\ Len(t) = 10
  /\ t[1] = Entry("Init", Free) /\ t[2] = Entry("Flag", 129) /\ t[3] = Entry("CardId1", 83)
  /\ t[4] = Entry("CardId2", 0) /\ t[5] = Entry("CmdAck1", 0) /\ t[6] = Entry("CmdAck2", 0)
  /\ t[7] = Entry("Recv04h", 0) /\ t[8] = Entry("Recv00h", 0) /\ t[9] = Entry("Recv00h", 0)
  /\ t[10] = Entry("Recv80h", 0)
  BY DEF CardTable, CardHead, Address

Commands == {"GetId", "Read", "Write"}
Sector   == [1 .. SectorLen -> Byte]
CardType ==
    [ idx : Nat, command : Commands, ack : BOOLEAN, sector : Byte, checksum : Byte,
      buffer : Sector, left : 0 .. SectorLen, end : {"Good", "BadChecksum"},
      unread : BOOLEAN, data : [Sectors -> Sector] ]
Size(command) == Len(CardTable(command))
InTable(c) == c.idx < Size(c.command)

LEMMA Sizes ==
  /\ Size("Read") = 13 /\ Size("Write") = 11 /\ Size("GetId") = 10
  /\ \A k \in Commands : Size(k) \in Nat /\ 10 <= Size(k)
<1>1. Size("Read") = 13
  BY ReadTable, Zenon DEF Size
<1>2. Size("Write") = 11
  BY WriteTable, Zenon DEF Size
<1>3. Size("GetId") = 10
  BY IdTable, Zenon DEF Size
<1> QED
  BY <1>1, <1>2, <1>3 DEF Commands

\* Where the states are that do something.
LEMMA StateOf ==
  ASSUME NEW c \in CardType, InTable(c)
  PROVE  /\ CardState(c) = "Init" <=> c.idx = 0
         /\ CardState(c) = "Flag" <=> c.idx = 1
         /\ CardState(c) = "SendMsb" <=> c.command # "GetId" /\ c.idx = 4
         /\ CardState(c) = "SendLsb" <=> c.command # "GetId" /\ c.idx = 5
         /\ CardState(c) = "RecvSector" <=> c.command = "Read" /\ c.idx = 10
         /\ CardState(c) = "RecvChecksum" <=> c.command = "Read" /\ c.idx = 11
         /\ CardState(c) = "SendSector" <=> c.command = "Write" /\ c.idx = 6
         /\ CardState(c) = "SendChecksum" <=> c.command = "Write" /\ c.idx = 7
         /\ CardState(c) = "MemEnd" <=> \/ c.command = "Read" /\ c.idx = 12
                                        \/ c.command = "Write" /\ c.idx = 10
<1>1. c.idx \in Nat /\ c.command \in Commands
  BY DEF CardType
<1>2. CASE c.command = "Read"
  <2>1. c.idx \in 0 .. 12
    BY <1>1, <1>2, Sizes DEF InTable
  <2>2. CardState(c) = CardTable("Read")[c.idx + 1].state
    BY <1>2 DEF CardState
  <2> QED
    BY <1>2, <2>1, <2>2, ReadTable DEF Entry
<1>3. CASE c.command = "Write"
  <2>1. c.idx \in 0 .. 10
    BY <1>1, <1>3, Sizes DEF InTable
  <2>2. CardState(c) = CardTable("Write")[c.idx + 1].state
    BY <1>3 DEF CardState
  <2> QED
    BY <1>3, <2>1, <2>2, WriteTable DEF Entry
<1>4. CASE c.command = "GetId"
  <2>1. c.idx \in 0 .. 9
    BY <1>1, <1>4, Sizes DEF InTable
  <2>2. CardState(c) = CardTable("GetId")[c.idx + 1].state
    BY <1>4 DEF CardState
  <2> QED
    BY <1>4, <2>1, <2>2, IdTable DEF Entry
<1> QED
  BY <1>1, <1>2, <1>3, <1>4 DEF Commands

\* A card is where a byte may come: between the bytes of a sector there are some
\* left, and what ends a write knows its sector.
Ready(c) ==
    /\ c \in CardType /\ InTable(c)
    /\ CardState(c) \in {"RecvSector", "SendSector"} => c.left \in 1 .. SectorLen
    /\ c.command # "GetId" /\ c.idx >= 6 => c.sector \in Sectors

LEMMA Taken1 ==
  ASSUME NEW c, Ready(c), NEW b \in Byte
  PROVE  LET t == Take(c, b) IN
         /\ t \in CardType
         /\ t.idx = c.idx /\ t.command = c.command
         /\ CardState(c) # "MemEnd" \/ c.command # "Write" => t.data = c.data
         /\ CardState(c) # "SendLsb" => t.sector = c.sector
         /\ CardState(c) \notin {"SendMsb", "SendLsb", "RecvSector", "SendSector"} =>
               t.checksum = c.checksum
         /\ CardState(c) # "SendSector" => t.buffer = c.buffer
         /\ CardState(c) \notin {"RecvSector", "SendSector"} => t.left = c.left
<1> DEFINE at == SectorLen - c.left + 1
<1>1. c \in CardType /\ SectorLen \in Nat \ {0}
  BY SioAssumption DEF Ready, SioAssumption
<1>2. CASE CardState(c) = "SendMsb"
  BY <1>1, <1>2 DEF Take, CardType
<1>3. CASE CardState(c) = "SendLsb"
  <2>1. BitXor(c.checksum, b) \in Byte
    BY <1>1, XorByte DEF CardType
  <2> QED
    BY <1>1, <1>3, <2>1 DEF Take, CardType
<1>4. CASE CardState(c) = "RecvSector"
  <2>1. at \in 1 .. SectorLen /\ c.left - 1 \in 0 .. SectorLen
    BY <1>1, <1>4 DEF Ready
  <2>2. BitXor(c.checksum, c.buffer[at]) \in Byte
    <3>1. c.buffer[at] \in Byte
      BY <1>1, <2>1 DEF CardType, Sector
    <3> HIDE DEF at
    <3> QED
      BY <1>1, <3>1, XorByte DEF CardType
  <2>3. Take(c, b) = [c EXCEPT !.left = @ - 1, !.checksum = BitXor(@, c.buffer[at])]
    BY <1>4 DEF Take
  <2> HIDE DEF at
  <2> QED
    BY <1>1, <1>4, <2>1, <2>2, <2>3 DEF CardType
<1>5. CASE CardState(c) = "SendSector"
  <2>1. at \in 1 .. SectorLen /\ c.left - 1 \in 0 .. SectorLen
    BY <1>1, <1>5 DEF Ready
  <2>2. BitXor(c.checksum, b) \in Byte
    BY <1>1, XorByte DEF CardType
  <2>3. Take(c, b) = [c EXCEPT !.buffer[at] = b, !.left = @ - 1, !.checksum = BitXor(@, b)]
    BY <1>5 DEF Take
  <2>4. [c.buffer EXCEPT ![at] = b] \in Sector
    BY <1>1, <2>1 DEF CardType, Sector
  <2> HIDE DEF at
  <2> QED
    BY <1>1, <1>5, <2>1, <2>2, <2>3, <2>4 DEF CardType
<1>6. CASE CardState(c) = "SendChecksum"
  BY <1>1, <1>6 DEF Take, CardType
<1>7. CASE CardState(c) = "MemEnd"
  <2>1. c.sector \in Sectors
    BY <1>7, StateOf DEF Ready
  <2>2. [c.data EXCEPT ![c.sector] = IF c.command = "Write" THEN c.buffer ELSE @]
           \in [Sectors -> Sector]
    BY <1>1, <2>1 DEF CardType
  <2>3. c.command # "Write" =>
           [c.data EXCEPT ![c.sector] = IF c.command = "Write" THEN c.buffer ELSE @] = c.data
    BY <1>1, <2>1 DEF CardType
  <2> QED
    BY <1>1, <1>7, <2>2, <2>3 DEF Take, CardType
<1>8. CASE CardState(c) \notin {"SendMsb", "SendLsb", "RecvSector", "SendSector",
                                "SendChecksum", "MemEnd"}
  BY <1>1, <1>8 DEF Take
<1> QED
  BY <1>2, <1>3, <1>4, <1>5, <1>6, <1>7, <1>8

\* Advance goes back to the start or one step on, and loads what the new state needs.
LEMMA Advanced ==
  ASSUME NEW t \in CardType, InTable(t), NEW b \in Byte,
         CardState(t) = "Flag" => b \in DOMAIN CommandOf,
         t.command = "Read" /\ t.idx >= 9 => t.sector \in Sectors
  PROVE  LET d == Advance(t, b)
             e == CardTable(d.command)[d.idx + 1]
         IN /\ d \in CardType /\ InTable(d) /\ d.data = t.data
            /\ d.idx # 0 =>
                  /\ d.idx = t.idx + 1 /\ d.command = NextCommand(t, b) /\ d.ack
                  /\ e.check \in {Free, b}
                  /\ d.sector = t.sector /\ d.checksum = t.checksum
                  /\ d.buffer = IF e.state = "RecvSector" THEN t.data[t.sector] ELSE t.buffer
                  /\ e.state \in {"RecvSector", "SendSector"} => d.left = SectorLen
<1> DEFINE cmd  == NextCommand(t, b)
           n    == (t.idx + 1) % Size(cmd)
           e    == CardTable(cmd)[n + 1]
           on   == [t EXCEPT !.command = cmd, !.idx = n, !.ack = n # 0]
           d    == Advance(t, b)
<1>0. SectorLen \in Nat \ {0}
  BY SioAssumption DEF SioAssumption
<1>1. cmd \in Commands
  BY DEF NextCommand, CommandOf, CardType, Commands
<1>3. Size(cmd) \in Nat /\ 10 <= Size(cmd)
  BY <1>1, Sizes
<1>4. t.idx \in Nat
  BY DEF CardType
<1>5. n \in Nat /\ n < Size(cmd)
  <2> HIDE DEF cmd
  <2> QED
    BY <1>3, <1>4
<1>6. n # 0 => n = t.idx + 1
  <2>1. t.idx + 1 <= Size(cmd)
    <3>1. CASE CardState(t) = "Flag"
      <4>1. t.idx = 1
        BY <3>1, StateOf
      <4> HIDE DEF cmd
      <4> QED
        BY <1>3, <4>1
    <3>2. CASE CardState(t) # "Flag"
      <4>1. cmd = t.command
        BY <3>2 DEF NextCommand
      <4>2. t.idx < Size(cmd)
        BY <4>1, Zenon DEF InTable
      <4> HIDE DEF cmd
      <4> QED
        BY <1>3, <1>4, <4>2
    <3> QED
      BY <3>1, <3>2
  <2> HIDE DEF cmd
  <2> QED
    BY <1>3, <1>4, <2>1
<1>7. on \in CardType /\ on.command = cmd /\ on.idx = n /\ on.data = t.data
      /\ on.sector = t.sector /\ on.checksum = t.checksum /\ on.buffer = t.buffer
      /\ on.ack = (n # 0)
  <2> HIDE DEF cmd, n
  <2>1. n \in Nat
    BY <1>3, <1>5
  <2> QED
    BY <1>1, <2>1 DEF CardType
<1>8. d = IF e.check \in {Free, b}
          THEN CASE e.state = "RecvSector" ->
                      [on EXCEPT !.buffer = on.data[on.sector], !.left = SectorLen]
                 [] e.state = "SendSector" -> [on EXCEPT !.left = SectorLen]
                 [] OTHER -> on
          ELSE CardReset(on)
  BY DEF Advance, Size
<1>9. e.check \notin {Free, b} => CardReset(on) \in CardType /\ CardReset(on).idx = 0
                                  /\ CardReset(on).data = t.data
  <2> HIDE DEF on, e
  <2> QED
    BY <1>7 DEF CardReset, CardType
<1>10. n # 0 /\ e.state = "RecvSector" => t.sector \in Sectors
  <2> SUFFICES ASSUME n # 0, e.state = "RecvSector" PROVE t.sector \in Sectors
    OBVIOUS
  <2>1. InTable(on)
    <3>1. n < Size(cmd)
      <4> HIDE DEF cmd, n
      <4> QED
        BY <1>3, <1>5
    <3> HIDE DEF cmd, n, on
    <3> QED
      BY <1>7, <3>1, Zenon DEF InTable
  <2>2. CardState(on) = e.state
    <3> HIDE DEF cmd, n, on
    <3> QED
      BY <1>7, Zenon DEF CardState
  <2>3. on.command = "Read" /\ on.idx = 10
    <3> HIDE DEF on, e
    <3> QED
      BY <1>7, <2>1, <2>2, StateOf
  <2>4. t.idx = 9 /\ cmd = "Read"
    <3> HIDE DEF cmd, n, on
    <3> QED
      BY <1>4, <1>6, <1>7, <2>3
  <2>5. t.command = "Read"
    <3>1. CardState(t) # "Flag"
      BY <2>4, StateOf
    <3> QED
      BY <2>4, <3>1 DEF NextCommand
  <2> QED
    BY <2>4, <2>5
<1>11. n = 0 => e.state # "RecvSector" /\ e.state # "SendSector"
  <2> SUFFICES ASSUME n = 0 PROVE e.state # "RecvSector" /\ e.state # "SendSector"
    OBVIOUS
  <2>1. \A k \in Commands : CardTable(k)[0 + 1] = Entry("Init", Free)
    BY ReadTable, WriteTable, IdTable DEF Commands
  <2>2. e = Entry("Init", Free)
    <3> HIDE DEF cmd
    <3> QED
      BY <1>1, <2>1
  <2> HIDE DEF e
  <2> QED
    BY <2>2 DEF Entry
<1> HIDE DEF d
<1>12. CASE e.check \notin {Free, b}
  <2>1. d = CardReset(on)
    <3> HIDE DEF on, e
    <3> QED
      BY <1>8, <1>12
  <2>2. d \in CardType /\ d.idx = 0 /\ d.data = t.data
    BY <1>9, <1>12, <2>1, Zenon
  <2>3. InTable(d)
    <3>1. d.command \in Commands
      BY <2>2 DEF CardType
    <3> QED
      BY <2>2, <3>1, Sizes DEF InTable
  <2> QED
    BY <2>2, <2>3 DEF d
<1>13. CASE e.check \in {Free, b}
  <2>1. /\ d \in CardType /\ d.idx = n /\ d.command = cmd /\ d.data = t.data
        /\ d.sector = t.sector /\ d.checksum = t.checksum /\ d.ack = (n # 0)
        /\ d.buffer = IF e.state = "RecvSector" THEN t.data[t.sector] ELSE t.buffer
        /\ e.state \in {"RecvSector", "SendSector"} => d.left = SectorLen
    <3> HIDE DEF on, e, cmd, n
    <3>1. CASE e.state = "RecvSector"
      <4>1. d = [on EXCEPT !.buffer = on.data[on.sector], !.left = SectorLen]
        BY <1>8, <1>13, <3>1
      <4>2. on.sector \in Sectors
        BY <1>7, <1>10, <1>11, <3>1
      <4>3. on.data[on.sector] \in Sector
        BY <1>7, <4>2 DEF CardType
      <4> QED
        <5>1. SectorLen \in 0 .. SectorLen
          BY <1>0
        <5> DEFINE v == on.data[on.sector]
        <5>2. v = t.data[t.sector]
          BY <1>7
        <5> HIDE DEF v
        <5>3. v \in Sector /\ d = [on EXCEPT !.buffer = v, !.left = SectorLen]
          BY <4>1, <4>3 DEF v
        <5>4. d \in CardType /\ d.idx = on.idx /\ d.command = on.command /\ d.data = on.data
              /\ d.sector = on.sector /\ d.checksum = on.checksum /\ d.ack = on.ack
              /\ d.buffer = v /\ d.left = SectorLen
          BY <1>7, <5>1, <5>3 DEF CardType
        <5> QED
          BY <1>7, <3>1, <5>2, <5>4
    <3>2. CASE e.state = "SendSector"
      <4>1. d = [on EXCEPT !.left = SectorLen]
        BY <1>8, <1>13, <3>2
      <4> QED
        BY <1>0, <1>7, <3>2, <4>1 DEF CardType
    <3>3. CASE e.state \notin {"RecvSector", "SendSector"}
      <4>1. d = on
        BY <1>8, <1>13, <3>3
      <4> QED
        BY <1>7, <3>3, <4>1
    <3> QED
      BY <3>1, <3>2, <3>3
  <2>2. InTable(d)
    <3>1. n < Size(cmd)
      <4> HIDE DEF cmd, n
      <4> QED
        BY <1>3, <1>5
    <3> HIDE DEF cmd, n, e
    <3> QED
      BY <2>1, <3>1, Zenon DEF InTable
  <2>3. CardTable(d.command)[d.idx + 1] = e
    BY <2>1, Zenon
  <2> HIDE DEF e, n, cmd
  <2>4. /\ d.idx # 0 =>
                  /\ d.idx = t.idx + 1 /\ d.command = cmd /\ d.ack
                  /\ e.check \in {Free, b}
                  /\ d.sector = t.sector /\ d.checksum = t.checksum
                  /\ d.buffer = IF e.state = "RecvSector" THEN t.data[t.sector] ELSE t.buffer
                  /\ e.state \in {"RecvSector", "SendSector"} => d.left = SectorLen
    BY <1>6, <1>13, <2>1
  <2> QED
    BY <2>1, <2>2, <2>3, <2>4 DEF d, cmd
<1> QED
  BY <1>12, <1>13

\* A byte goes by: the card stays among the bytes of a sector, or starts again,
\* or goes on in its table.
InSector(c) == CardState(c) \in {"RecvSector", "SendSector"}

LEMMA Answered ==
  ASSUME NEW c, Ready(c)
  PROVE  CardAnswer(c) \in Byte
<1>1. c \in CardType /\ SectorLen \in Nat \ {0}
  BY SioAssumption DEF Ready, SioAssumption
<1>2. CASE CardState(c) = "RecvSector"
  <2>1. SectorLen - c.left + 1 \in 1 .. SectorLen
    BY <1>1, <1>2 DEF Ready
  <2>2. c.buffer[SectorLen - c.left + 1] \in Byte
    BY <1>1, <2>1 DEF CardType, Sector
  <2> QED
    BY <1>2, <2>2 DEF CardAnswer
<1>3. CASE CardState(c) # "RecvSector"
  BY <1>1, <1>3 DEF CardAnswer, CardType, Byte, HiZ
<1> QED
  BY <1>2, <1>3

LEMMA Passed ==
  ASSUME NEW c, Ready(c), NEW b \in Byte
  PROVE  LET t == Take(c, b)
             x == CardByte(c, b)
             d == x.dev
             e == CardTable(d.command)[d.idx + 1]
         IN /\ d \in CardType /\ InTable(d) /\ d.data = t.data
            /\ x.answer \in {HiZ, CardAnswer(c)}
            /\ d.idx # 0 =>
                  /\ x.answer = CardAnswer(c)
                  /\ \/ InSector(c) /\ t.left > 0 /\ d = t
                     \/ /\ InSector(c) => t.left = 0
                        /\ d.idx = c.idx + 1 /\ d.command = NextCommand(c, b) /\ d.ack
                        /\ e.check \in {Free, b}
                        /\ d.sector = t.sector /\ d.checksum = t.checksum
                        /\ d.buffer = IF e.state = "RecvSector" THEN t.data[t.sector] ELSE t.buffer
                        /\ e.state \in {"RecvSector", "SendSector"} => d.left = SectorLen
<1> DEFINE t == Take(c, b)
           x == CardByte(c, b)
           refused == CardState(c) = "Flag" /\ b \notin DOMAIN CommandOf
           moved == IF refused THEN CardReset(t) ELSE Advance(t, b)
           ended == moved.idx = 0 /\ CardState(c) \notin {"MemEnd", "Recv80h"}
<1>1. t \in CardType /\ t.idx = c.idx /\ t.command = c.command
      /\ (CardState(c) # "SendLsb" => t.sector = c.sector)
  BY Taken1
<1>2. InTable(t) /\ CardState(t) = CardState(c) /\ NextCommand(t, b) = NextCommand(c, b)
  BY <1>1 DEF Ready, InTable, CardState, NextCommand
<1>3. t.command = "Read" /\ t.idx >= 9 => t.sector \in Sectors
  <2> SUFFICES ASSUME t.command = "Read", t.idx >= 9 PROVE t.sector \in Sectors
    OBVIOUS
  <2>1. c.idx \in Nat /\ c.idx >= 9 /\ c.command = "Read"
    BY <1>1 DEF Ready, CardType
  <2>2. CardState(c) # "SendLsb" /\ c.sector \in Sectors
    BY <2>1, StateOf DEF Ready
  <2> QED
    BY <1>1, <2>2
<1>4. CASE InSector(c) /\ t.left > 0
  <2>1. x = [dev |-> t, answer |-> CardAnswer(c)]
    BY <1>4 DEF CardByte, InSector
  <2> HIDE DEF t, x
  <2> QED
    BY <1>1, <1>2, <1>4, <2>1 DEF t, x
<1>5. CASE ~ (InSector(c) /\ t.left > 0)
  <2>1. x = [dev |-> moved, answer |-> IF ended THEN HiZ ELSE CardAnswer(c)]
    BY <1>5 DEF CardByte, InSector
  <2>2. InSector(c) => t.left = 0
    <3> HIDE DEF t
    <3> QED
      BY <1>1, <1>5 DEF CardType
  <2>3. CASE refused
    <3>1. moved = CardReset(t)
      BY <2>3
    <3> HIDE DEF t, moved, refused
    <3>2. moved \in CardType /\ moved.idx = 0 /\ moved.data = t.data /\ moved.command = t.command
      BY <1>1, <3>1 DEF CardReset, CardType
    <3>3. InTable(moved)
      BY <1>1, <3>2, Sizes DEF InTable, CardType
    <3> HIDE DEF x
    <3> QED
      BY <2>1, <3>2, <3>3 DEF t, x
  <2>4. CASE ~ refused
    <3>1. moved = Advance(t, b)
      BY <2>4
    <3>2. CardState(t) = "Flag" => b \in DOMAIN CommandOf
      BY <1>2, <2>4
    <3> DEFINE e == CardTable(moved.command)[moved.idx + 1]
    <3>3. /\ moved \in CardType /\ InTable(moved) /\ moved.data = t.data
          /\ moved.idx # 0 =>
                  /\ moved.idx = t.idx + 1 /\ moved.command = NextCommand(t, b) /\ moved.ack
                  /\ e.check \in {Free, b}
                  /\ moved.sector = t.sector /\ moved.checksum = t.checksum
                  /\ moved.buffer = IF e.state = "RecvSector" THEN t.data[t.sector] ELSE t.buffer
                  /\ e.state \in {"RecvSector", "SendSector"} => moved.left = SectorLen
      <4> HIDE DEF t, moved
      <4>1. /\ Advance(t, b) \in CardType /\ InTable(Advance(t, b)) /\ Advance(t, b).data = t.data
            /\ LET d == Advance(t, b)
                   f == CardTable(d.command)[d.idx + 1]
               IN d.idx # 0 =>
                  /\ d.idx = t.idx + 1 /\ d.command = NextCommand(t, b) /\ d.ack
                  /\ f.check \in {Free, b}
                  /\ d.sector = t.sector /\ d.checksum = t.checksum
                  /\ d.buffer = IF f.state = "RecvSector" THEN t.data[t.sector] ELSE t.buffer
                  /\ f.state \in {"RecvSector", "SendSector"} => d.left = SectorLen
        BY <1>1, <1>2, <1>3, <3>2, Advanced
      <4> QED
        BY <3>1, <4>1, Zenon
    <3>4. x.dev = moved /\ x.answer \in {HiZ, CardAnswer(c)}
          /\ (moved.idx # 0 => x.answer = CardAnswer(c))
      <4> HIDE DEF moved, x
      <4> QED
        BY <2>1
    <3> HIDE DEF t, moved, x
    <3> QED
      BY <1>1, <1>2, <2>2, <3>3, <3>4, Zenon DEF t, x
  <2> QED
    BY <2>3, <2>4
<1> QED
  BY <1>4, <1>5

-----------------------------------------------------------------------------
(* A card in the middle of a command, and what it was sent and answered.   *)

SectorAt(command) ==
    CASE command = "Read" -> 10 [] command = "Write" -> 6 [] command = "GetId" -> 13
Gone(c)  == SectorLen - c.left
Taken(c) ==
    IF c.idx < SectorAt(c.command) THEN c.idx
    ELSE IF c.idx = SectorAt(c.command) THEN c.idx + Gone(c)
    ELSE c.idx - 1 + SectorLen

\* What the sum of a read runs over: the two bytes of the number, and the sector.
Read(c, s) == <<s[5], s[6]>> \o c.data[c.sector]

ReadGood(c, s, h) ==
    /\ c.idx = 5 => c.checksum = s[5]
    /\ c.idx >= 6 => s[6] = c.sector
    /\ c.idx \in 6 .. 9 => c.checksum = BitXor(s[5], s[6])
    /\ c.idx = 10 =>
          /\ c.buffer = c.data[c.sector]
          /\ \A i \in 1 .. Gone(c) : h[10 + i] = c.data[c.sector][i]
          /\ c.checksum = XorSums(Read(c, s))[2 + Gone(c)]
    /\ c.idx >= 11 =>
          /\ \A i \in 1 .. SectorLen : h[10 + i] = c.data[c.sector][i]
          /\ c.checksum = XorSums(Read(c, s))[2 + SectorLen]
    /\ c.idx = 12 => h[11 + SectorLen] = c.checksum

WriteGood(c, s) ==
    /\ c.idx >= 2 => s[2] = 87
    /\ c.idx >= 3 => s[3] = 0
    /\ c.idx >= 4 => s[4] = 0
    /\ c.idx >= 5 => s[5] = 0
    /\ c.idx >= 6 => s[6] = c.sector
    /\ c.idx = 6 => \A i \in 1 .. Gone(c) : c.buffer[i] = s[6 + i]
    /\ c.idx >= 7 => \A i \in 1 .. SectorLen : c.buffer[i] = s[6 + i]
    /\ c.idx >= 8 => s[7 + SectorLen] \in Data
    /\ c.idx >= 9 => s[8 + SectorLen] = 0
    /\ c.idx >= 10 => s[9 + SectorLen] = 0

CardGood(c, s, h) ==
    /\ Ready(c)
    /\ s \in Seq(Bytes) /\ Len(s) = Taken(c)
    /\ h \in Seq(Byte) /\ Len(h) = Taken(c)
    /\ c.idx >= 1 => s[1] = 129
    /\ c.command = "Read" => ReadGood(c, s, h)
    /\ c.command = "Write" => WriteGood(c, s)

\* The bytes a guest may send a card in the state it is in.
MayTake(c, b) ==
    /\ CardState(c) = "SendMsb" => b = 0
    /\ CardState(c) = "SendLsb" => b \in Sectors
    /\ CardState(c) \in {"SendSector", "SendChecksum"} => b \in Data

\* What the byte leaves in the card, where it leaves something.
LEMMA Taken2 ==
  ASSUME NEW c, Ready(c), NEW b \in Byte
  PROVE  LET t == Take(c, b) IN
         /\ CardState(c) = "SendMsb" => t.checksum = b
         /\ CardState(c) = "SendLsb" => t.sector = b /\ t.checksum = BitXor(c.checksum, b)
         /\ InSector(c) => c.left \in 1 .. SectorLen /\ t.left = c.left - 1
         /\ CardState(c) = "RecvSector" =>
               t.checksum = BitXor(c.checksum, c.buffer[Gone(c) + 1])
         /\ CardState(c) = "SendSector" => t.buffer = [c.buffer EXCEPT ![Gone(c) + 1] = b]
         /\ CardState(c) = "MemEnd" /\ c.command = "Write" =>
               t.data = [c.data EXCEPT ![c.sector] = c.buffer]
<1>1. c \in CardType
  BY DEF Ready
<1>2. CASE CardState(c) = "SendMsb"
  BY <1>1, <1>2 DEF Take, CardType, InSector
<1>3. CASE CardState(c) = "SendLsb"
  <2> DEFINE v == BitXor(c.checksum, b)
  <2>1. Take(c, b) = [c EXCEPT !.sector = b, !.checksum = v]
    BY <1>1, <1>3 DEF Take
  <2>2. Take(c, b).sector = b /\ Take(c, b).checksum = v
    <3> HIDE DEF v
    <3> QED
      BY <1>1, <2>1 DEF CardType
  <2> QED
    BY <1>3, <2>2 DEF InSector
<1>4. CASE CardState(c) = "RecvSector"
  <2> DEFINE v == BitXor(c.checksum, c.buffer[SectorLen - c.left + 1])
  <2>1. Take(c, b) = [c EXCEPT !.left = @ - 1, !.checksum = v]
    BY <1>1, <1>4 DEF Take
  <2>2. Take(c, b).left = c.left - 1 /\ Take(c, b).checksum = v
    <3> HIDE DEF v
    <3> QED
      BY <1>1, <2>1 DEF CardType
  <2>3. c.left \in 1 .. SectorLen
    BY <1>4 DEF Ready
  <2> QED
    BY <1>4, <2>2, <2>3 DEF Gone
<1>5. CASE CardState(c) = "SendSector"
  <2> DEFINE v == BitXor(c.checksum, b)
             w == [c.buffer EXCEPT ![SectorLen - c.left + 1] = b]
  <2>1. Take(c, b) = [c EXCEPT !.buffer = w, !.left = @ - 1, !.checksum = v]
    BY <1>1, <1>5 DEF Take, CardType
  <2>2. Take(c, b).left = c.left - 1 /\ Take(c, b).buffer = w
    <3> HIDE DEF v, w
    <3> QED
      BY <1>1, <2>1 DEF CardType
  <2>3. c.left \in 1 .. SectorLen
    BY <1>5 DEF Ready
  <2> QED
    BY <1>5, <2>2, <2>3 DEF Gone
<1>6. CASE CardState(c) = "MemEnd"
  <2> DEFINE v == [c.data EXCEPT ![c.sector] = IF c.command = "Write" THEN c.buffer ELSE @]
  <2>1. Take(c, b).data = v
    BY <1>1, <1>6 DEF Take, CardType
  <2> QED
    BY <1>6, <2>1 DEF InSector
<1>7. CASE CardState(c) \notin {"SendMsb", "SendLsb", "RecvSector", "SendSector", "MemEnd"}
  BY <1>7 DEF InSector
<1> QED
  BY <1>2, <1>3, <1>4, <1>5, <1>6, <1>7

\* A byte among the bytes of a sector, and a step of a read and of a write.
Stays(c, d, b) ==
    /\ InSector(c) /\ c.left \in 2 .. SectorLen /\ d.left = c.left - 1
    /\ d.idx = c.idx /\ d.command = c.command /\ d.sector = c.sector /\ d.data = c.data
    /\ c.command = "Read" =>
          d.buffer = c.buffer /\ d.checksum = BitXor(c.checksum, c.buffer[Gone(c) + 1])
    /\ c.command = "Write" => d.buffer = [c.buffer EXCEPT ![Gone(c) + 1] = b]
Moves(c, d, b) ==
    /\ d.idx = c.idx + 1 /\ (c.idx # 1 => d.command = c.command) /\ d.data = c.data
    /\ c.idx = 0 => b = 129
    /\ InSector(c) => c.left = 1
MovesRead(c, d, b) ==
    /\ c.idx = 4 => d.checksum = b
    /\ c.idx = 5 => d.sector = b /\ d.checksum = BitXor(c.checksum, b)
    /\ c.idx # 5 => d.sector = c.sector
    /\ c.idx \in 6 .. 9 \/ c.idx = 11 => d.checksum = c.checksum
    /\ c.idx = 9 => d.buffer = c.data[c.sector] /\ d.left = SectorLen
    /\ c.idx = 10 => d.checksum = BitXor(c.checksum, c.buffer[Gone(c) + 1])
MovesWrite(c, d, b) ==
    /\ c.idx = 5 => d.sector = b /\ d.left = SectorLen
    /\ c.idx # 5 => d.sector = c.sector
    /\ c.idx = 6 => d.buffer = [c.buffer EXCEPT ![Gone(c) + 1] = b]
    /\ c.idx # 6 => d.buffer = c.buffer
    /\ c.idx \in {2, 3, 8, 9} => b = 0

LEMMA Went ==
  ASSUME NEW c, Ready(c), NEW b \in Byte, CardByte(c, b).dev.idx # 0
  PROVE  LET d == CardByte(c, b).dev IN
         \/ Stays(c, d, b)
         \/ /\ Moves(c, d, b)
            /\ c.idx # 1 /\ c.command = "Read" => MovesRead(c, d, b)
            /\ c.idx # 1 /\ c.command = "Write" => MovesWrite(c, d, b)
            /\ c.idx = 1 /\ d.command = "Write" => b = 87
            /\ d.command # "GetId" /\ d.idx = SectorAt(d.command) => d.left = SectorLen
<1> DEFINE t == Take(c, b)
           d == CardByte(c, b).dev
           e == CardTable(d.command)[d.idx + 1]
<1>0. c \in CardType /\ InTable(c) /\ c.idx \in Nat /\ c.command \in Commands
      /\ SectorLen \in Nat \ {0} /\ c.left \in Int
  <2>1. SectorLen \in Nat \ {0}
    BY SioAssumption DEF SioAssumption
  <2> QED
    BY <2>1 DEF Ready, CardType
<1>1. /\ d \in CardType /\ InTable(d) /\ d.data = t.data
      /\ \/ InSector(c) /\ t.left > 0 /\ d = t
         \/ /\ InSector(c) => t.left = 0
            /\ d.idx = c.idx + 1 /\ d.command = NextCommand(c, b)
            /\ e.check \in {Free, b}
            /\ d.sector = t.sector /\ d.checksum = t.checksum
            /\ d.buffer = IF e.state = "RecvSector" THEN t.data[t.sector] ELSE t.buffer
            /\ e.state \in {"RecvSector", "SendSector"} => d.left = SectorLen
  BY Passed
<1> HIDE DEF t, d
<1>2. /\ t \in CardType
      /\ t.idx = c.idx /\ t.command = c.command
      /\ CardState(c) # "MemEnd" \/ c.command # "Write" => t.data = c.data
      /\ CardState(c) # "SendLsb" => t.sector = c.sector
      /\ CardState(c) \notin {"SendMsb", "SendLsb", "RecvSector", "SendSector"} =>
               t.checksum = c.checksum
      /\ CardState(c) # "SendSector" => t.buffer = c.buffer
  BY Taken1 DEF t
<1>3. /\ CardState(c) = "SendMsb" => t.checksum = b
      /\ CardState(c) = "SendLsb" => t.sector = b /\ t.checksum = BitXor(c.checksum, b)
      /\ InSector(c) => c.left \in 1 .. SectorLen /\ t.left = c.left - 1
      /\ CardState(c) = "RecvSector" =>
               t.checksum = BitXor(c.checksum, c.buffer[Gone(c) + 1])
      /\ CardState(c) = "SendSector" => t.buffer = [c.buffer EXCEPT ![Gone(c) + 1] = b]
  BY Taken2 DEF t
<1>4. CASE InSector(c) /\ t.left > 0 /\ d = t
  <2>1. c.left \in 2 .. SectorLen
    BY <1>0, <1>3, <1>4
  <2>2. /\ c.command = "Read" => CardState(c) = "RecvSector"
        /\ c.command = "Write" => CardState(c) = "SendSector"
    BY <1>0, <1>4, StateOf DEF InSector
  <2>3. CardState(c) \in {"RecvSector", "SendSector"}
    BY <1>4 DEF InSector
  <2> DEFINE v == BitXor(c.checksum, c.buffer[Gone(c) + 1])
             w == [c.buffer EXCEPT ![Gone(c) + 1] = b]
  <2>4. /\ CardState(c) = "RecvSector" => t.checksum = v
        /\ CardState(c) = "SendSector" => t.buffer = w
    BY <1>3
  <2>5. Stays(c, d, b) <=>
          /\ InSector(c) /\ c.left \in 2 .. SectorLen /\ d.left = c.left - 1
          /\ d.idx = c.idx /\ d.command = c.command /\ d.sector = c.sector /\ d.data = c.data
          /\ c.command = "Read" => d.buffer = c.buffer /\ d.checksum = v
          /\ c.command = "Write" => d.buffer = w
    BY DEF Stays
  <2> HIDE DEF v, w
  <2>6. Stays(c, d, b)
    BY <1>2, <1>3, <1>4, <2>1, <2>2, <2>3, <2>4, <2>5
  <2> QED
    BY <2>6 DEF d
<1>5. CASE ~ (InSector(c) /\ t.left > 0 /\ d = t)
  <2>1. /\ InSector(c) => c.left = 1
        /\ d.idx = c.idx + 1 /\ d.command = NextCommand(c, b)
        /\ e.check \in {Free, b}
        /\ d.sector = t.sector /\ d.checksum = t.checksum
        /\ d.buffer = IF e.state = "RecvSector" THEN t.data[t.sector] ELSE t.buffer
        /\ e.state \in {"RecvSector", "SendSector"} => d.left = SectorLen
    BY <1>0, <1>1, <1>3, <1>5
  <2>2. c.idx # 1 => d.command = c.command
    BY <1>0, <2>1, StateOf DEF NextCommand
  <2>3. d.idx < Size(d.command) /\ d.command \in Commands
    BY <1>1 DEF InTable, CardType
  <2>4. CardState(c) # "MemEnd"
    <3>1. ~ (c.command = "Read" /\ c.idx = 12) /\ ~ (c.command = "Write" /\ c.idx = 10)
      BY <2>1, <2>2, <2>3, Sizes
    <3> QED
      BY <1>0, <3>1, StateOf
  <2>5. d.data = c.data
    BY <1>1, <1>2, <2>4
  <2>6. d.idx \in Nat /\ d.idx < Size(d.command)
    BY <1>0, <2>1, <2>3
  <2>7. c.idx = 0 => b = 129
    <3> SUFFICES ASSUME c.idx = 0 PROVE b = 129
      OBVIOUS
    <3>1. d.idx + 1 = 2
      BY <2>1
    <3>2. \A k \in Commands : CardTable(k)[2] = Entry("Flag", 129)
      BY ReadTable, WriteTable, IdTable DEF Commands
    <3>3. e = Entry("Flag", 129)
      BY <2>3, <3>1, <3>2
    <3> HIDE DEF e
    <3> QED
      BY <2>1, <3>3 DEF Entry, Free, None
  <2>8. c.idx = 1 /\ d.command = "Write" => b = 87
    <3> SUFFICES ASSUME c.idx = 1, d.command = "Write" PROVE b = 87
      OBVIOUS
    <3>1. d.idx + 1 = 3
      BY <2>1
    <3>3. e = Entry("CardId1", 87)
      BY <3>1, WriteTable
    <3> HIDE DEF e
    <3> QED
      BY <2>1, <3>3 DEF Entry, Free, None
  <2>9. Moves(c, d, b)
    BY <2>1, <2>2, <2>5, <2>7 DEF Moves
  <2>10. CardState(d) = e.state
    BY DEF CardState
  <2>11. d.command # "GetId" /\ d.idx = SectorAt(d.command) => d.left = SectorLen
    <3> SUFFICES ASSUME d.command # "GetId", d.idx = SectorAt(d.command) PROVE d.left = SectorLen
      OBVIOUS
    <3>1. e.state \in {"RecvSector", "SendSector"}
      BY <1>1, <2>3, <2>10, StateOf DEF SectorAt, Commands
    <3> HIDE DEF e
    <3> QED
      BY <2>1, <3>1
  <2>12. ASSUME c.idx # 1, c.command = "Read" PROVE MovesRead(c, d, b)
    <3>1. d.command = "Read"
      BY <2>2, <2>12
    <3>2. e.state = "RecvSector" <=> d.idx = 10
      BY <1>1, <2>10, <3>1, StateOf
    <3> DEFINE v == BitXor(c.checksum, c.buffer[Gone(c) + 1])
               u == BitXor(c.checksum, b)
    <3>3. /\ c.idx = 4 => t.checksum = b
          /\ c.idx = 5 => t.sector = b /\ t.checksum = u
          /\ c.idx # 5 => t.sector = c.sector
          /\ c.idx \in 6 .. 9 \/ c.idx = 11 => t.checksum = c.checksum
          /\ c.idx = 10 => t.checksum = v
      BY <1>0, <1>2, <1>3, <2>12, StateOf
    <3>4. MovesRead(c, d, b) <=>
            /\ c.idx = 4 => d.checksum = b
            /\ c.idx = 5 => d.sector = b /\ d.checksum = u
            /\ c.idx # 5 => d.sector = c.sector
            /\ c.idx \in 6 .. 9 \/ c.idx = 11 => d.checksum = c.checksum
            /\ c.idx = 9 => d.buffer = c.data[c.sector] /\ d.left = SectorLen
            /\ c.idx = 10 => d.checksum = v
      BY DEF MovesRead
    <3>5. d.idx = 10 <=> c.idx = 9
      BY <1>0, <2>1
    <3> HIDE DEF e, u, v
    <3>6. c.idx = 9 => d.buffer = c.data[c.sector] /\ d.left = SectorLen
      BY <1>1, <2>1, <2>5, <3>2, <3>3, <3>5
    <3> QED
      BY <2>1, <3>3, <3>4, <3>6
  <2>13. ASSUME c.idx # 1, c.command = "Write" PROVE MovesWrite(c, d, b)
    <3>1. d.command = "Write"
      BY <2>2, <2>13
    <3>2. e.state # "RecvSector" /\ (e.state = "SendSector" <=> d.idx = 6)
      BY <1>1, <2>10, <3>1, StateOf
    <3> DEFINE w == [c.buffer EXCEPT ![Gone(c) + 1] = b]
    <3>3. /\ c.idx = 5 => t.sector = b
          /\ c.idx # 5 => t.sector = c.sector
          /\ c.idx = 6 => t.buffer = w
          /\ c.idx # 6 => t.buffer = c.buffer
      BY <1>0, <1>2, <1>3, <2>13, StateOf
    <3>4. MovesWrite(c, d, b) <=>
            /\ c.idx = 5 => d.sector = b /\ d.left = SectorLen
            /\ c.idx # 5 => d.sector = c.sector
            /\ c.idx = 6 => d.buffer = w
            /\ c.idx # 6 => d.buffer = c.buffer
            /\ c.idx \in {2, 3, 8, 9} => b = 0
      BY DEF MovesWrite
    <3>5. d.idx = 6 <=> c.idx = 5
      BY <1>0, <2>1
    <3>6. ASSUME c.idx \in {2, 3, 8, 9} PROVE b = 0
      <4>1. CardTable("Write")[c.idx + 2].check = 0
        BY <3>6, WriteTable DEF Entry
      <4>2. e.check = 0
        <5>1. d.idx + 1 = c.idx + 2
          BY <1>0, <2>1
        <5> QED
          BY <3>1, <4>1, <5>1
      <4> HIDE DEF e
      <4> QED
        BY <2>1, <4>2 DEF Free, None
    <3> HIDE DEF e, w
    <3> QED
      BY <2>1, <3>2, <3>3, <3>4, <3>5, <3>6
  <2> QED
    BY <2>8, <2>9, <2>11, <2>12, <2>13 DEF d
<1> QED
  BY <1>4, <1>5

\* What was sent or answered before a byte, and with it.
LEMMA Appended ==
  ASSUME NEW S, NEW s \in Seq(S), NEW b \in S
  PROVE  /\ Append(s, b) \in Seq(S) /\ Len(s) \in Nat /\ Len(Append(s, b)) = Len(s) + 1
         /\ \A i \in 1 .. Len(s) : Append(s, b)[i] = s[i]
         /\ Append(s, b)[Len(s) + 1] = b
  BY AppendProperties, LenProperties

\* The sum a read has come to.
LEMMA ReadSums ==
  ASSUME NEW c \in CardType, c.sector \in Sectors, NEW x \in Byte, NEW y \in Byte,
         NEW s, s[5] = x, s[6] = y
  PROVE  /\ XorSums(Read(c, s))[2] = BitXor(x, y)
         /\ \A i \in 1 .. SectorLen :
               XorSums(Read(c, s))[2 + i] = BitXor(XorSums(Read(c, s))[1 + i], c.data[c.sector][i])
         /\ Len(Read(c, s)) = 2 + SectorLen
<1> DEFINE q == c.data[c.sector]
           r == <<x, y>> \o q
<1>1. SectorLen \in Nat \ {0}
  BY SioAssumption DEF SioAssumption
<1>2. q \in Sector
  BY DEF CardType
<1>3. q \in Seq(Byte) /\ Len(q) = SectorLen
  <2> HIDE DEF q
  <2> QED
    BY <1>1, <1>2 DEF Sector
<1>4. Read(c, s) = r
  BY DEF Read
<1> HIDE DEF q
<1>5. /\ r \in Seq(Byte) /\ Len(r) = 2 + SectorLen
      /\ r[1] = x /\ r[2] = y /\ \A i \in 1 .. SectorLen : r[2 + i] = q[i]
  <2>1. <<x, y>> \in Seq(Byte) /\ Len(<<x, y>>) = 2 /\ <<x, y>>[1] = x /\ <<x, y>>[2] = y
    OBVIOUS
  <2> DEFINE xy == <<x, y>>
  <2> HIDE DEF xy
  <2>2. xy \in Seq(Byte) /\ Len(xy) = 2 /\ xy[1] = x /\ xy[2] = y
    BY <2>1 DEF xy
  <2>3. /\ xy \o q \in Seq(Byte)
        /\ Len(xy \o q) = Len(xy) + Len(q)
        /\ \A i \in 1 .. Len(xy) + Len(q) : (xy \o q)[i] =
                     IF i <= Len(xy) THEN xy[i] ELSE q[i - Len(xy)]
    BY <1>3, <2>2, ConcatProperties
  <2> DEFINE z == xy \o q
  <2> HIDE DEF z
  <2>4. /\ z \in Seq(Byte) /\ Len(z) = 2 + SectorLen
        /\ \A i \in 1 .. 2 + SectorLen : z[i] = IF i <= 2 THEN xy[i] ELSE q[i - 2]
    BY <1>3, <2>2, <2>3 DEF z
  <2>5. z[1] = x /\ z[2] = y
    BY <1>1, <2>2, <2>4
  <2>6. ASSUME NEW i \in 1 .. SectorLen PROVE z[2 + i] = q[i]
    <3>1. 2 + i \in 1 .. 2 + SectorLen /\ ~ (2 + i <= 2) /\ (2 + i) - 2 = i
      BY <1>1
    <3> QED
      BY <2>4, <3>1
  <2> QED
    BY <2>4, <2>5, <2>6 DEF z, xy
<1> DEFINE g == XorSums(r)
<1>6. g[0] = 0 /\ \A k \in 1 .. 2 + SectorLen : g[k] = BitXor(g[k - 1], r[k])
  <2> HIDE DEF r
  <2> QED
    BY <1>5, SumsAre DEF SumsTo
<1>7. g[2] = BitXor(x, y)
  <2> HIDE DEF g, r
  <2>1. g[1] = BitXor(0, x)
    <3>1. 1 \in 1 .. 2 + SectorLen /\ 1 - 1 = 0
      BY <1>1
    <3>2. g[1] = BitXor(g[1 - 1], r[1])
      BY <1>6, <3>1
    <3> QED
      BY <1>5, <1>6, <3>1, <3>2
  <2>2. BitXor(0, x) = x
    BY SioAssumption DEF SioAssumption, Byte
  <2>3. g[2] = BitXor(g[1], y)
    <3>1. 2 \in 1 .. 2 + SectorLen /\ 2 - 1 = 1
      BY <1>1
    <3>2. g[2] = BitXor(g[2 - 1], r[2])
      BY <1>6, <3>1
    <3> QED
      BY <1>5, <3>1, <3>2
  <2> QED
    BY <2>1, <2>2, <2>3
<1>8. ASSUME NEW i \in 1 .. SectorLen PROVE g[2 + i] = BitXor(g[1 + i], q[i])
  <2> HIDE DEF g, r
  <2>1. 2 + i \in 1 .. 2 + SectorLen /\ (2 + i) - 1 = 1 + i
    BY <1>1
  <2>2. g[2 + i] = BitXor(g[(2 + i) - 1], r[2 + i])
    BY <1>6, <2>1
  <2> QED
    BY <1>5, <2>1, <2>2
<1> QED
  BY <1>4, <1>5, <1>7, <1>8 DEF q

\* What a read has answered stays true as it goes on.
LEMMA ReadGoesOn ==
  ASSUME NEW c, NEW s, NEW h, CardGood(c, s, h), NEW b \in Bytes, MayTake(c, b),
         NEW d \in CardType, d.command = "Read", InTable(d),
         NEW v \in Byte, v = CardAnswer(c),
         \/ Stays(c, d, b)
         \/ Moves(c, d, b) /\ (c.idx # 1 => MovesRead(c, d, b))
  PROVE  ReadGood(d, Append(s, b), Append(h, v))
<1> DEFINE s2 == Append(s, b)
           h2 == Append(h, v)
<1>0. SectorLen \in Nat \ {0} /\ Bytes \subseteq Byte
  BY SioAssumption DEF SioAssumption, Byte
<1>1. /\ c \in CardType /\ InTable(c) /\ c.idx \in Nat
      /\ d.idx \in Nat /\ d.idx <= 12
  <2>1. d.idx < 13
    BY Sizes DEF InTable
  <2> QED
    BY <2>1 DEF CardGood, Ready, CardType
<1>2. /\ Len(s) = Taken(c) /\ s2 \in Seq(Bytes) /\ Taken(c) \in Nat
      /\ \A i \in 1 .. Taken(c) : s2[i] = s[i]
      /\ s2[Taken(c) + 1] = b
      /\ \A i \in 1 .. Taken(c) : s[i] \in Byte
  BY <1>0, Appended, ElementOfSeq DEF CardGood
<1>3. /\ Len(h) = Taken(c) /\ h2 \in Seq(Byte)
      /\ \A i \in 1 .. Taken(c) : h2[i] = h[i]
      /\ h2[Taken(c) + 1] = v
  BY Appended DEF CardGood
<1> SUFFICES ReadGood(d, s2, h2)
  OBVIOUS
<1> HIDE DEF s2, h2
<1>4. CASE d.idx <= 4
  BY <1>1, <1>4 DEF ReadGood
<1>5. CASE d.idx >= 5
  <2>1. c.idx # 1 /\ c.command = "Read" /\ (c.idx >= 4)
    <3>1. CASE Stays(c, d, b)
      BY <1>1, <1>5, <3>1 DEF Stays
    <3>2. CASE Moves(c, d, b)
      BY <1>1, <1>5, <3>2 DEF Moves
    <3> QED
      BY <3>1, <3>2
  <2>2. ReadGood(c, s, h)
    BY <2>1 DEF CardGood
  <2>3. c.idx >= 6 => c.sector \in Sectors
    BY <2>1 DEF CardGood, Ready
  <2>4. c.left \in 0 .. SectorLen /\ Gone(c) \in 0 .. SectorLen
    BY <1>0, <1>1 DEF CardType, Gone
  <2>5. Taken(c) = IF c.idx < 10 THEN c.idx ELSE IF c.idx = 10 THEN 10 + Gone(c)
                   ELSE c.idx - 1 + SectorLen
    BY <1>1, <2>1 DEF Taken, SectorAt
  <2>6. Stays(c, d, b) => c.idx = 10
    BY <1>1, <2>1, StateOf DEF Stays, InSector
  <2>7. CASE d.idx = 5
    <3>1. Moves(c, d, b) /\ MovesRead(c, d, b) /\ c.idx = 4
      BY <1>1, <2>1, <2>6, <2>7 DEF Stays, Moves
    <3>2. d.checksum = s2[5]
      BY <1>2, <2>5, <3>1 DEF MovesRead
    <3> QED
      BY <2>7, <3>2 DEF ReadGood
  <2>8. CASE d.idx = 6
    <3>1. Moves(c, d, b) /\ MovesRead(c, d, b) /\ c.idx = 5
      BY <1>1, <2>1, <2>6, <2>8 DEF Stays, Moves
    <3>2. c.checksum = s[5]
      BY <2>2, <3>1 DEF ReadGood
    <3>3. d.sector = b /\ d.checksum = BitXor(s[5], b)
      BY <3>1, <3>2 DEF MovesRead
    <3>4. s2[5] = s[5] /\ s2[6] = b
      BY <1>2, <2>5, <3>1
    <3>5. s2[6] = d.sector /\ d.checksum = BitXor(s2[5], s2[6])
      BY <3>3, <3>4
    <3> QED
      BY <2>8, <3>5 DEF ReadGood
  <2>9. CASE d.idx \in 7 .. 12
    <3>1. c.idx >= 6
      BY <1>1, <2>1, <2>6, <2>9 DEF Stays, Moves
    <3>2. s[6] = c.sector /\ c.sector \in Sectors /\ Taken(c) >= 6
      BY <1>0, <1>1, <2>2, <2>3, <2>4, <2>5, <3>1 DEF ReadGood
    <3>3. s2[5] = s[5] /\ s2[6] = s[6] /\ s[5] \in Byte /\ s[6] \in Byte
      BY <1>2, <3>2
    <3>4. d.sector = c.sector /\ d.data = c.data
      BY <2>1, <3>1 DEF Stays, Moves, MovesRead
    <3>5. Read(d, s2) = Read(c, s)
      BY <3>3, <3>4 DEF Read
    <3> DEFINE g == XorSums(Read(c, s))
               q == c.data[c.sector]
    <3>6. /\ g[2] = BitXor(s[5], s[6])
          /\ \A i \in 1 .. SectorLen : g[2 + i] = BitXor(g[1 + i], q[i])
      BY <1>1, <3>2, <3>3, ReadSums
    <3> HIDE DEF g, q
    <3>7. ReadGood(d, s2, h2) <=>
            /\ d.idx \in 6 .. 9 => d.checksum = BitXor(s2[5], s2[6])
            /\ d.idx = 10 =>
                  /\ d.buffer = q
                  /\ \A i \in 1 .. Gone(d) : h2[10 + i] = q[i]
                  /\ d.checksum = g[2 + Gone(d)]
            /\ d.idx >= 11 =>
                  /\ \A i \in 1 .. SectorLen : h2[10 + i] = q[i]
                  /\ d.checksum = g[2 + SectorLen]
            /\ d.idx = 12 => h2[11 + SectorLen] = d.checksum
      BY <2>9, <3>2, <3>3, <3>4, <3>5 DEF ReadGood, g, q
    <3>8. CASE d.idx \in 7 .. 9
      <4>1. Moves(c, d, b) /\ MovesRead(c, d, b) /\ c.idx \in 6 .. 8
        BY <1>1, <2>1, <2>6, <3>8 DEF Stays, Moves
      <4>2. d.checksum = c.checksum
        BY <4>1 DEF MovesRead
      <4>3. c.checksum = BitXor(s[5], s[6])
        BY <2>2, <4>1 DEF ReadGood
      <4>4. d.checksum = BitXor(s2[5], s2[6])
        BY <3>3, <4>2, <4>3
      <4> QED
        BY <3>7, <3>8, <4>4
    <3>9. CASE d.idx = 10 /\ c.idx = 9
      <4>1. Moves(c, d, b) /\ MovesRead(c, d, b)
        BY <2>1, <2>6, <3>9
      <4>2. d.checksum = c.checksum /\ d.buffer = q /\ d.left = SectorLen
        BY <3>9, <4>1 DEF MovesRead, q
      <4>3. c.checksum = g[2]
        BY <2>2, <3>6, <3>9 DEF ReadGood
      <4>4. Gone(d) = 0
        BY <1>0, <4>2 DEF Gone
      <4>5. d.checksum = g[2 + 0]
        BY <4>2, <4>3
      <4> QED
        BY <3>7, <3>9, <4>2, <4>4, <4>5
    <3>10. CASE c.idx = 10
      <4>1. /\ c.buffer = q
            /\ \A i \in 1 .. Gone(c) : h[10 + i] = q[i]
            /\ c.checksum = g[2 + Gone(c)]
        BY <2>2, <3>10 DEF ReadGood, g, q
      <4>2. CardState(c) = "RecvSector"
        BY <1>1, <2>1, <3>10, StateOf
      <4>3. c.left \in 1 .. SectorLen
        BY <4>2 DEF CardGood, Ready
      <4>4. Gone(c) + 1 \in 1 .. SectorLen /\ Gone(c) \in Nat
        BY <1>0, <4>3 DEF Gone
      <4>5. d.checksum = BitXor(c.checksum, c.buffer[Gone(c) + 1])
        BY <2>1, <3>10 DEF Stays, MovesRead
      <4>6. v = q[Gone(c) + 1]
        BY <4>1, <4>2 DEF CardAnswer, Gone
      <4>7. d.checksum = g[2 + (Gone(c) + 1)]
        <5> DEFINE i == Gone(c) + 1
        <5>1. g[2 + i] = BitXor(g[1 + i], q[i]) /\ 1 + i = 2 + Gone(c)
          BY <3>6, <4>4
        <5>2. d.checksum = BitXor(g[2 + Gone(c)], q[i])
          BY <4>1, <4>5
        <5> QED
          BY <5>1, <5>2
      <4>8. \A i \in 1 .. Gone(c) + 1 : h2[10 + i] = q[i]
        <5> SUFFICES ASSUME NEW i \in 1 .. Gone(c) + 1 PROVE h2[10 + i] = q[i]
          OBVIOUS
        <5>1. Taken(c) = 10 + Gone(c)
          BY <2>5, <3>10
        <5>2. CASE i = Gone(c) + 1
          <6>1. 10 + i = Taken(c) + 1
            BY <4>4, <5>1, <5>2
          <6> QED
            BY <1>3, <4>6, <5>2, <6>1
        <5>3. CASE i \in 1 .. Gone(c)
          <6>1. 10 + i \in 1 .. Taken(c)
            BY <4>4, <5>1, <5>3
          <6> QED
            BY <1>3, <4>1, <5>3, <6>1
        <5> QED
          BY <4>4, <5>2, <5>3
      <4>9. CASE Stays(c, d, b)
        <5>1. d.idx = 10 /\ d.buffer = q /\ Gone(d) = Gone(c) + 1
          BY <1>0, <2>1, <2>4, <3>10, <4>1, <4>9 DEF Stays, Gone
        <5> QED
          BY <3>7, <4>7, <4>8, <5>1
      <4>10. CASE Moves(c, d, b)
        <5>1. d.idx = 11 /\ Gone(c) + 1 = SectorLen
          BY <1>0, <3>10, <4>2, <4>10 DEF Moves, InSector, Gone
        <5> QED
          BY <3>7, <4>7, <4>8, <5>1
      <4> QED
        BY <4>9, <4>10
    <3>11. CASE c.idx = 11
      <4>1. Moves(c, d, b) /\ MovesRead(c, d, b)
        BY <2>1, <2>6, <3>11
      <4>2. d.idx = 12 /\ d.checksum = c.checksum
        BY <3>11, <4>1 DEF Moves, MovesRead
      <4>3. /\ \A i \in 1 .. SectorLen : h[10 + i] = q[i]
            /\ c.checksum = g[2 + SectorLen]
        BY <2>2, <3>11 DEF ReadGood, g, q
      <4>4. Taken(c) = 10 + SectorLen
        BY <1>0, <2>5, <3>11
      <4>5. \A i \in 1 .. SectorLen : h2[10 + i] = q[i]
        <5> SUFFICES ASSUME NEW i \in 1 .. SectorLen PROVE h2[10 + i] = q[i]
          OBVIOUS
        <5>1. 10 + i \in 1 .. Taken(c)
          BY <1>0, <4>4
        <5> QED
          BY <1>3, <4>3, <5>1
      <4>6. v = c.checksum
        <5>1. CardState(c) = "RecvChecksum"
          BY <1>1, <2>1, <3>11, StateOf
        <5> QED
          BY <5>1 DEF CardAnswer
      <4>7. h2[11 + SectorLen] = d.checksum
        <5>1. 11 + SectorLen = Taken(c) + 1
          BY <1>0, <4>4
        <5> QED
          BY <1>3, <4>2, <4>6, <5>1
      <4> QED
        BY <3>7, <4>2, <4>3, <4>5, <4>7
    <3> QED
      BY <1>1, <2>1, <2>6, <2>9, <3>8, <3>9, <3>10, <3>11 DEF Moves, Stays
  <2> QED
    BY <1>1, <1>5, <2>7, <2>8, <2>9
<1> QED
  BY <1>1, <1>4, <1>5

\* What a write was sent stays known as it goes on.
LEMMA WriteGoesOn ==
  ASSUME NEW c, NEW s, NEW h, CardGood(c, s, h), NEW b \in Bytes, MayTake(c, b),
         NEW d \in CardType, d.command = "Write", InTable(d),
         \/ Stays(c, d, b)
         \/ /\ Moves(c, d, b) /\ (c.idx # 1 => MovesWrite(c, d, b))
            /\ c.idx = 1 => b = 87
  PROVE  WriteGood(d, Append(s, b))
<1> DEFINE s2 == Append(s, b)
<1>0. SectorLen \in Nat \ {0} /\ Bytes \subseteq Byte
  BY SioAssumption DEF SioAssumption, Byte
<1>1. /\ c \in CardType /\ InTable(c) /\ c.idx \in Nat
      /\ d.idx \in Nat /\ d.idx <= 10
  <2>1. d.idx < 11
    BY Sizes DEF InTable
  <2> QED
    BY <2>1 DEF CardGood, Ready, CardType
<1>2. /\ Len(s) = Taken(c) /\ s2 \in Seq(Bytes) /\ Taken(c) \in Nat
      /\ \A i \in 1 .. Taken(c) : s2[i] = s[i]
      /\ s2[Taken(c) + 1] = b
  BY Appended DEF CardGood
<1> SUFFICES WriteGood(d, s2)
  OBVIOUS
<1> HIDE DEF s2
<1>3. CASE c.idx = 0
  <2>1. d.idx = 1
    BY <1>1, <1>3, StateOf DEF Stays, Moves, InSector
  <2> QED
    BY <2>1 DEF WriteGood
<1>4. CASE c.idx = 1
  <2>1. Moves(c, d, b) /\ d.idx = 2 /\ b = 87
    BY <1>1, <1>4, StateOf DEF Stays, Moves, InSector
  <2>2. Taken(c) = 1
    BY <1>1, <1>4 DEF Taken, SectorAt, CardType, Commands
  <2>3. s2[2] = 87
    BY <1>2, <2>1, <2>2
  <2> QED
    BY <2>1, <2>3 DEF WriteGood
<1>5. CASE c.idx >= 2
  <2>1. c.command = "Write" /\ WriteGood(c, s)
    BY <1>1, <1>5 DEF CardGood, Stays, Moves
  <2>2. c.left \in 0 .. SectorLen /\ Gone(c) \in 0 .. SectorLen
    BY <1>0, <1>1 DEF CardType, Gone
  <2>3. Taken(c) = IF c.idx < 6 THEN c.idx ELSE IF c.idx = 6 THEN 6 + Gone(c)
                   ELSE c.idx - 1 + SectorLen
    BY <1>1, <2>1 DEF Taken, SectorAt
  <2>4. Stays(c, d, b) => c.idx = 6
    BY <1>1, <2>1, StateOf DEF Stays, InSector
  <2>5. CASE c.idx \in 2 .. 5
    <3>1. Moves(c, d, b) /\ MovesWrite(c, d, b) /\ d.idx = c.idx + 1
      BY <1>1, <2>1, <2>4, <2>5 DEF Moves
    <3>2. c.idx \in {2, 3, 4} => b = 0
      <4>1. CASE c.idx \in {2, 3}
        BY <3>1, <4>1 DEF MovesWrite
      <4>2. CASE c.idx = 4
        <5>1. CardState(c) = "SendMsb"
          BY <1>1, <2>1, <4>2, StateOf
        <5> QED
          BY <4>2, <5>1 DEF MayTake
      <4> QED
        BY <4>1, <4>2
    <3>3. c.idx = 5 => d.sector = b /\ d.left = SectorLen
      BY <3>1 DEF MovesWrite
    <3>4. \A i \in 1 .. c.idx : s2[i] = s[i]
      BY <1>2, <2>3, <2>5
    <3>5. s2[c.idx + 1] = b
      BY <1>2, <2>3, <2>5
    <3>6. /\ s2[2] = s[2]
          /\ c.idx >= 3 => s2[3] = s[3]
          /\ c.idx >= 4 => s2[4] = s[4]
          /\ c.idx >= 5 => s2[5] = s[5]
      BY <1>1, <1>5, <3>4
    <3>7. c.idx = 5 => Gone(d) = 0
      BY <1>0, <3>3 DEF Gone
    <3> QED
      BY <1>1, <2>1, <2>5, <3>1, <3>2, <3>3, <3>5, <3>6, <3>7 DEF WriteGood
  <2>6. CASE c.idx >= 6
    <3>1. Taken(c) >= 6
      BY <1>0, <1>1, <2>2, <2>3, <2>6
    <3>2. s2[2] = s[2] /\ s2[3] = s[3] /\ s2[4] = s[4] /\ s2[5] = s[5] /\ s2[6] = s[6]
      BY <1>2, <3>1
    <3>3. d.sector = c.sector
      BY <2>1, <2>6 DEF Stays, Moves, MovesWrite
    <3>4. WriteGood(d, s2) <=>
            /\ d.idx = 6 => \A i \in 1 .. Gone(d) : d.buffer[i] = s2[6 + i]
            /\ d.idx >= 7 => \A i \in 1 .. SectorLen : d.buffer[i] = s2[6 + i]
            /\ d.idx >= 8 => s2[7 + SectorLen] \in Data
            /\ d.idx >= 9 => s2[8 + SectorLen] = 0
            /\ d.idx >= 10 => s2[9 + SectorLen] = 0
      BY <1>1, <2>1, <2>6, <3>2, <3>3 DEF WriteGood
    <3>5. CASE c.idx = 6
      <4>1. CardState(c) = "SendSector"
        BY <1>1, <2>1, <3>5, StateOf
      <4>2. c.left \in 1 .. SectorLen
        BY <4>1 DEF CardGood, Ready
      <4>3. Gone(c) + 1 \in 1 .. SectorLen /\ Gone(c) \in Nat
        BY <1>0, <4>2 DEF Gone
      <4>4. d.buffer = [c.buffer EXCEPT ![Gone(c) + 1] = b]
        BY <2>1, <3>5 DEF Stays, MovesWrite
      <4>5. c.buffer \in Sector /\ DOMAIN c.buffer = 1 .. SectorLen
        BY <1>1 DEF CardType, Sector
      <4>6. \A i \in 1 .. Gone(c) : c.buffer[i] = s[6 + i]
        BY <2>1, <3>5 DEF WriteGood
      <4>7. \A i \in 1 .. Gone(c) + 1 : d.buffer[i] = s2[6 + i]
        <5> SUFFICES ASSUME NEW i \in 1 .. Gone(c) + 1 PROVE d.buffer[i] = s2[6 + i]
          OBVIOUS
        <5>1. Taken(c) = 6 + Gone(c)
          BY <2>3, <3>5
        <5>2. CASE i = Gone(c) + 1
          <6>1. 6 + i = Taken(c) + 1
            BY <4>3, <5>1, <5>2
          <6>2. d.buffer[i] = b
            BY <4>3, <4>4, <4>5, <5>2
          <6> QED
            BY <1>2, <6>1, <6>2
        <5>3. CASE i \in 1 .. Gone(c)
          <6>1. 6 + i \in 1 .. Taken(c)
            BY <4>3, <5>1, <5>3
          <6>2. d.buffer[i] = c.buffer[i]
            BY <4>3, <4>4, <4>5, <5>3
          <6> QED
            BY <1>2, <4>6, <5>3, <6>1, <6>2
        <5> QED
          BY <4>3, <5>2, <5>3
      <4>8. CASE Stays(c, d, b)
        <5>1. d.idx = 6 /\ Gone(d) = Gone(c) + 1
          BY <1>0, <2>2, <3>5, <4>8 DEF Stays, Gone
        <5> QED
          BY <3>4, <4>7, <5>1
      <4>9. CASE Moves(c, d, b)
        <5>1. d.idx = 7 /\ Gone(c) + 1 = SectorLen
          BY <1>0, <3>5, <4>1, <4>9 DEF Moves, InSector, Gone
        <5> QED
          BY <3>4, <4>7, <5>1
      <4> QED
        BY <4>8, <4>9
    <3>6. CASE c.idx >= 7
      <4>1. Moves(c, d, b) /\ MovesWrite(c, d, b) /\ d.idx = c.idx + 1 /\ d.buffer = c.buffer
        BY <1>1, <2>1, <2>4, <3>6 DEF Moves, MovesWrite
      <4>2. Taken(c) = c.idx - 1 + SectorLen
        BY <1>1, <2>3, <3>6
      <4>3. \A i \in 1 .. SectorLen : d.buffer[i] = s2[6 + i]
        <5> SUFFICES ASSUME NEW i \in 1 .. SectorLen PROVE d.buffer[i] = s2[6 + i]
          OBVIOUS
        <5>1. 6 + i \in 1 .. Taken(c)
          BY <1>0, <1>1, <3>6, <4>2
        <5> QED
          BY <1>2, <2>1, <3>6, <4>1, <5>1 DEF WriteGood
      <4>4. s2[c.idx + SectorLen] = b
        <5>1. Taken(c) + 1 = c.idx + SectorLen
          BY <1>0, <1>1, <4>2
        <5> QED
          BY <1>2, <5>1
      <4>5. c.idx = 7 => b \in Data
        BY <1>1, <2>1, StateOf DEF MayTake
      <4>6. c.idx \in {8, 9} => b = 0
        BY <4>1 DEF MovesWrite
      <4>7. /\ c.idx >= 8 => s2[7 + SectorLen] = s[7 + SectorLen]
            /\ c.idx >= 9 => s2[8 + SectorLen] = s[8 + SectorLen]
        <5>1. /\ c.idx >= 8 => 7 + SectorLen \in 1 .. Taken(c)
              /\ c.idx >= 9 => 8 + SectorLen \in 1 .. Taken(c)
          BY <1>0, <1>1, <4>2
        <5> QED
          BY <1>2, <5>1
      <4>8. c.idx \in {7, 8, 9}
        BY <1>1, <3>6, <4>1
      <4>9. CASE c.idx = 7
        BY <3>4, <4>1, <4>3, <4>4, <4>5, <4>9
      <4>10. CASE c.idx = 8
        BY <2>1, <3>4, <4>1, <4>3, <4>4, <4>6, <4>7, <4>10 DEF WriteGood
      <4>11. CASE c.idx = 9
        BY <2>1, <3>4, <4>1, <4>3, <4>4, <4>6, <4>7, <4>11 DEF WriteGood
      <4> QED
        BY <4>8, <4>9, <4>10, <4>11
    <3> QED
      BY <1>1, <2>6, <3>5, <3>6
  <2> QED
    BY <1>1, <1>5, <2>5, <2>6
<1> QED
  BY <1>1, <1>3, <1>4, <1>5

\* What a card is to have been sent and answered after it has taken a byte.
Logged(d, q, v) == IF d.idx = 0 THEN <<>> ELSE Append(q, v)

LEMMA CardGoesOn ==
  ASSUME NEW c, NEW s, NEW h, CardGood(c, s, h), NEW b \in Bytes, MayTake(c, b)
  PROVE  LET x == CardByte(c, b) IN
         CardGood(x.dev, Logged(x.dev, s, b), Logged(x.dev, h, x.answer))
<1> DEFINE x == CardByte(c, b)
           d == x.dev
           v == x.answer
           s2 == Logged(d, s, b)
           h2 == Logged(d, h, v)
<1>0. SectorLen \in Nat \ {0} /\ b \in Byte
  BY SioAssumption DEF SioAssumption, Byte
<1>1. Ready(c) /\ c \in CardType /\ c.idx \in Nat /\ c.command \in Commands /\ c.left \in 0 .. SectorLen
  BY DEF CardGood, Ready, CardType
<1>2. d \in CardType /\ InTable(d) /\ (d.idx # 0 => v = CardAnswer(c))
  BY <1>0, <1>1, Passed
<1>3. d.idx # 0 =>
         \/ Stays(c, d, b)
         \/ /\ Moves(c, d, b)
            /\ c.idx # 1 /\ c.command = "Read" => MovesRead(c, d, b)
            /\ c.idx # 1 /\ c.command = "Write" => MovesWrite(c, d, b)
            /\ c.idx = 1 /\ d.command = "Write" => b = 87
            /\ d.command # "GetId" /\ d.idx = SectorAt(d.command) => d.left = SectorLen
  BY <1>0, <1>1, Went
<1>4. d.idx # 0 => v \in Byte
  BY <1>1, <1>2, Answered
<1> HIDE DEF d, v
<1>5. CASE d.idx = 0
  <2>1. s2 = <<>> /\ h2 = <<>>
    BY <1>5 DEF Logged
  <2>2. Ready(d)
    BY <1>2, <1>5, StateOf DEF Ready
  <2>3. Taken(d) = 0
    BY <1>2, <1>5 DEF Taken, SectorAt, CardType, Commands
  <2>4. ReadGood(d, <<>>, <<>>) /\ WriteGood(d, <<>>)
    BY <1>5 DEF ReadGood, WriteGood
  <2>5. <<>> \in Seq(Bytes) /\ <<>> \in Seq(Byte) /\ Len(<<>>) = 0
    OBVIOUS
  <2>6. CardGood(d, <<>>, <<>>)
    BY <1>5, <2>2, <2>3, <2>4, <2>5 DEF CardGood
  <2> QED
    BY <2>1, <2>6 DEF d, v
<1>6. CASE d.idx # 0
  <2>1. s2 = Append(s, b) /\ h2 = Append(h, v)
    BY <1>6 DEF Logged
  <2>2. d.idx \in Nat /\ d.idx >= 1 /\ d.command \in Commands
    BY <1>2, <1>6 DEF CardType
  <2>3. Taken(d) = Taken(c) + 1
    <3>1. CASE Stays(c, d, b)
      <4>1. c.idx = SectorAt(c.command)
        BY <1>1, <3>1, StateOf DEF Stays, InSector, Ready, SectorAt
      <4> QED
        BY <1>0, <1>1, <3>1, <4>1 DEF Taken, Stays, Gone
    <3>2. CASE ~ Stays(c, d, b)
      <4>1. Moves(c, d, b) /\ d.idx = c.idx + 1
        BY <1>3, <1>6, <3>2 DEF Moves
      <4>2. SectorAt(d.command) \in {6, 10, 13} /\ SectorAt(c.command) \in {6, 10, 13}
        BY <1>1, <2>2 DEF SectorAt, Commands
      <4>3. c.idx # 1 => d.command = c.command
        BY <4>1 DEF Moves
      <4>4. c.idx = SectorAt(c.command) /\ c.command # "GetId" => c.left = 1
        <5> SUFFICES ASSUME c.idx = SectorAt(c.command), c.command # "GetId" PROVE c.left = 1
          OBVIOUS
        <5>1. InSector(c)
          BY <1>1, StateOf DEF SectorAt, Commands, InSector, Ready
        <5> QED
          BY <4>1, <5>1 DEF Moves
      <4>5. c.command = "GetId" => c.idx < 10
        BY <1>1, Sizes DEF Ready, InTable
      <4>6. SectorAt("GetId") = 13
        BY DEF SectorAt
      <4>7. d.command = "GetId" => d.idx < 10
        BY <1>2, Sizes DEF InTable
      <4>8. d.idx = SectorAt(d.command) => d.left = SectorLen
        BY <1>3, <1>6, <3>2, <4>6, <4>7, <2>2
      <4>9. CASE c.idx < SectorAt(c.command)
        <5>1. Taken(c) = c.idx
          BY <4>9 DEF Taken
        <5>2. d.idx <= SectorAt(d.command)
          BY <1>1, <4>1, <4>2, <4>3, <4>9
        <5>3. d.idx = SectorAt(d.command) => Gone(d) = 0
          BY <1>0, <4>8 DEF Gone
        <5> QED
          BY <1>1, <2>2, <4>1, <4>2, <5>1, <5>2, <5>3 DEF Taken
      <4>10. CASE c.idx = SectorAt(c.command)
        <5>1. c.left = 1 /\ d.command = c.command
          BY <4>2, <4>3, <4>4, <4>5, <4>6, <4>10
        <5>2. Taken(c) = c.idx + (SectorLen - 1) /\ Taken(d) = d.idx - 1 + SectorLen
          BY <1>0, <1>1, <4>1, <4>10, <5>1 DEF Taken, Gone
        <5> QED
          BY <1>0, <1>1, <4>1, <5>2
      <4>11. CASE c.idx > SectorAt(c.command)
        <5>1. d.command = c.command
          BY <4>2, <4>3, <4>11
        <5>2. Taken(c) = c.idx - 1 + SectorLen /\ Taken(d) = d.idx - 1 + SectorLen
          BY <1>1, <4>1, <4>2, <4>11, <5>1 DEF Taken
        <5> QED
          BY <1>0, <1>1, <4>1, <5>2
      <4> QED
        BY <1>1, <4>2, <4>9, <4>10, <4>11
    <3> QED
      BY <3>1, <3>2
  <2>4. /\ s \in Seq(Bytes) /\ Len(s) = Taken(c) /\ h \in Seq(Byte) /\ Len(h) = Taken(c)
        /\ c.idx >= 1 => s[1] = 129
    BY DEF CardGood
  <2>5. s2 \in Seq(Bytes) /\ Len(s2) = Taken(d) /\ h2 \in Seq(Byte) /\ Len(h2) = Taken(d)
    <3>1. Append(s, b) \in Seq(Bytes) /\ Len(Append(s, b)) = Len(s) + 1
      BY <2>4, Appended
    <3>2. Append(h, v) \in Seq(Byte) /\ Len(Append(h, v)) = Len(h) + 1
      BY <1>4, <1>6, <2>4, Appended
    <3> HIDE DEF s2, h2
    <3> QED
      BY <2>1, <2>3, <2>4, <3>1, <3>2
  <2>6. s2[1] = 129
    <3>1. /\ \A i \in 1 .. Len(s) : Append(s, b)[i] = s[i]
          /\ Append(s, b)[Len(s) + 1] = b
      BY <2>4, Appended
    <3>2. CASE c.idx = 0
      <4>1. Taken(c) = 0
        BY <1>1, <3>2 DEF Taken, SectorAt, Commands
      <4>2. Moves(c, d, b) /\ b = 129
        BY <1>1, <1>3, <1>6, <3>2, StateOf DEF Moves, Stays
      <4>3. Len(s) + 1 = 1
        BY <2>4, <4>1
      <4> QED
        BY <2>1, <3>1, <4>2, <4>3
    <3>3. CASE c.idx # 0
      <4>1. Taken(c) \in Nat /\ Taken(c) >= 1
        <5>1. SectorAt(c.command) \in {6, 10, 13} /\ Gone(c) \in Nat
          BY <1>0, <1>1 DEF SectorAt, Commands, Gone
        <5> QED
          BY <1>0, <1>1, <3>3, <5>1 DEF Taken
      <4>2. 1 \in 1 .. Len(s)
        BY <2>4, <4>1
      <4> QED
        BY <1>1, <2>1, <2>4, <3>1, <3>3, <4>2
    <3> QED
      BY <3>2, <3>3
  <2>7. Ready(d)
    <3>1. CardState(d) \in {"RecvSector", "SendSector"} => d.left \in 1 .. SectorLen
      <4>1. CASE Stays(c, d, b)
        BY <1>0, <1>1, <4>1 DEF Stays
      <4>2. CASE ~ Stays(c, d, b)
        <5>1. CardState(d) \in {"RecvSector", "SendSector"} =>
                 d.command # "GetId" /\ d.idx = SectorAt(d.command)
          BY <1>2, StateOf DEF SectorAt
        <5> QED
          BY <1>0, <1>3, <1>6, <4>2, <5>1
      <4> QED
        BY <4>1, <4>2
    <3>2. d.command # "GetId" /\ d.idx >= 6 => d.sector \in Sectors
      <4> SUFFICES ASSUME d.command # "GetId", d.idx >= 6 PROVE d.sector \in Sectors
        OBVIOUS
      <4>1. CASE Stays(c, d, b)
        BY <1>1, <4>1 DEF Stays, Ready
      <4>2. CASE ~ Stays(c, d, b)
        <5>1. Moves(c, d, b) /\ c.idx >= 5 /\ c.command = d.command
          BY <1>1, <1>3, <1>6, <4>2 DEF Moves
        <5>2. \/ c.command = "Read" /\ MovesRead(c, d, b)
              \/ c.command = "Write" /\ MovesWrite(c, d, b)
          BY <1>1, <1>3, <1>6, <4>2, <5>1 DEF Commands
        <5>3. c.idx = 5 => d.sector = b /\ b \in Sectors
          BY <1>1, <5>1, <5>2, StateOf DEF MovesRead, MovesWrite, MayTake, Ready
        <5>4. c.idx # 5 => d.sector = c.sector /\ c.idx >= 6
          BY <1>1, <5>1, <5>2 DEF MovesRead, MovesWrite
        <5> QED
          BY <1>1, <5>1, <5>3, <5>4 DEF Ready
      <4> QED
        BY <4>1, <4>2
    <3> QED
      BY <1>2, <3>1, <3>2 DEF Ready
  <2>8. d.command = "Read" => ReadGood(d, s2, h2)
    <3> SUFFICES ASSUME d.command = "Read" PROVE ReadGood(d, s2, h2)
      OBVIOUS
    <3>1. \/ Stays(c, d, b)
          \/ Moves(c, d, b) /\ (c.idx # 1 => MovesRead(c, d, b))
      BY <1>3, <1>6 DEF Moves
    <3>2. ReadGood(d, Append(s, b), Append(h, v))
      BY <1>2, <1>4, <1>6, <3>1, ReadGoesOn
    <3> QED
      BY <2>1, <3>2
  <2>9. d.command = "Write" => WriteGood(d, s2)
    <3> SUFFICES ASSUME d.command = "Write" PROVE WriteGood(d, s2)
      OBVIOUS
    <3>1. \/ Stays(c, d, b)
          \/ /\ Moves(c, d, b) /\ (c.idx # 1 => MovesWrite(c, d, b))
             /\ c.idx = 1 => b = 87
      BY <1>3, <1>6 DEF Moves
    <3>2. WriteGood(d, Append(s, b))
      BY <1>2, <3>1, WriteGoesOn
    <3> QED
      BY <2>1, <3>2
  <2>10. CardGood(d, s2, h2)
    <3> HIDE DEF s2, h2
    <3> QED
      BY <2>5, <2>6, <2>7, <2>8, <2>9 DEF CardGood
  <2> QED
    BY <2>10 DEF d, v
<1> QED
  BY <1>5, <1>6

\* What a whole write of a sector consists of.
LEMMA Joined ==
  ASSUME NEW S, NEW p \in Seq(S), NEW q \in Seq(S)
  PROVE  /\ p \o q \in Seq(S) /\ Len(p \o q) = Len(p) + Len(q) /\ Len(p) \in Nat /\ Len(q) \in Nat
         /\ \A i \in 1 .. Len(p) : (p \o q)[i] = p[i]
         /\ \A i \in 1 .. Len(q) : (p \o q)[Len(p) + i] = q[i]
<1>1. Len(p) \in Nat /\ Len(q) \in Nat
  BY LenProperties
<1>2. /\ p \o q \in Seq(S)
      /\ Len(p \o q) = Len(p) + Len(q)
      /\ \A i \in 1 .. Len(p) + Len(q) : (p \o q)[i] =
                     IF i <= Len(p) THEN p[i] ELSE q[i - Len(p)]
  BY ConcatProperties
<1> DEFINE r == p \o q
           m == Len(p)
           n == Len(q)
<1> HIDE DEF r, m, n
<1>3. /\ m \in Nat /\ n \in Nat
      /\ \A i \in 1 .. m + n : r[i] = IF i <= m THEN p[i] ELSE q[i - m]
  BY <1>1, <1>2 DEF r, m, n
<1>4. \A i \in 1 .. m : r[i] = p[i]
  BY <1>3
<1>5. ASSUME NEW i \in 1 .. n PROVE r[m + i] = q[i]
  <2>1. m + i \in 1 .. m + n /\ ~ (m + i <= m) /\ (m + i) - m = i
    BY <1>3
  <2> QED
    BY <1>3, <2>1
<1> QED
  BY <1>1, <1>2, <1>4, <1>5 DEF r, m, n

WholeWrite(s, n, k, B) == s = <<129, 87, 0, 0, 0, k>> \o B \o <<s[7 + n], 0, 0>>

LEMMA WholeIs ==
  ASSUME NEW s \in Seq(Byte), NEW n \in Nat, Len(s) = 9 + n,
         NEW B \in [1 .. n -> Byte], NEW k \in Byte,
         s[1] = 129, s[2] = 87, s[3] = 0, s[4] = 0, s[5] = 0, s[6] = k,
         \A i \in 1 .. n : B[i] = s[6 + i],
         s[8 + n] = 0, s[9 + n] = 0
  PROVE  WholeWrite(s, n, k, B)
<1> DEFINE A == <<129, 87, 0, 0, 0, k>>
           C == <<s[7 + n], 0, 0>>
           AB == A \o B
           ABC == AB \o C
<1>1. A \in Seq(Byte) /\ Len(A) = 6 /\ A[1] = 129 /\ A[2] = 87 /\ A[3] = 0 /\ A[4] = 0
      /\ A[5] = 0 /\ A[6] = k
  <2>1. 129 \in Byte /\ 87 \in Byte /\ 0 \in Byte
    BY DEF Byte
  <2> QED
    BY <2>1
<1>2. C \in Seq(Byte) /\ Len(C) = 3 /\ C[1] = s[7 + n] /\ C[2] = 0 /\ C[3] = 0
  <2> DEFINE sum == s[7 + n]
  <2>1. sum \in Byte
    <3>1. 7 + n \in 1 .. Len(s)
      OBVIOUS
    <3> QED
      BY <3>1, ElementOfSeq, Zenon
  <2>3. 0 \in Byte
    BY DEF Byte
  <2> HIDE DEF sum
  <2>2. <<sum, 0, 0>> \in Seq(Byte) /\ Len(<<sum, 0, 0>>) = 3 /\ <<sum, 0, 0>>[1] = sum
        /\ <<sum, 0, 0>>[2] = 0 /\ <<sum, 0, 0>>[3] = 0
    BY <2>1, <2>3
  <2> QED
    BY <2>2 DEF sum
<1>3. B \in Seq(Byte) /\ Len(B) = n
  OBVIOUS
<1> HIDE DEF A, C, AB, ABC
<1>4. /\ AB \in Seq(Byte) /\ Len(AB) = 6 + n
      /\ \A i \in 1 .. 6 : AB[i] = A[i]
      /\ \A i \in 1 .. n : AB[6 + i] = B[i]
  <2>1. /\ AB \in Seq(Byte) /\ Len(AB) = Len(A) + Len(B)
        /\ \A i \in 1 .. Len(A) : AB[i] = A[i]
        /\ \A i \in 1 .. Len(B) : AB[Len(A) + i] = B[i]
    <3>1. A \in Seq(Byte) /\ B \in Seq(Byte)
      BY <1>1, <1>3
    <3> QED
      BY ONLY <3>1, Joined DEF AB
  <2> QED
    BY <1>1, <1>3, <2>1
<1>5. /\ ABC \in Seq(Byte) /\ Len(ABC) = (6 + n) + 3
      /\ \A i \in 1 .. 6 + n : ABC[i] = AB[i]
      /\ \A i \in 1 .. 3 : ABC[(6 + n) + i] = C[i]
  <2>1. /\ ABC \in Seq(Byte) /\ Len(ABC) = Len(AB) + Len(C)
        /\ \A i \in 1 .. Len(AB) : ABC[i] = AB[i]
        /\ \A i \in 1 .. Len(C) : ABC[Len(AB) + i] = C[i]
    <3>1. AB \in Seq(Byte) /\ C \in Seq(Byte)
      BY <1>2, <1>4
    <3> QED
      BY ONLY <3>1, Joined DEF ABC
  <2> QED
    BY <1>2, <1>4, <2>1
<1>6. ASSUME NEW i \in 1 .. 9 + n PROVE s[i] = ABC[i]
  <2>1. CASE i <= 6
    <3>1. i = 1 \/ i = 2 \/ i = 3 \/ i = 4 \/ i = 5 \/ i = 6
      BY <2>1
    <3>2. i \in 1 .. 6 /\ i \in 1 .. 6 + n
      BY <2>1
    <3>3. ABC[i] = AB[i] /\ AB[i] = A[i]
      BY <1>4, <1>5, <3>2
    <3> QED
      BY <1>1, <3>1, <3>3
  <2>2. CASE i > 6 /\ i <= 6 + n
    <3> DEFINE j == i - 6
    <3>1. j \in 1 .. n /\ 6 + j = i /\ i \in 1 .. 6 + n
      BY <2>2
    <3>2. ABC[i] = AB[i] /\ AB[6 + j] = B[j] /\ B[j] = s[6 + j]
      BY <1>4, <1>5, <3>1
    <3> QED
      BY <3>1, <3>2
  <2>3. CASE i > 6 + n
    <3>1. ABC[(6 + n) + 1] = s[7 + n] /\ ABC[(6 + n) + 2] = 0 /\ ABC[(6 + n) + 3] = 0
      BY <1>2, <1>5
    <3>2. \/ i = 7 + n /\ i = (6 + n) + 1
          \/ i = 8 + n /\ i = (6 + n) + 2
          \/ i = 9 + n /\ i = (6 + n) + 3
      BY <2>3
    <3> QED
      BY <3>1, <3>2
  <2> QED
    BY <2>1, <2>2, <2>3
<1>7. Len(ABC) = 9 + n
  BY <1>5
<1>8. s = ABC
  BY <1>5, <1>6, <1>7, SeqEqual
<1> QED
  BY <1>8 DEF WholeWrite, A, C, AB, ABC

\* A card's data change at the end of a write of a sector, to what was sent.
Wrote(c, s, d) ==
    d.data # c.data =>
        /\ c.idx # 0
        /\ \E k \in Sectors : /\ IsWrite(s, k, d.data[k])
                             /\ \A j \in Sectors \ {k} : d.data[j] = c.data[j]

LEMMA CardWrote ==
  ASSUME NEW c, NEW s, NEW h, CardGood(c, s, h), NEW b \in Bytes
  PROVE  Wrote(c, s, CardByte(c, b).dev)
<1> DEFINE t == Take(c, b)
           d == CardByte(c, b).dev
           k == c.sector
<1>0. SectorLen \in Nat \ {0} /\ b \in Byte /\ Bytes \subseteq Byte /\ Data \subseteq Bytes
  BY SioAssumption DEF SioAssumption, Byte
<1>1. Ready(c) /\ c \in CardType
  BY DEF CardGood, Ready
<1>2. d.data = t.data
  BY <1>0, <1>1, Passed
<1> SUFFICES ASSUME d.data # c.data
             PROVE  /\ c.idx # 0
                    /\ \E m \in Sectors : /\ IsWrite(s, m, d.data[m])
                                         /\ \A j \in Sectors \ {m} : d.data[j] = c.data[j]
  BY DEF Wrote
<1> HIDE DEF t, d
<1>3. CardState(c) = "MemEnd" /\ c.command = "Write"
  BY <1>0, <1>1, <1>2, Taken1 DEF t
<1>4. c.idx = 10 /\ k \in Sectors
  BY <1>1, <1>3, StateOf DEF Ready
<1>5. d.data = [c.data EXCEPT ![k] = c.buffer]
  BY <1>0, <1>1, <1>2, <1>3, Taken2 DEF t
<1>6. d.data[k] = c.buffer /\ \A j \in Sectors \ {k} : d.data[j] = c.data[j]
  BY <1>1, <1>4, <1>5 DEF CardType
<1>7. WriteGood(c, s) /\ s \in Seq(Bytes) /\ Len(s) = 9 + SectorLen /\ s[1] = 129
  <2>1. Taken(c) = 9 + SectorLen
    BY <1>0, <1>3, <1>4 DEF Taken, SectorAt
  <2> QED
    BY <1>3, <1>4, <2>1 DEF CardGood
<1>8. s[7 + SectorLen] \in Data
  BY <1>4, <1>7 DEF WriteGood
<1>13. s = <<129, 87, 0, 0, 0, k>> \o c.buffer \o <<s[7 + SectorLen], 0, 0>>
  <2>1. c.buffer \in [1 .. SectorLen -> Byte]
    BY <1>1 DEF CardType, Sector
  <2>2. s \in Seq(Byte)
    BY <1>0, <1>7
  <2>3. k \in Byte
    BY <1>1 DEF CardType
  <2>4. /\ s[2] = 87 /\ s[3] = 0 /\ s[4] = 0 /\ s[5] = 0 /\ s[6] = k
        /\ \A i \in 1 .. SectorLen : c.buffer[i] = s[6 + i]
        /\ s[8 + SectorLen] = 0 /\ s[9 + SectorLen] = 0
    BY <1>4, <1>7 DEF WriteGood
  <2>5. s[1] = 129 /\ Len(s) = 9 + SectorLen /\ SectorLen \in Nat
    BY <1>0, <1>7
  <2> QED
    <3> DEFINE B == c.buffer
    <3> HIDE DEF B, k
    <3>1. /\ B \in [1 .. SectorLen -> Byte]
          /\ \A i \in 1 .. SectorLen : B[i] = s[6 + i]
      BY <2>1, <2>4 DEF B
    <3>2. WholeWrite(s, SectorLen, k, B)
      BY <3>1, <2>2, <2>3, <2>4, <2>5, WholeIs
    <3> QED
      BY <3>2, Zenon DEF B, WholeWrite
<1>14. IsWrite(s, k, d.data[k])
  BY <1>6, <1>8, <1>13 DEF IsWrite
<1> QED
  BY <1>4, <1>6, <1>14

LEMMA CardStarts ==
  ASSUME NEW d \in CardType, d.idx = 0
  PROVE  CardGood(d, <<>>, <<>>)
<1>1. d.command \in Commands
  BY DEF CardType
<1>2. InTable(d)
  BY <1>1, Sizes DEF InTable
<1>3. Ready(d)
  BY <1>1, <1>2, StateOf DEF Ready
<1>4. Taken(d) = 0
  BY <1>1 DEF Taken, SectorAt, Commands
<1>5. ReadGood(d, <<>>, <<>>) /\ WriteGood(d, <<>>)
  BY <1>1 DEF ReadGood, WriteGood
<1>6. <<>> \in Seq(Bytes) /\ <<>> \in Seq(Byte) /\ Len(<<>>) = 0
  OBVIOUS
<1> QED
  BY <1>3, <1>4, <1>5, <1>6 DEF CardGood

LEMMA CardReseted ==
  ASSUME NEW c \in CardType
  PROVE  /\ CardGood(CardReset(c), <<>>, <<>>)
         /\ CardReset(c).idx = 0 /\ CardReset(c).data = c.data
<1> DEFINE d == CardReset(c)
<1>1. d \in CardType /\ d.idx = 0 /\ d.data = c.data
  BY DEF CardReset, CardType
<1> HIDE DEF d
<1>2. CardGood(d, <<>>, <<>>)
  BY <1>1, CardStarts
<1> QED
  BY <1>1, <1>2 DEF d

\* At rest a card takes anything, and acknowledges its own number.
LEMMA CardAtRest ==
  ASSUME NEW c, Ready(c), c.idx = 0, NEW b \in Byte
  PROVE  MayTake(c, b) /\ (b = 129 => CardByte(c, b).dev.ack)
<1>1. c \in CardType /\ InTable(c) /\ c.command \in Commands
  BY DEF Ready, CardType
<1>2. CardState(c) = "Init"
  BY <1>1, StateOf
<1>3. MayTake(c, b)
  BY <1>2 DEF MayTake
<1>4. ASSUME b = 129 PROVE CardByte(c, b).dev.ack
  <2> DEFINE t == Take(c, b)
             n == (t.idx + 1) % Len(CardTable(NextCommand(t, b)))
             on == [t EXCEPT !.command = NextCommand(t, b), !.idx = n, !.ack = n # 0]
             e == CardTable(NextCommand(t, b))[n + 1]
  <2>1. t = c
    BY <1>2 DEF Take
  <2>2. CardByte(c, b).dev = Advance(t, b)
    <3>1. CardByte(c, b) = [dev |-> Advance(t, b),
                            answer |-> IF Advance(t, b).idx = 0 /\ CardState(c) \notin {"MemEnd", "Recv80h"}
                                       THEN HiZ ELSE CardAnswer(c)]
      BY <1>2 DEF CardByte
    <3> QED
      BY <3>1
  <2>3. NextCommand(t, b) = c.command
    BY <1>2, <2>1 DEF NextCommand
  <2>4. n = 1
    <3>1. n = 1 % Size(c.command)
      BY <2>1, <2>3 DEF Size
    <3>2. Size(c.command) \in Nat /\ 10 <= Size(c.command)
      BY <1>1, Sizes
    <3> HIDE DEF n
    <3> QED
      BY <3>1, <3>2
  <2>5. e = Entry("Flag", 129)
    <3>1. \A k \in Commands : CardTable(k)[1 + 1] = Entry("Flag", 129)
      BY ReadTable, WriteTable, IdTable DEF Commands
    <3> HIDE DEF n
    <3> QED
      BY <1>1, <2>3, <2>4, <3>1
  <2>6. Advance(t, b) = IF e.check \in {Free, b}
          THEN CASE e.state = "RecvSector" ->
                      [on EXCEPT !.buffer = on.data[on.sector], !.left = SectorLen]
                 [] e.state = "SendSector" -> [on EXCEPT !.left = SectorLen]
                 [] OTHER -> on
          ELSE CardReset(on)
    BY DEF Advance
  <2>7. on.ack
    <3>1. t \in CardType /\ (n # 0) = TRUE
      BY <1>1, <2>1, <2>4
    <3> DEFINE k == NextCommand(t, b)
               m == n
               a == m # 0
    <3>2. on = [t EXCEPT !.command = k, !.idx = m, !.ack = a] /\ a = TRUE
      BY <3>1
    <3> HIDE DEF n, on, t, k, m, a
    <3> QED
      BY <3>1, <3>2 DEF CardType
  <2> HIDE DEF e, on
  <2>8. Advance(t, b) = on
    BY <1>4, <2>5, <2>6 DEF Entry
  <2> QED
    BY <2>2, <2>7, <2>8
<1> QED
  BY <1>3, <1>4

PadType == [idx : Nat, mode : {"Digital", "Analog"}, ack : BOOLEAN]

LEMMA PadGoesOn ==
  ASSUME NEW d \in PadType, NEW b \in Byte
  PROVE  LET x == PadByte(d, b) IN
         /\ x.dev \in PadType /\ x.answer \in Int
         /\ d.idx = 0 /\ b = 1 => x.dev.ack
<1> DEFINE len == Len(PadTable(d.mode))
           n == (d.idx + 1) % len
           c == PadTable(d.mode)[n + 1]
           on == [d EXCEPT !.idx = n, !.ack = n # 0]
           x == PadByte(d, b)
<1>1. len \in {5, 9} /\ PadTable(d.mode)[2] = 1
  <2>1. d.mode \in {"Digital", "Analog"}
    BY DEF PadType
  <2> QED
    BY <2>1 DEF PadTable
<1>2. n \in Nat /\ (d.idx = 0 => n = 1)
  <2>1. d.idx \in Nat
    BY DEF PadType
  <2> HIDE DEF len
  <2> QED
    BY <1>1, <2>1
<1>3. x = IF c \in {Free, b} THEN [dev |-> on, answer |-> IF d.idx = 0 THEN HiZ ELSE 256 + d.idx]
          ELSE [dev |-> PadReset(d), answer |-> HiZ]
  BY DEF PadByte
<1>4. d.idx = 0 /\ b = 1 => c \in {Free, b}
  <2> HIDE DEF n
  <2> QED
    BY <1>1, <1>2
<1> HIDE DEF n, c, x
<1>5. on \in PadType /\ on.ack = (n # 0)
  BY <1>2 DEF PadType
<1>6. PadReset(d) \in PadType
  BY DEF PadReset, PadType
<1>7. HiZ \in Int /\ 256 + d.idx \in Int
  BY DEF HiZ, PadType
<1> HIDE DEF on
<1>8. CASE c \in {Free, b}
  <2>1. x.dev = on /\ x.answer \in Int
    BY <1>3, <1>7, <1>8
  <2>2. d.idx = 0 /\ b = 1 => x.dev.ack
    <3>1. d.idx = 0 => (n # 0) = TRUE
      BY <1>2
    <3>2. d.idx = 0 => on.ack
      BY <1>5, <3>1
    <3> QED
      BY <2>1, <3>2
  <2> QED
    BY <1>5, <2>1, <2>2, Zenon DEF x
<1>9. CASE c \notin {Free, b}
  <2>1. x.dev = PadReset(d) /\ x.answer \in Int
    BY <1>3, <1>7, <1>9
  <2> QED
    BY <1>4, <1>6, <1>9, <2>1 DEF x
<1> QED
  BY <1>8, <1>9

-----------------------------------------------------------------------------
(* The port.                                                               *)

Kinds == {"None", "GamepadComm", "MemcardComm"}
State ==
    [ control : ControlBits,
      status : [rx_ready : BOOLEAN, dsr : BOOLEAN, irq : BOOLEAN],
      transfer : Bytes \cup {None}, received : Seq(Int), comm : Kinds,
      pad : [Ports -> PadType], card : [Ports -> CardType], sends : Int, offs : Int,
      sent : [Ports -> Seq(Bytes)], heard : [Ports -> Seq(Byte)],
      fresh : BOOLEAN, missed : {0, 1} ]

CardsGood(s) == \A p \in Ports : CardGood(s.card[p], s.sent[p], s.heard[p])
\* A byte that waits is one every card may take ...
Held(s) == s.transfer # None => \A p \in Ports : MayTake(s.card[p], s.transfer)
\* ... and after a lost one the port listens to no device.
Missing(s) ==
    /\ s.missed = 1 => s.comm = "None"
    /\ s.fresh => \A p \in Ports : s.pad[p].idx = 0 /\ s.card[p].idx = 0
Good(s) == s \in State /\ CardsGood(s) /\ Held(s) /\ Missing(s)

AllWrote(s, t) == \A p \in Ports : Wrote(s.card[p], s.sent[p], t.card[p])

LEMMA Numbers ==
  /\ Bytes \subseteq Byte /\ None \notin Bytes /\ 0 \in Ports
  /\ FifoLen \in Nat \ {0}
<1>1. Bytes \subseteq 0 .. 255 /\ 0 \in Ports /\ FifoLen \in Nat \ {0}
  BY SioAssumption DEF SioAssumption
<1> QED
  BY <1>1 DEF Byte, None

\* What the exchange of one byte does.
LEMMA Exchanged ==
  ASSUME NEW s \in State, CardsGood(s), NEW b \in Bytes,
         \A p \in Ports : MayTake(s.card[p], b)
  PROVE  LET y == Exchange(s, b)
             t == y.state
         IN /\ t \in State /\ y.answer \in Int /\ y.ack \in BOOLEAN
            /\ CardsGood(t) /\ AllWrote(s, t)
            /\ t.control = s.control /\ t.status = s.status /\ t.transfer = s.transfer
            /\ t.received = s.received /\ t.sends = s.sends /\ t.offs = s.offs
            /\ t.fresh = s.fresh /\ t.missed = s.missed
            /\ ~ y.ack => t.comm = "None"
            /\ /\ s.comm = "None" /\ b \in {1, 129}
               /\ \A p \in Ports : s.pad[p].idx = 0 /\ s.card[p].idx = 0
               => y.ack
<1> DEFINE p  == s.control.port
           to == Addressed(s, b)
           x  == Answer(s, b)
           y  == Exchange(s, b)
           t  == y.state
           k  == IF x.dev.ack THEN to ELSE "None"
<1>1. p \in Ports /\ s.comm \in Kinds /\ s.pad[p] \in PadType /\ s.card[p] \in CardType
      /\ b \in Byte
  <2>1. s.control \in ControlBits
    BY DEF State
  <2>2. p \in Ports
    BY <2>1 DEF ControlBits
  <2> HIDE DEF p
  <2> QED
    BY <2>2, Numbers DEF State
<1>2. to \in Kinds /\ (s.comm = "None" /\ b = 1 => to = "GamepadComm")
      /\ (s.comm = "None" /\ b = 129 => to = "MemcardComm")
      /\ (s.comm = "None" /\ to # "None" => b \in {1, 129})
  BY <1>1 DEF Addressed, Kinds
<1>3. CASE to = "GamepadComm"
  <2>1. x = PadByte(s.pad[p], b)
    BY <1>3 DEF Answer
  <2>2. x.dev \in PadType /\ x.answer \in Int /\ (s.pad[p].idx = 0 /\ b = 1 => x.dev.ack)
    BY <1>1, <2>1, PadGoesOn
  <2>3. y = [ state |-> [[s EXCEPT !.pad[p] = x.dev] EXCEPT !.comm = k],
              answer |-> x.answer, ack |-> x.dev.ack ]
    BY <1>3 DEF Exchange
  <2> HIDE DEF x, y, to
  <2>4. k \in Kinds /\ (~ x.dev.ack => k = "None") /\ x.dev.ack \in BOOLEAN
    BY <1>2, <2>2 DEF Kinds, PadType
  <2> HIDE DEF k, p
  <2>5. y.answer = x.answer /\ y.ack = x.dev.ack
        /\ t = [s EXCEPT !.pad = [s.pad EXCEPT ![p] = x.dev], !.comm = k]
    BY <2>3 DEF State
  <2> DEFINE pads == [s.pad EXCEPT ![p] = x.dev]
  <2>6. pads \in [Ports -> PadType]
    BY <1>1, <2>2 DEF State
  <2> HIDE DEF pads, t
  <2>7. /\ t \in State /\ t.card = s.card /\ t.sent = s.sent /\ t.heard = s.heard /\ t.comm = k
        /\ t.control = s.control /\ t.status = s.status /\ t.transfer = s.transfer
        /\ t.received = s.received /\ t.sends = s.sends /\ t.offs = s.offs
        /\ t.fresh = s.fresh /\ t.missed = s.missed
    <3>1. t = [s EXCEPT !.pad = pads, !.comm = k]
      BY <2>5 DEF pads
    <3> QED
      BY <2>4, <2>6, <3>1 DEF State
  <2>8. CardsGood(t) /\ AllWrote(s, t)
    BY <2>7 DEF CardsGood, AllWrote, Wrote
  <2>9. s.comm = "None" /\ (\A q \in Ports : s.pad[q].idx = 0 /\ s.card[q].idx = 0)
        /\ b \in {1, 129} => y.ack
    <3>1. s.comm = "None" /\ b \in {1, 129} => b = 1
      BY <1>2, <1>3
    <3> QED
      BY <1>1, <2>2, <2>5, <3>1
  <2> QED
    BY <2>2, <2>4, <2>5, <2>7, <2>8, <2>9 DEF t, y
<1>4. CASE to = "MemcardComm"
  <2> DEFINE c == s.card[p]
             sent2 == Logged(x.dev, s.sent[p], b)
             heard2 == Logged(x.dev, s.heard[p], x.answer)
  <2>1. x = CardByte(c, b)
    BY <1>4 DEF Answer
  <2>2. CardGood(c, s.sent[p], s.heard[p]) /\ MayTake(c, b) /\ Ready(c)
    BY <1>1 DEF CardsGood, CardGood
  <2> HIDE DEF p, c, x
  <2>3. CardGood(x.dev, sent2, heard2) /\ Wrote(c, s.sent[p], x.dev)
    BY <2>1, <2>2, CardGoesOn, CardWrote
  <2>4. x.answer \in Byte /\ (c.idx = 0 /\ b = 129 => x.dev.ack)
    <3>1. x.answer \in {HiZ, CardAnswer(c)}
      BY <1>1, <2>1, <2>2, Passed
    <3>2. HiZ \in Byte
      BY DEF HiZ, Byte
    <3> QED
      BY <1>1, <2>1, <2>2, <3>1, <3>2, Answered, CardAtRest
  <2>5. x.dev \in CardType /\ sent2 \in Seq(Bytes) /\ heard2 \in Seq(Byte)
    BY <2>3 DEF CardGood, Ready
  <2>6. y = [ state |-> [[s EXCEPT !.card[p] = x.dev, !.sent[p] = sent2, !.heard[p] = heard2]
                            EXCEPT !.comm = k],
              answer |-> x.answer, ack |-> x.dev.ack ]
    BY <1>4, <1>1 DEF Exchange, Logged, p, x, State
  <2> HIDE DEF y, to, sent2, heard2
  <2>7. k \in Kinds /\ (~ x.dev.ack => k = "None") /\ x.dev.ack \in BOOLEAN
    BY <1>2, <2>5 DEF Kinds, CardType
  <2> HIDE DEF k
  <2> DEFINE cards == [s.card EXCEPT ![p] = x.dev]
             sents == [s.sent EXCEPT ![p] = sent2]
             heards == [s.heard EXCEPT ![p] = heard2]
  <2>8. y.answer = x.answer /\ y.ack = x.dev.ack
        /\ t = [s EXCEPT !.card = cards, !.sent = sents, !.heard = heards, !.comm = k]
    BY <2>6 DEF State
  <2>9. /\ cards \in [Ports -> CardType] /\ cards[p] = x.dev
        /\ sents \in [Ports -> Seq(Bytes)] /\ sents[p] = sent2
        /\ heards \in [Ports -> Seq(Byte)] /\ heards[p] = heard2
        /\ \A q \in Ports \ {p} : cards[q] = s.card[q] /\ sents[q] = s.sent[q] /\ heards[q] = s.heard[q]
    BY <1>1, <2>5 DEF State
  <2> HIDE DEF cards, sents, heards, t
  <2>10. /\ t \in State /\ t.card = cards /\ t.sent = sents /\ t.heard = heards /\ t.comm = k
        /\ t.control = s.control /\ t.status = s.status /\ t.transfer = s.transfer
        /\ t.received = s.received /\ t.sends = s.sends /\ t.offs = s.offs
        /\ t.fresh = s.fresh /\ t.missed = s.missed
    BY <2>7, <2>8, <2>9 DEF State
  <2>11. CardsGood(t)
    <3> SUFFICES ASSUME NEW q \in Ports PROVE CardGood(t.card[q], t.sent[q], t.heard[q])
      BY DEF CardsGood
    <3>1. CASE q = p
      BY <2>3, <2>9, <2>10, <3>1
    <3>2. CASE q # p
      BY <2>9, <2>10, <3>2 DEF CardsGood
    <3> QED
      BY <3>1, <3>2
  <2>12. AllWrote(s, t)
    <3> SUFFICES ASSUME NEW q \in Ports PROVE Wrote(s.card[q], s.sent[q], t.card[q])
      BY DEF AllWrote
    <3>1. CASE q = p
      BY <2>3, <2>9, <2>10, <3>1 DEF c
    <3>2. CASE q # p
      BY <2>9, <2>10, <3>2 DEF Wrote
    <3> QED
      BY <3>1, <3>2
  <2>13. s.comm = "None" /\ (\A q \in Ports : s.pad[q].idx = 0 /\ s.card[q].idx = 0)
        /\ b \in {1, 129} => y.ack
    <3>1. s.comm = "None" /\ b \in {1, 129} => b = 129
      BY <1>2, <1>4
    <3> QED
      BY <1>1, <2>4, <2>8, <3>1 DEF c
  <2>14. x.answer \in Int
    BY <2>4 DEF Byte
  <2> QED
    BY <2>7, <2>8, <2>10, <2>11, <2>12, <2>13, <2>14 DEF t, y
<1>5. CASE to = "None"
  <2>1. x = [dev |-> [ack |-> FALSE], answer |-> HiZ]
    BY <1>5 DEF Answer
  <2>2. y = [ state |-> [s EXCEPT !.comm = "None"], answer |-> HiZ, ack |-> FALSE ]
    <3>1. y = [ state |-> [s EXCEPT !.comm = k], answer |-> x.answer, ack |-> x.dev.ack ]
      BY <1>5 DEF Exchange
    <3>2. x.answer = HiZ /\ x.dev.ack = FALSE
      <4> HIDE DEF x
      <4> QED
        BY <2>1
    <3> HIDE DEF x, y, to
    <3> QED
      BY <1>5, <3>1, <3>2
  <2> HIDE DEF y, x
  <2>3. y.answer = HiZ /\ y.ack = FALSE /\ t = [s EXCEPT !.comm = "None"]
    BY <2>2
  <2> HIDE DEF t
  <2>4. /\ t \in State /\ t.card = s.card /\ t.sent = s.sent /\ t.heard = s.heard /\ t.comm = "None"
        /\ t.control = s.control /\ t.status = s.status /\ t.transfer = s.transfer
        /\ t.received = s.received /\ t.sends = s.sends /\ t.offs = s.offs
        /\ t.fresh = s.fresh /\ t.missed = s.missed
    BY <2>3 DEF State, Kinds
  <2>5. CardsGood(t) /\ AllWrote(s, t)
    BY <2>4 DEF CardsGood, AllWrote, Wrote
  <2>6. ~ (s.comm = "None" /\ b \in {1, 129})
    BY <1>2, <1>5
  <2>7. HiZ \in Int
    BY DEF HiZ
  <2> QED
    BY <2>3, <2>4, <2>5, <2>6, <2>7 DEF t, y
<1> QED
  BY <1>2, <1>3, <1>4, <1>5 DEF Kinds

LEMMA Pushed ==
  ASSUME NEW s \in State, NEW b \in Int
  PROVE  LET t == PushReceived(s, b) IN
         /\ t \in State
         /\ t.transfer = s.transfer /\ t.comm = s.comm /\ t.pad = s.pad /\ t.card = s.card
         /\ t.sent = s.sent /\ t.heard = s.heard /\ t.fresh = s.fresh /\ t.missed = s.missed
<1> DEFINE t == PushReceived(s, b)
           q == s.received
           r == IF Len(q) = FifoLen THEN [q EXCEPT ![FifoLen] = b] ELSE Append(q, b)
<1>1. r \in Seq(Int)
  <2>1. q \in Seq(Int)
    BY DEF State
  <2>2. Append(q, b) \in Seq(Int)
    BY <2>1, Appended
  <2>3. Len(q) = FifoLen => [q EXCEPT ![FifoLen] = b] \in Seq(Int)
    <3> SUFFICES ASSUME Len(q) = FifoLen PROVE [q EXCEPT ![FifoLen] = b] \in Seq(Int)
      OBVIOUS
    <3>1. FifoLen \in 1 .. Len(q)
      BY Numbers
    <3> HIDE DEF q
    <3> QED
      BY <2>1, <3>1, ExceptSeq
  <2> QED
    BY <2>2, <2>3
<1>2. CASE ~ s.control.rx /\ ~ s.control.dtr
  BY <1>2 DEF PushReceived
<1>3. CASE ~ (~ s.control.rx /\ ~ s.control.dtr)
  <2> DEFINE st == [s.status EXCEPT !.rx_ready = TRUE]
             co == [s.control EXCEPT !.rx = FALSE]
  <2>1. t = [s EXCEPT !.received = r, !.status = st, !.control = co]
    BY <1>3 DEF PushReceived, State
  <2>2. st \in [rx_ready : BOOLEAN, dsr : BOOLEAN, irq : BOOLEAN] /\ co \in ControlBits
    BY DEF State, ControlBits
  <2> HIDE DEF st, co, r, t
  <2>3. t \in State
    BY <1>1, <2>1, <2>2 DEF State
  <2>4. /\ t.transfer = s.transfer /\ t.comm = s.comm /\ t.pad = s.pad /\ t.card = s.card
        /\ t.sent = s.sent /\ t.heard = s.heard /\ t.fresh = s.fresh /\ t.missed = s.missed
    BY <2>1 DEF State
  <2> QED
    BY <2>3, <2>4 DEF t
<1> QED
  BY <1>2, <1>3

\* Trying to send keeps the port good, and writes whole sectors.
LEMMA Tried ==
  ASSUME NEW s, Good(s)
  PROVE  Good(TrySend(s)) /\ AllWrote(s, TrySend(s))
<1>1. s \in State
  BY DEF Good
<1>2. CASE ~ s.control.tx \/ s.transfer = None
  <2>1. TrySend(s) = s
    BY <1>2 DEF TrySend
  <2>2. AllWrote(s, s)
    BY DEF AllWrote, Wrote
  <2> QED
    BY <2>1, <2>2
<1>3. CASE ~ (~ s.control.tx \/ s.transfer = None)
  <2> DEFINE b == s.transfer
             e == [s EXCEPT !.transfer = None]
             x == Exchange(e, b)
             u == x.state
             first == s.fresh /\ b \in {1, 129}
             m == CASE x.ack -> 0 [] first /\ ~ x.ack -> u.missed + 1 [] OTHER -> u.missed
             st == [u.status EXCEPT !.dsr = x.ack]
             more == IF s.control.dsr_irq /\ x.ack THEN 1 ELSE u.sends
             off == IF x.ack THEN 1 ELSE u.offs
             r == [u EXCEPT !.status = st, !.sends = more, !.offs = off, !.fresh = FALSE, !.missed = m]
             t == PushReceived(r, x.answer)
  <2>1. b \in Bytes /\ \A p \in Ports : MayTake(s.card[p], b)
    BY <1>1, <1>3 DEF Good, Held, State
  <2>2. /\ e \in State /\ e.card = s.card /\ e.sent = s.sent /\ e.heard = s.heard /\ e.pad = s.pad
        /\ e.comm = s.comm /\ e.fresh = s.fresh /\ e.missed = s.missed /\ e.transfer = None
    BY <1>1 DEF State
  <2> HIDE DEF b, e
  <2>3. CardsGood(e) /\ \A p \in Ports : MayTake(e.card[p], b)
    BY <2>1, <2>2 DEF Good, CardsGood
  <2>4. /\ u \in State /\ x.answer \in Int /\ x.ack \in BOOLEAN
        /\ CardsGood(u) /\ AllWrote(e, u)
        /\ u.transfer = e.transfer /\ u.fresh = e.fresh /\ u.missed = e.missed
        /\ ~ x.ack => u.comm = "None"
        /\ /\ e.comm = "None" /\ b \in {1, 129}
           /\ \A p \in Ports : e.pad[p].idx = 0 /\ e.card[p].idx = 0
           => x.ack
    BY <2>1, <2>2, <2>3, Exchanged
  <2>5. TrySend(s) = t
    <3>1. TrySend(s) = PushReceived([ u EXCEPT !.status.dsr = x.ack,
                               !.sends = IF s.control.dsr_irq /\ x.ack THEN 1 ELSE @,
                               !.offs = IF x.ack THEN 1 ELSE @,
                               !.fresh = FALSE,
                               !.missed = CASE x.ack -> 0 [] first /\ ~x.ack -> @ + 1 [] OTHER -> @ ],
                               x.answer)
      BY <1>3 DEF TrySend, e, b
    <3>2. [ u EXCEPT !.status.dsr = x.ack,
                               !.sends = IF s.control.dsr_irq /\ x.ack THEN 1 ELSE @,
                               !.offs = IF x.ack THEN 1 ELSE @,
                               !.fresh = FALSE,
                               !.missed = CASE x.ack -> 0 [] first /\ ~x.ack -> @ + 1 [] OTHER -> @ ]
          = r
      <4> HIDE DEF x, first
      <4> QED
        BY <2>4 DEF State
    <3> HIDE DEF r, x
    <3> QED
      BY <3>1, <3>2
  <2> HIDE DEF x
  <2>6. m \in {0, 1} /\ (m = 1 => u.comm = "None")
    <3>1. s.missed \in {0, 1} /\ u.missed = s.missed
      BY <1>1, <2>2, <2>4 DEF State
    <3>2. first /\ s.missed = 1 => x.ack
      <4> SUFFICES ASSUME first, s.missed = 1 PROVE x.ack
        OBVIOUS
      <4>1. s.comm = "None" /\ \A p \in Ports : s.pad[p].idx = 0 /\ s.card[p].idx = 0
        BY DEF Good, Missing
      <4> QED
        BY <2>2, <2>4, <4>1
    <3> HIDE DEF first
    <3> QED
      BY <2>4, <3>1, <3>2
  <2>7. st \in [rx_ready : BOOLEAN, dsr : BOOLEAN, irq : BOOLEAN] /\ more \in Int /\ off \in Int
    <3>1. u.status \in [rx_ready : BOOLEAN, dsr : BOOLEAN, irq : BOOLEAN]
          /\ u.sends \in Int /\ u.offs \in Int /\ x.ack \in BOOLEAN
      BY <2>4 DEF State
    <3> HIDE DEF u
    <3>2. st \in [rx_ready : BOOLEAN, dsr : BOOLEAN, irq : BOOLEAN]
      BY <3>1
    <3>3. more \in Int
      BY <3>1
    <3>4. off \in Int
      BY <3>1
    <3> QED
      BY <3>2, <3>3, <3>4
  <2> HIDE DEF m, st, more, off
  <2>8. /\ r \in State /\ r.transfer = None /\ r.comm = u.comm /\ r.card = u.card
        /\ r.sent = u.sent /\ r.heard = u.heard /\ r.fresh = FALSE /\ r.missed = m
    BY <2>2, <2>4, <2>6, <2>7 DEF State
  <2> HIDE DEF r
  <2>9. /\ t \in State /\ t.transfer = None /\ t.comm = u.comm /\ t.card = u.card
        /\ t.sent = u.sent /\ t.heard = u.heard /\ t.fresh = FALSE /\ t.missed = m
    BY <2>4, <2>8, Pushed
  <2> HIDE DEF t
  <2>10. CardsGood(t) /\ Held(t) /\ Missing(t)
    BY <2>4, <2>6, <2>9 DEF CardsGood, Held, Missing
  <2>11. AllWrote(s, t)
    BY <2>2, <2>4, <2>9 DEF AllWrote
  <2> QED
    BY <2>5, <2>9, <2>10, <2>11 DEF Good
<1> QED
  BY <1>2, <1>3

\* Telling the devices that they are no longer selected.
LEMMA DevicesReset ==
  ASSUME NEW s \in State, s.missed = 1 => s.comm = "None"
  PROVE  LET t == ResetDevices(s) IN
         /\ Good(t) /\ t.control = s.control
         /\ \A p \in Ports : t.card[p].idx = 0 /\ t.card[p].data = s.card[p].data
<1> DEFINE t == ResetDevices(s)
           pads == [p \in Ports |-> PadReset(s.pad[p])]
           cards == [p \in Ports |-> CardReset(s.card[p])]
           empty == [p \in Ports |-> <<>>]
<1>1. t = [s EXCEPT !.pad = pads, !.card = cards, !.sent = empty, !.heard = empty, !.fresh = TRUE]
  BY DEF ResetDevices, State
<1>2. pads \in [Ports -> PadType] /\ \A p \in Ports : pads[p].idx = 0
  <2>1. ASSUME NEW p \in Ports PROVE PadReset(s.pad[p]) \in PadType /\ PadReset(s.pad[p]).idx = 0
    <3>1. s.pad[p] \in PadType
      BY DEF State
    <3> QED
      BY <3>1 DEF PadReset, PadType
  <2> QED
    BY <2>1
<1>3. ASSUME NEW p \in Ports
      PROVE  /\ CardGood(cards[p], empty[p], empty[p]) /\ cards[p].idx = 0
             /\ cards[p].data = s.card[p].data /\ cards[p] \in CardType
             /\ MayTake(cards[p], s.transfer) \/ s.transfer = None
  <2>1. s.card[p] \in CardType
    BY DEF State
  <2>2. cards[p] = CardReset(s.card[p]) /\ empty[p] = <<>>
    OBVIOUS
  <2>3. CardGood(cards[p], <<>>, <<>>) /\ cards[p].idx = 0 /\ cards[p].data = s.card[p].data
    BY <2>1, <2>2, CardReseted
  <2> HIDE DEF cards
  <2>4. Ready(cards[p]) /\ cards[p] \in CardType
    BY <2>3 DEF CardGood, Ready
  <2>5. s.transfer # None => s.transfer \in Byte
    BY Numbers DEF State
  <2> QED
    BY <2>2, <2>3, <2>4, <2>5, CardAtRest
<1>4. cards \in [Ports -> CardType]
  BY <1>3
<1>5. empty \in [Ports -> Seq(Bytes)] /\ empty \in [Ports -> Seq(Byte)]
  <2>1. <<>> \in Seq(Bytes) /\ <<>> \in Seq(Byte)
    OBVIOUS
  <2> QED
    BY <2>1
<1> HIDE DEF pads, cards, empty, t
<1>6. /\ t \in State /\ t.pad = pads /\ t.card = cards /\ t.sent = empty /\ t.heard = empty
      /\ t.control = s.control /\ t.transfer = s.transfer /\ t.comm = s.comm /\ t.missed = s.missed
  BY <1>1, <1>2, <1>4, <1>5 DEF State
<1>7. CardsGood(t) /\ Held(t) /\ Missing(t)
  BY <1>2, <1>3, <1>6 DEF CardsGood, Held, Missing
<1> QED
  BY <1>3, <1>6, <1>7 DEF Good, t

\* The port goes back to its registers' first values.
LEMMA RegsReset ==
  ASSUME NEW s, Good(s)
  PROVE  LET t == ResetRegs(s) IN
         /\ Good(t)
         /\ \A p \in Ports : t.card[p].idx = 0 /\ t.card[p].data = s.card[p].data
<1> DEFINE e == [ s EXCEPT !.transfer = None, !.received = <<>>, !.comm = "None",
                          !.status = [rx_ready |-> FALSE, dsr |-> FALSE, irq |-> FALSE],
                          !.control = NoControl ]
<1>1. NoControl \in ControlBits
  BY Numbers DEF NoControl, ControlBits
<1>2. <<>> \in Seq(Int)
  OBVIOUS
<1>3. e \in State /\ e.comm = "None" /\ e.card = s.card
  BY <1>1, <1>2 DEF Good, State, Kinds
<1>4. ResetRegs(s) = ResetDevices(e)
  BY DEF ResetRegs
<1> HIDE DEF e
<1> QED
  BY <1>3, <1>4, DevicesReset

LEMMA Deselected ==
  ASSUME NEW s, Good(s)
  PROVE  LET t == Deselect(s) IN
         /\ Good(t)
         /\ \/ t = s
            \/ \A p \in Ports : t.card[p].idx = 0 /\ t.card[p].data = s.card[p].data
<1>1. CASE s.control.dtr
  BY <1>1 DEF Deselect
<1>2. CASE ~ s.control.dtr
  <2> DEFINE st == [s.status EXCEPT !.dsr = FALSE]
             e == [s EXCEPT !.status = st]
  <2>1. Deselect(s) = ResetDevices(e)
    BY <1>2 DEF Deselect, Good, State
  <2>2. st \in [rx_ready : BOOLEAN, dsr : BOOLEAN, irq : BOOLEAN]
    BY DEF Good, State
  <2> HIDE DEF st
  <2>3. e \in State /\ e.comm = s.comm /\ e.card = s.card /\ e.missed = s.missed
    BY <2>2 DEF Good, State
  <2> HIDE DEF e
  <2> QED
    BY <2>1, <2>3, DevicesReset DEF Good, Missing
<1> QED
  BY <1>1, <1>2

-----------------------------------------------------------------------------
(* The steps.                                                              *)

\* The data of a card change as WritesAreWhole says, from one state to another.
Whole == \A p \in Ports : Wrote(card[p], sent[p], card'[p])

LEMMA NowIs ==
  /\ Now.control = control /\ Now.status = status /\ Now.transfer = transfer
  /\ Now.received = received /\ Now.comm = comm /\ Now.pad = pad /\ Now.card = card
  /\ Now.sends = sends /\ Now.offs = offs /\ Now.sent = sent /\ Now.heard = heard
  /\ Now.fresh = fresh /\ Now.missed = missed
  BY DEF Now

LEMMA Became ==
  ASSUME NEW s \in State, Become(s)
  PROVE  Now' = s
<1>1. s = [control |-> s.control, status |-> s.status, transfer |-> s.transfer,
           received |-> s.received, comm |-> s.comm, pad |-> s.pad, card |-> s.card,
           sends |-> s.sends, offs |-> s.offs, sent |-> s.sent, heard |-> s.heard,
           fresh |-> s.fresh, missed |-> s.missed]
  BY DEF State
<1>2. Now' = [control |-> control', status |-> status', transfer |-> transfer',
        received |-> received',
        comm |-> comm', pad |-> pad', card |-> card', sends |-> sends', offs |-> offs',
        sent |-> sent', heard |-> heard', fresh |-> fresh', missed |-> missed']
  BY DEF Now
<1> QED
  BY <1>1, <1>2 DEF Become

PortGood == Good(Now)

LEMMA InitGood == Init => PortGood
<1> SUFFICES ASSUME Init PROVE Good(Now)
  BY DEF PortGood
<1> USE DEF Init
<1>1. /\ NoControl \in ControlBits
      /\ <<>> \in Seq(Int) /\ <<>> \in Seq(Bytes) /\ <<>> \in Seq(Byte)
  BY Numbers DEF NoControl, ControlBits
<1>2. SectorLen \in Nat \ {0} /\ File \in [Sectors -> Sector]
  BY SioAssumption DEF SioAssumption, Sector, Byte
<1> DEFINE c == [ idx |-> 0, command |-> "Read", ack |-> FALSE, sector |-> 0, checksum |-> 0,
                  buffer |-> [i \in 1 .. SectorLen |-> 0], left |-> 0, end |-> "Good",
                  unread |-> TRUE, data |-> File ]
           d == [idx |-> 0, mode |-> "Digital", ack |-> FALSE]
<1>3. c \in CardType /\ c.idx = 0
  <2>1. 0 \in Byte /\ 0 \in 0 .. SectorLen /\ "Read" \in Commands
    BY <1>2 DEF Byte, Commands
  <2>2. [i \in 1 .. SectorLen |-> 0] \in Sector
    BY <2>1 DEF Sector
  <2> DEFINE zeros == [i \in 1 .. SectorLen |-> 0]
  <2> HIDE DEF zeros
  <2>3. c = [ idx |-> 0, command |-> "Read", ack |-> FALSE, sector |-> 0, checksum |-> 0,
              buffer |-> zeros, left |-> 0, end |-> "Good", unread |-> TRUE, data |-> File ]
    BY DEF zeros
  <2>4. zeros \in Sector
    BY <2>2 DEF zeros
  <2> HIDE DEF c
  <2>5. c \in CardType /\ c.idx = 0
    BY <1>2, <2>1, <2>3, <2>4 DEF CardType
  <2> QED
    BY <2>5
<1>4. d \in PadType /\ d.idx = 0
  BY DEF PadType
<1>5. pad = [p \in Ports |-> d] /\ card = [p \in Ports |-> c]
  OBVIOUS
<1> HIDE DEF c, d
<1>6. CardGood(c, <<>>, <<>>)
  BY <1>3, CardStarts
<1>7. Now \in State
  <2>1. pad \in [Ports -> PadType] /\ card \in [Ports -> CardType]
    BY <1>3, <1>4, <1>5
  <2>2. sent \in [Ports -> Seq(Bytes)] /\ heard \in [Ports -> Seq(Byte)]
    BY <1>1
  <2>3. [rx_ready |-> FALSE, dsr |-> FALSE, irq |-> FALSE]
           \in [rx_ready : BOOLEAN, dsr : BOOLEAN, irq : BOOLEAN]
    OBVIOUS
  <2>4. control \in ControlBits /\ status \in [rx_ready : BOOLEAN, dsr : BOOLEAN, irq : BOOLEAN]
        /\ transfer \in Bytes \cup {None} /\ received \in Seq(Int) /\ comm \in Kinds
        /\ sends \in Int /\ offs \in Int /\ fresh \in BOOLEAN /\ missed \in {0, 1}
    BY <1>1, <2>3 DEF Kinds
  <2> QED
    BY <2>1, <2>2, <2>4 DEF State, Now
<1>8. CardsGood(Now)
  BY <1>5, <1>6, NowIs DEF CardsGood
<1>9. Held(Now) /\ Missing(Now)
  BY <1>3, <1>4, <1>5, NowIs DEF Held, Missing
<1> QED
  BY <1>7, <1>8, <1>9 DEF Good

LEMMA StepGood == PortGood /\ [Next]_vars => PortGood' /\ Whole
<1> SUFFICES ASSUME Good(Now), [Next]_vars PROVE Good(Now') /\ Whole
  BY DEF PortGood
<1>0. Now \in State /\ CardsGood(Now) /\ Held(Now) /\ Missing(Now)
  BY DEF Good
<1> USE NowIs
<1>1. ASSUME NEW s, Good(s), AllWrote(Now, s), Become(s) PROVE Good(Now') /\ Whole
  <2>1. Now' = s
    BY <1>1, Became DEF Good
  <2>2. card' = s.card
    BY <1>1 DEF Become
  <2> QED
    BY <1>1, <2>1, <2>2 DEF AllWrote, Whole
<1>2. ASSUME NEW s \in State, Become(s), s.card = card, s.sent = sent, s.heard = heard,
             s.transfer = transfer, s.comm = comm, s.fresh = fresh, s.missed = missed,
             \A p \in Ports : pad[p].idx = 0 => s.pad[p].idx = 0
      PROVE  Good(Now') /\ Whole
  <2>1. CardsGood(s) /\ Held(s) /\ Missing(s)
    BY <1>0, <1>2 DEF CardsGood, Held, Missing
  <2>2. AllWrote(Now, s)
    BY <1>2 DEF AllWrote, Wrote
  <2> QED
    BY <1>1, <1>2, <2>1, <2>2 DEF Good
<1>3. ASSUME NEW b \in Bytes, StoreTx(b) PROVE Good(Now') /\ Whole
  <2> DEFINE e == [Now EXCEPT !.transfer = b]
  <2>1. /\ e \in State /\ e.card = card /\ e.sent = sent /\ e.heard = heard /\ e.pad = pad
        /\ e.comm = comm /\ e.fresh = fresh /\ e.missed = missed /\ e.transfer = b
    BY <1>0 DEF State
  <2>2. Become(TrySend(e)) /\ MaySend(b)
    BY <1>3 DEF StoreTx
  <2> HIDE DEF e
  <2>3. \A p \in Ports : MayTake(card[p], b)
    BY <2>2 DEF MaySend, MayTake
  <2>4. Good(e)
    BY <1>0, <2>1, <2>3 DEF Good, CardsGood, Held, Missing
  <2>5. Good(TrySend(e)) /\ AllWrote(e, TrySend(e))
    BY <2>4, Tried
  <2>6. AllWrote(Now, TrySend(e))
    BY <2>1, <2>5 DEF AllWrote
  <2> QED
    BY <1>1, <2>2, <2>5, <2>6
<1>4. ASSUME NEW w \in Controls, WriteControl(w) PROVE Good(Now') /\ Whole
  <2> DEFINE st == [status EXCEPT !.irq = @ /\ ~ w.acknowledge]
             s == [Now EXCEPT !.control = w.bits, !.status = st]
             t == IF w.reset THEN ResetRegs(s) ELSE s
             u == Deselect(t)
             v == TrySend(u)
  <2>1. w.bits \in ControlBits /\ w.acknowledge \in BOOLEAN
    BY SioAssumption DEF SioAssumption
  <2>2. Become(v)
    BY <1>4 DEF WriteControl, Now
  <2>3. st \in [rx_ready : BOOLEAN, dsr : BOOLEAN, irq : BOOLEAN]
    <3>1. status \in [rx_ready : BOOLEAN, dsr : BOOLEAN, irq : BOOLEAN]
      BY <1>0 DEF State
    <3> DEFINE i == status.irq /\ ~ w.acknowledge
    <3>2. st = [status EXCEPT !.irq = i] /\ i \in BOOLEAN
      BY <3>1
    <3> HIDE DEF i, st
    <3> QED
      BY <3>1, <3>2
  <2> HIDE DEF st
  <2>4. /\ s \in State /\ s.card = card /\ s.sent = sent /\ s.heard = heard /\ s.pad = pad
        /\ s.comm = comm /\ s.fresh = fresh /\ s.missed = missed /\ s.transfer = transfer
    BY <1>0, <2>1, <2>3 DEF State
  <2> HIDE DEF s
  <2>5. Good(s)
    BY <1>0, <2>4 DEF Good, CardsGood, Held, Missing
  <2>6. Good(t) /\ (t = s \/ \A p \in Ports : t.card[p].idx = 0 /\ t.card[p].data = s.card[p].data)
    BY <2>5, RegsReset
  <2> HIDE DEF t
  <2>7. Good(u) /\ (u = t \/ \A p \in Ports : u.card[p].idx = 0 /\ u.card[p].data = t.card[p].data)
    BY <2>6, Deselected
  <2> HIDE DEF u
  <2>8. Good(v) /\ AllWrote(u, v)
    BY <2>7, Tried
  <2> HIDE DEF v
  <2>9. AllWrote(Now, v)
    <3>1. CASE u = s
      BY <2>4, <2>8, <3>1 DEF AllWrote
    <3>2. CASE \A p \in Ports : u.card[p].idx = 0 /\ u.card[p].data = card[p].data
      <4>1. \A p \in Ports : v.card[p].data = u.card[p].data
        BY <2>8, <3>2 DEF AllWrote, Wrote
      <4> QED
        BY <3>2, <4>1 DEF AllWrote, Wrote
    <3>3. u = s \/ \A p \in Ports : u.card[p].idx = 0 /\ u.card[p].data = card[p].data
      BY <2>4, <2>6, <2>7
    <3> QED
      BY <3>1, <3>2, <3>3
  <2> QED
    BY <1>1, <2>2, <2>8, <2>9
<1>5. ASSUME LoadRx PROVE Good(Now') /\ Whole
  <2> DEFINE rest == SubSeq(received, 2, Len(received))
             st == [status EXCEPT !.rx_ready = @ /\ rest # <<>>]
             s == [Now EXCEPT !.received = rest, !.status = st]
  <2>1. Become(s)
    BY <1>5 DEF LoadRx, Now
  <2>2. received \in Seq(Int) /\ status \in [rx_ready : BOOLEAN, dsr : BOOLEAN, irq : BOOLEAN]
    BY <1>0 DEF State
  <2>3. rest \in Seq(Int)
    <3>1. Len(received) \in Nat /\ \A i \in 2 .. Len(received) : received[i] \in Int
      BY <2>2, LenProperties, ElementOfSeq
    <3> QED
      BY <3>1, SubSeqProperties
  <2>4. st \in [rx_ready : BOOLEAN, dsr : BOOLEAN, irq : BOOLEAN]
    <3> DEFINE i == status.rx_ready /\ rest # <<>>
    <3>1. st = [status EXCEPT !.rx_ready = i] /\ i \in BOOLEAN
      BY <2>2
    <3> HIDE DEF i, st
    <3> QED
      BY <2>2, <3>1
  <2> HIDE DEF rest, st
  <2>5. /\ s \in State /\ s.card = card /\ s.sent = sent /\ s.heard = heard /\ s.pad = pad
        /\ s.comm = comm /\ s.fresh = fresh /\ s.missed = missed /\ s.transfer = transfer
    BY <1>0, <2>3, <2>4 DEF State
  <2> HIDE DEF s
  <2> QED
    BY <1>2, <2>1, <2>5
<1>6. ASSUME SerialSend PROVE Good(Now') /\ Whole
  <2> DEFINE st == [status EXCEPT !.irq = TRUE]
             n == sends - 1
             s == [Now EXCEPT !.sends = n, !.status = st]
  <2>1. Become(s)
    BY <1>6 DEF SerialSend, Now
  <2>3. n \in Int
    BY <1>0 DEF State
  <2>2. st \in [rx_ready : BOOLEAN, dsr : BOOLEAN, irq : BOOLEAN]
    BY <1>0 DEF State
  <2> HIDE DEF st, n
  <2>5. /\ s \in State /\ s.card = card /\ s.sent = sent /\ s.heard = heard /\ s.pad = pad
        /\ s.comm = comm /\ s.fresh = fresh /\ s.missed = missed /\ s.transfer = transfer
    BY <1>0, <2>2, <2>3 DEF State
  <2> HIDE DEF s
  <2> QED
    BY <1>2, <2>1, <2>5
<1>7. ASSUME DsrOff PROVE Good(Now') /\ Whole
  <2> DEFINE st == [status EXCEPT !.dsr = FALSE]
             n == offs - 1
             s == [Now EXCEPT !.offs = n, !.status = st]
  <2>1. Become(s)
    BY <1>7 DEF DsrOff, Now
  <2>3. n \in Int
    BY <1>0 DEF State
  <2>2. st \in [rx_ready : BOOLEAN, dsr : BOOLEAN, irq : BOOLEAN]
    BY <1>0 DEF State
  <2> HIDE DEF st, n
  <2>5. /\ s \in State /\ s.card = card /\ s.sent = sent /\ s.heard = heard /\ s.pad = pad
        /\ s.comm = comm /\ s.fresh = fresh /\ s.missed = missed /\ s.transfer = transfer
    BY <1>0, <2>2, <2>3 DEF State
  <2> HIDE DEF s
  <2> QED
    BY <1>2, <2>1, <2>5
<1>8. ASSUME SetAnalogMode PROVE Good(Now') /\ Whole
  <2> DEFINE d == pad[0]
             e == Switched(d)
             pads == [pad EXCEPT ![0] = e]
             s == [Now EXCEPT !.pad = pads]
  <2>1. Become(s)
    BY <1>8, NowIs DEF SetAnalogMode
  <2>2. pad \in [Ports -> PadType] /\ 0 \in Ports
    BY <1>0, Numbers DEF State
  <2>3. e \in PadType /\ e.idx = 0
    <3>1. d \in PadType
      BY <2>2
    <3> HIDE DEF d
    <3> QED
      BY <3>1 DEF Switched, PadReset, PadType
  <2> HIDE DEF e
  <2>4. pads \in [Ports -> PadType] /\ \A p \in Ports : pad[p].idx = 0 => pads[p].idx = 0
    BY <2>2, <2>3
  <2> HIDE DEF pads
  <2>5. /\ s \in State /\ s.card = card /\ s.sent = sent /\ s.heard = heard /\ s.pad = pads
        /\ s.comm = comm /\ s.fresh = fresh /\ s.missed = missed /\ s.transfer = transfer
    BY <1>0, <2>4 DEF State
  <2> HIDE DEF s
  <2> QED
    BY <1>2, <2>1, <2>4, <2>5
<1>9. ASSUME UNCHANGED vars PROVE Good(Now') /\ Whole
  <2>1. Now' = Now /\ card' = card
    BY <1>9 DEF vars, Now
  <2> QED
    BY <2>1 DEF Whole, Wrote
<1> QED
  BY <1>3, <1>4, <1>5, <1>6, <1>7, <1>8, <1>9 DEF Next

-----------------------------------------------------------------------------
(* The theorems.                                                           *)

\* Whatever is sent, the port, the pads and the cards stay in their types and
\* every card knows its command: the inductive invariant.
THEOREM SpecPortGood == Spec => []PortGood
<1>1. PortGood /\ [Next]_vars => PortGood'
  BY StepGood
<1> QED
  BY <1>1, InitGood, PTL DEF Spec

\* A card that has answered a read to its end has answered with the sector it
\* was asked for and its sum.
THEOREM SpecReadsAreTrue == Spec => []ReadsAreTrue
<1>1. PortGood => ReadsAreTrue
  <2> SUFFICES ASSUME Good(Now), NEW p \in Ports,
                      card[p].command = "Read", CardState(card[p]) = "MemEnd"
               PROVE  LET sector == card[p].data[sent[p][6]]
                      IN /\ SubSeq(heard[p], 11, 10 + SectorLen) = sector
                         /\ heard[p][11 + SectorLen] = XorOf(<<sent[p][5], sent[p][6]>> \o sector)
    BY DEF PortGood, ReadsAreTrue
  <2> DEFINE c == card[p]
             s == sent[p]
             h == heard[p]
             q == c.data[c.sector]
  <2>1. CardGood(c, s, h)
    BY NowIs DEF Good, CardsGood
  <2>2. Ready(c) /\ c \in CardType /\ c.command = "Read" /\ CardState(c) = "MemEnd"
    BY <2>1 DEF CardGood, Ready
  <2> HIDE DEF c, s, h
  <2>3. c.idx = 12 /\ c.sector \in Sectors
    BY <2>2, StateOf DEF Ready
  <2>4. ReadGood(c, s, h) /\ s \in Seq(Bytes) /\ h \in Seq(Byte) /\ Len(s) = Taken(c) /\ Len(h) = Taken(c)
    BY <2>1, <2>2 DEF CardGood
  <2>5. SectorLen \in Nat \ {0}
    BY SioAssumption DEF SioAssumption
  <2>6. Taken(c) = 11 + SectorLen
    BY <2>2, <2>3, <2>5 DEF Taken, SectorAt
  <2>7. /\ s[6] = c.sector
        /\ \A i \in 1 .. SectorLen : h[10 + i] = q[i]
        /\ h[11 + SectorLen] = XorSums(Read(c, s))[2 + SectorLen]
    BY <2>3, <2>4 DEF ReadGood
  <2>8. s[5] \in Byte /\ s[6] \in Byte
    <3>1. 5 \in 1 .. Len(s) /\ 6 \in 1 .. Len(s)
      BY <2>4, <2>5, <2>6
    <3> QED
      BY <2>4, <3>1, ElementOfSeq, Numbers
  <2>9. Len(Read(c, s)) = 2 + SectorLen
    BY <2>2, <2>3, <2>8, ReadSums
  <2>10. h[11 + SectorLen] = XorOf(Read(c, s))
    BY <2>7, <2>9 DEF XorOf
  <2>11. q \in Seq(Byte) /\ Len(q) = SectorLen
    <3>1. q \in Sector
      BY <2>2, <2>3 DEF CardType
    <3> HIDE DEF q
    <3> QED
      BY <2>5, <3>1 DEF Sector
  <2> HIDE DEF q
  <2>12. SubSeq(h, 11, 10 + SectorLen) = q
    <3> DEFINE n == 10 + SectorLen
               r == SubSeq(h, 11, n)
    <3>1. n \in Int /\ 11 \in Int /\ (11 <= n => n - 11 + 1 = SectorLen)
          /\ 11 <= n /\ n - 11 + 1 = SectorLen /\ \A i \in 11 .. n : i \in 1 .. Len(h)
      BY <2>4, <2>5, <2>6
    <3>2. \A i \in 11 .. n : h[i] \in Byte
      BY <2>4, <3>1, ElementOfSeq
    <3> HIDE DEF n
    <3>3. /\ r \in Seq(Byte) /\ Len(r) = IF 11 <= n THEN n - 11 + 1 ELSE 0
          /\ \A i \in 1 .. n - 11 + 1 : r[i] = h[11 + i - 1]
      BY <3>1, <3>2, SubSeqProperties
    <3> HIDE DEF r
    <3>4. Len(r) = SectorLen /\ \A i \in 1 .. SectorLen : r[i] = h[11 + i - 1]
      BY <3>1, <3>3
    <3>5. \A i \in 1 .. SectorLen : r[i] = q[i]
      <4>1. \A i \in 1 .. SectorLen : 11 + i - 1 = 10 + i
        BY <2>5
      <4> QED
        BY <2>7, <3>4, <4>1
    <3>6. r = q
      BY <2>11, <3>3, <3>4, <3>5, SeqEqual
    <3> QED
      BY <3>6 DEF r, n
  <2>13. Read(c, s) = <<s[5], s[6]>> \o q /\ c.data[s[6]] = q
    BY <2>7 DEF Read, q
  <2> QED
    BY <2>10, <2>12, <2>13 DEF c, s, h
<1> QED
  BY <1>1, SpecPortGood, PTL

\* No more than one first byte in a row is lost.
THEOREM SpecOneMissAtMost == Spec => []OneMissAtMost
<1>1. PortGood => OneMissAtMost
  <2> SUFFICES ASSUME Good(Now) PROVE missed <= 1
    BY DEF PortGood, OneMissAtMost
  <2>1. missed \in {0, 1}
    BY NowIs DEF Good, State
  <2> QED
    BY <2>1
<1> QED
  BY <1>1, SpecPortGood, PTL

\* What the cards keep changes by whole writes only.
THEOREM SpecWritesAreWhole == Spec => WritesAreWhole
<1>1. PortGood /\ [Next]_vars =>
        [ \A p \in Ports :
          card'[p].data # card[p].data =>
              \E s \in Sectors :
                  /\ IsWrite(sent[p], s, card'[p].data[s])
                  /\ \A t \in Sectors \ {s} : card'[p].data[t] = card[p].data[t] ]_vars
  BY StepGood DEF Whole, Wrote
<1> QED
  BY <1>1, SpecPortGood, PTL DEF Spec, WritesAreWhole
=============================================================================
