------------------------------- MODULE MCDma -------------------------------
(* A table of three entries and two packets; a decoder whose colour          *)
(* macroblock has four pixels and whose block three coefficients.            *)
EXTENDS Dma

\* A frame: a decode command, and the six words that hold its six blocks: a
\* first coefficient and the end each, the second's in a halfword that padding
\* differs from in the coefficient only, padding before the fifth, and the last one
\* ended by the end of the input.
FrameWords ==
    << Word(1, "Bit15", 6, <<1, Pad>>), Word(0, "Bit8", 1, <<0, Pad>>),
       Word(0, "Bit15", 2, <<2, Pad>>), Word(3, "Bit24", 0, <<0, Pad>>),
       Word(2, "Bit8", 1, <<0, Pad>>), Word(0, "Bit4", 1, <<Pad, 0>>),
       Word(0, "Bit15", 2, <<Pad, 1>>), Word(0, "Bit15", 0, <<0, Pad>>) >>
GuestWords == {Word(0, "Bit24", 0, <<Pad, Pad>>), Word(2, "Bit15", 0, <<0, Pad>>)}
GuestControls == {<<TRUE, FALSE, FALSE>>, <<FALSE, TRUE, TRUE>>, <<FALSE, TRUE, FALSE>>}

\* What the guest may store to a channel.
AddressesOf(p) == CASE p = Otc -> {2} [] p = Gpu -> {2} [] OTHER -> {}
BlocksOf(p) ==
    CASE p = Otc -> {[size |-> n, count |-> 1] : n \in {2, 3}}
      [] p = MdecIn -> {[size |-> 4, count |-> 2]}
      [] p = MdecOut -> {[size |-> 1, count |-> 2]}
      [] OTHER -> {}
Start(sync) == Control(TRUE, FALSE, FALSE, sync, "FromRam", FALSE)
ControlsOf(p) ==
    CASE p = Otc -> {Start("Burst")}
      [] p = Gpu -> {Start("LinkedList"), Start("Slice")}
      [] p = Spu -> {[Start("Slice") EXCEPT !.dir = "ToRam"]}
      [] p \in {MdecIn, MdecOut} -> {Start("Slice")}
      [] OTHER -> {}
Dicr(mode, mask, flags) ==
    [mode |-> mode, mask |-> mask, flags |-> flags, enable |-> TRUE, bus_error |-> FALSE,
     master |-> FALSE]

(***************************************************************************)
(* The guest either draws, with the lists and their channels, or decodes,  *)
(* and enables the channels of what it does; the one that draws also the   *)
(* interrupts.  Both begin at reset; what the one or the other uses is at  *)
(* reset as long as the other one runs.                                    *)
(***************************************************************************)
Uses == [draws |-> {Otc, Gpu, Spu}, decodes |-> {MdecIn, MdecOut}]
EnablesOf == [draws |-> {{Otc}}, decodes |-> {{MdecIn}, {MdecIn, MdecOut}}]
AllEnables == UNION {EnablesOf[g] : g \in DOMAIN Uses}
AllDicr == {Dicr({Gpu}, {Gpu, Spu}, {Gpu, Spu})}

IsAtReset(p) ==
    channel[p] = [maddr |-> 0, size |-> 0, count |-> 0,
                  ctrl |-> Control(FALSE, FALSE, FALSE, "Burst", "ToRam", FALSE)]
KeptTo(g) ==
    /\ \A p \in Port \ Uses[g] : IsAtReset(p)
    /\ dpcr \in EnablesOf[g] \union {{}}
    /\ CASE g = "draws" -> mdec = Reset
         [] g = "decodes" -> /\ dicr.mask = {}
                             /\ \A e \in Entries : linked[e] = <<>>
KeepsTo == \E g \in DOMAIN Uses : KeptTo(g)
=============================================================================
