-------------------------------- MODULE Irq --------------------------------
(***************************************************************************)
(* The interrupt controller (irq.rs) as operators on its register file.    *)
(* Devices raise a source with a set_* method; the guest acknowledges by   *)
(* storing to I_STAT (offset 0) and enables sources by storing to I_MASK   *)
(* (offset 4).  The source is edge triggered: raising a source whose       *)
(* status bit is still set changes nothing.                                *)
(***************************************************************************)
EXTENDS FiniteSets

IrqSource == {"vblank", "gpu", "cdrom", "dma", "tmr0", "tmr1", "tmr2",
              "ctl_mem", "spu"}

IrqCtl == [status : SUBSET IrqSource, int : SUBSET IrqSource,
           mask : SUBSET IrqSource]

IrqReset == [status |-> {}, int |-> {}, mask |-> {}]

\* set_vblank .. set_ctl_mem: only a clear status bit lets the edge through.
Raise(ic, s) ==
    IF s \in ic.status
    THEN ic
    ELSE [ic EXCEPT !.status = @ \cup {s}, !.int = @ \cup {s}]

\* Mutant: the store clears only the register the guest reads.
StoreStatHalf(ic, keep) == [ic EXCEPT !.status = @ \cap keep]

\* A store to I_STAT keeps the sources whose bit is 1 in the stored word.
StoreStat(ic, keep) == [ic EXCEPT !.status = @ \cap keep, !.int = @ \cap keep]

StoreMask(ic, m) == [ic EXCEPT !.mask = m]

\* The level the CPU samples before every block.
IrqPending(ic) == ic.int \cap ic.mask # {}
=============================================================================
