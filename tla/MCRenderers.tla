---------------------------- MODULE MCRenderers ----------------------------
(* Renderers with two cells, of which a drawing area has both or one, and the *)
(* mask settings both off or both on.                                         *)
EXTENDS Renderers

CONSTANTS left, right
MCAreas == {{left, right}, {left}}
MCResetArea == {left}
MCMasks == {Unmasked, [force |-> TRUE, preserve |-> TRUE]}
=============================================================================
