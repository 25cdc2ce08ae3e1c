------------------------------- MODULE MCSio -------------------------------
(* One port; a card of two sectors of two bytes.                             *)
EXTENDS Sio, Bitwise

MCXor(a, b) == a ^^ b

Bits(tx, dtr, rx, dsr_irq, port) ==
    [tx |-> tx, dtr |-> dtr, rx |-> rx, dsr_irq |-> dsr_irq, port |-> port]
Store(bits, acknowledge, reset) == [bits |-> bits, acknowledge |-> acknowledge, reset |-> reset]
CardFile == [s \in {0, 1} |-> <<s, 1 - s>>]
ControlSet ==
    { Store(Bits(TRUE, TRUE, FALSE, TRUE, 0), TRUE, FALSE),
      Store(Bits(FALSE, FALSE, FALSE, FALSE, 0), FALSE, FALSE),
      Store(Bits(FALSE, FALSE, FALSE, FALSE, 0), FALSE, TRUE) }

\* The guest takes an answer before the acknowledge line falls, and the line falls
\* before the interrupt of the same byte comes, unless the next byte is sent first.
TakesInOrder == offs = sends \/ (sends = 1 /\ received = <<>>)
=============================================================================
