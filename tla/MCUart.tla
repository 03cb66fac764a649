------------------------------- MODULE MCUart -------------------------------
EXTENDS Uart

Bits01 == [i \in Bits |-> i % 2]
Bits011 == [i \in Bits |-> IF i \in {0, 1, 5} THEN 1 ELSE 0]
MCPayload == {Bits01, Bits011}

=============================================================================
