----------------------------- MODULE MCUartLink -----------------------------
EXTENDS UartLink

Bits01 == [i \in Bits |-> i % 2]
Bits0 == [i \in Bits |-> 0]
Bits011 == [i \in Bits |-> IF i \in {0, 1, 5} THEN 1 ELSE 0]
MCPayload == {Bits0, Bits01, Bits011}

=============================================================================
