------------------------------ MODULE MCDbgu32 ------------------------------
EXTENDS DbguPhases

Last == <<252, 255, 255, 255>>
First == <<0, 0, 0, 0>>

SetTo(adr) == <<I_ADR_PTR_SET>> \o adr
Write(word) == <<I_MEM_WR>> \o word

MemCommands ==
  {SetTo(Last), SetTo(First), <<I_ADR_PTR_GET>>,
   Write(<<1, 2, 3, 4>>), <<I_MEM_RD>>}
ControlCommands ==
  {<<I_CPU_RUN_CYC, 1>>, <<I_CPU_RUN_CYC, 3>>, <<I_CPU_RESET>>,
   <<I_CPU_FREERUN, 1>>, <<I_CPU_FREERUN, 2>>, <<9>>,
   Write(<<1, 2, 3, 4>>)}
ZeroCommands == {<<I_CPU_RUN_CYC, 0>>, <<I_CPU_FREERUN, 0>>}
ShortCommands == {<<I_CPU_RESET>>}
MCMemAddresses == {Last, First}
OneAddress == {First}
MCData == 0..255
=============================================================================
