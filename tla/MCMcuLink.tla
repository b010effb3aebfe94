------------------------------ MODULE MCMcuLink ------------------------------
EXTENDS McuLink

\* A transmission of two writes, and one whose second write, the payload, is empty.
MCSends == {<<1, 2>>, <<1, 1, 2>>}
=============================================================================
