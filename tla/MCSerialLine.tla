----------------------------- MODULE MCSerialLine -----------------------------
(* The bytes, sizes and sums of the two tests as they are in the code.       *)
EXTENDS SerialLine

MCBufLen   == [rs485 |-> 2, rs232 |-> 5]
MCHeader   == [rs485 |-> 4, rs232 |-> 4]
MCFill     == [rs485 |-> 204, rs232 |-> 221]     \* 0xCC and 0xDD
MCExpected == [rs485 |-> 208, rs232 |-> 888]     \* 0xD0 and 0x378
=============================================================================
