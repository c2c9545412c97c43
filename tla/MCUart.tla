------------------------------- MODULE MCUart -------------------------------
(***************************************************************************)
(* The receiver with the sizes of the code: 8 bits, 100 calls a sample.    *)
(***************************************************************************)
EXTENDS Uart

AllBytes == [1..8 -> 0..1]

\* Every slack the receiver has: it loses bits outside 101..111 calls a bit.
SlowPeriods == {101, 111}
=============================================================================
