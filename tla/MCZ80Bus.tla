------------------------------ MODULE MCZ80Bus ------------------------------
(***************************************************************************)
(* Every kind of operation, every input line, and no data at all: with one *)
(* byte value there is one word, and what is left is the bus protocol.     *)
(***************************************************************************)
EXTENDS Z80Core

AllLines == {"wait", "int", "nmi"}
=============================================================================
