---------------------------- MODULE MCZ80Memory ----------------------------
(***************************************************************************)
(* Two byte values, so four words: two of ROM, two of RAM. One run moves   *)
(* data through every kind of read and write cycle with wait states, the   *)
(* other moves return addresses through the stack with both interrupts.    *)
(***************************************************************************)
EXTENDS Z80Memory

DataOps   == { Op("none", 1, 1, 1, "rmw"), ThenRefresh(Op("ed", 2, 1, 1, "repeat")) }
             \cup InOps \cup ExSpOps
WaitLines == {"wait"}

StackOps  == { Op("none", 1, 0, 2, "call"), Op("ed", 2, 2, 0, "retn") } \cup ImOps
IntLines  == {"int", "nmi"}
=============================================================================
