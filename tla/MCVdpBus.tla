------------------------------ MODULE MCVdpBus ------------------------------
(***************************************************************************)
(* One IN and one OUT with one byte value for the CPU: all it does is      *)
(* access ports, stretched by a WAIT line that moves at any half-clock up  *)
(* to the end of the last one.                                             *)
(* Four byte values for the VDP, four cells of VRAM.                       *)
(***************************************************************************)
EXTENDS VdpBus

PortOps    == InOps \cup { ToPort(Op("none", 2, 0, 1, "none")) }
WaitLines  == {"wait"}

\* As second control bytes: VRAM read, a register, CRAM.
SomeValues == {0, 2, 3}
=============================================================================
