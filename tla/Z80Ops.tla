------------------------------- MODULE Z80Ops -------------------------------
(***************************************************************************)
(* What an opcode function asks of the bus.                                *)
(*                                                                         *)
(* The functions of z80/z80_opcodes*.c are coroutines: the decoder calls   *)
(* the same function again after every M2 or M3 cycle, and the macros      *)
(* Z80_8BIT_READ, Z80_16BIT_READ, Z80_8BIT_WRITE and Z80_16BIT_WRITE       *)
(* return the next stage according to how many bytes have moved so far.    *)
(* Their ALU work is left out here: an operation is the template of its    *)
(* bus traffic and of its effect on PC, SP and the interrupt flip-flops.   *)
(***************************************************************************)
EXTENDS Integers

Prefix  == {"none", "cb", "ed", "ix"}         \* "ix": DD or FD
Effect  == {"none", "jump", "call", "ret", "retn", "push", "pop", "ldsp",
            "exsp", "rmw", "repeat", "ei", "di", "im"}

\* last: the stage the function returns when it is done; the repeating block
\* operations ask for one more refresh.
Template == [prefix : Prefix, size : 1..4, reads : 0..2, rio : 0..1,
             writes : 0..2, wio : 0..1, last : {"RESET", "REFRESH"},
             eff : Effect]

Op(prefix, size, reads, writes, eff) ==
  [prefix |-> prefix, size |-> size, reads |-> reads, rio |-> 0,
   writes |-> writes, wio |-> 0, last |-> "RESET", eff |-> eff]

FromPort(op)      == [op EXCEPT !.rio = 1]
ToPort(op)        == [op EXCEPT !.wio = 1]
ThenRefresh(op)   == [op EXCEPT !.last = "REFRESH"]

\* Register-to-register work, immediates, and conditional jumps not taken.
AluOps     == { Op("none", n, 0, 0, "none") : n \in 1..3 }
CbOps      == { Op("cb", 2, 0, 0, "none") }
EdOps      == { Op("ed", 2, 0, 0, "none") }
IxOps      == { Op("ix", n, 0, 0, "none") : n \in 2..4 }

\* One byte from (HL), (BC), (DE), (nn) or (IX+d); BIT b,(HL) and BIT b,(IX+d).
LoadOps    == { Op("none", 1, 1, 0, "none"), Op("none", 3, 1, 0, "none"),
                Op("cb", 2, 1, 0, "none"), Op("ix", 3, 1, 0, "none"),
                Op("ix", 4, 1, 0, "none") }
Load16Ops  == { Op("none", 3, 2, 0, "none"), Op("ed", 4, 2, 0, "none"),
                Op("ix", 4, 2, 0, "none") }
CompareOps == { Op("ed", 2, 1, 0, "none"),
                ThenRefresh(Op("ed", 2, 1, 0, "none")) }
StoreOps   == { Op("none", n, 0, 1, "none") : n \in 1..3 }
StoreIxOps == { Op("ix", n, 0, 1, "none") : n \in 3..4 }
Store16Ops == { Op("none", 3, 0, 2, "none"), Op("ed", 4, 0, 2, "none"),
                Op("ix", 4, 0, 2, "none") }

\* Read, modify, write back at the address read.
IncOps     == { Op("none", 1, 1, 1, "rmw"), Op("ix", 3, 1, 1, "rmw") }
BitOps     == { Op("cb", 2, 1, 1, "rmw"), Op("ix", 4, 1, 1, "rmw") }

InOps      == { FromPort(Op("none", 2, 1, 0, "none")) }
OutOps     == { ToPort(Op("none", 2, 0, 1, "none")),
                ToPort(Op("ed", 2, 0, 1, "none")) }

\* LDI, LDD, LDIR and LDDR; OUTI, OUTD, OTIR and OTDR (OTIR ends in RESET).
CopyOps    == { Op("ed", 2, 1, 1, "repeat"),
                ThenRefresh(Op("ed", 2, 1, 1, "repeat")) }
OutBlockOps == { ToPort(op) : op \in CopyOps }

JumpOps    == { Op("none", n, 0, 0, "jump") : n \in 1..3 }
CallOps    == { Op("none", 3, 0, 2, "call"), Op("none", 1, 0, 2, "call") }
RetOps     == { Op("none", 1, 2, 0, "ret"), Op("ed", 2, 2, 0, "ret") }
RetnOps    == { Op("ed", 2, 2, 0, "retn") }
PushOps    == { Op("none", 1, 0, 2, "push"), Op("ix", 2, 0, 2, "push") }
PopOps     == { Op("none", 1, 2, 0, "pop"), Op("ix", 2, 2, 0, "pop") }
LdSpOps    == { Op("none", 1, 0, 0, "ldsp"), Op("none", 3, 0, 0, "ldsp"),
                Op("ix", 2, 0, 0, "ldsp") }
ExSpOps    == { Op("none", 1, 2, 2, "exsp") }
IffOps     == { Op("none", 1, 0, 0, "ei"), Op("none", 1, 0, 0, "di") }
ImOps      == { Op("ed", 2, 0, 0, "im") }

\* Every kind of operation the emulator implements.
IsaOps == UNION { AluOps, CbOps, EdOps, IxOps, LoadOps, Load16Ops, CompareOps,
                  StoreOps, StoreIxOps, Store16Ops, IncOps, BitOps, InOps,
                  OutOps, CopyOps, OutBlockOps, JumpOps, CallOps, RetOps,
                  RetnOps, PushOps, PopOps, LdSpOps, ExSpOps, IffOps, ImOps }
=============================================================================
