------------------------------ MODULE VdpPorts ------------------------------
(***************************************************************************)
(* What a program may rely on when it accesses the ports of the VDP and of *)
(* the SDSC console: each IN and each OUT has its effect once, in program  *)
(* order. There is no bus and no clock. Module VdpBus implements this.     *)
(*                                                                         *)
(* The counters run on their own and are not part of the promise: reading  *)
(* one returns any byte.                                                   *)
(***************************************************************************)
EXTENDS Vdp

VARIABLES
  shown,    \* the VDP as the program knows it, and the bytes the console got
  last,     \* the access that completed last
  count     \* how many have

vars == <<shown, last, count>>

Visible(v) == [v EXCEPT !.h = 0, !.ioreq_done = 0, !.regs[LINE_COUNTER] = 0]

Init ==
  /\ shown = [vdp |-> Visible(VdpInit), console |-> 0]
  /\ last = [port |-> "none", write |-> FALSE, byte |-> 0]
  /\ count = 0

Complete(port, write, byte) ==
  /\ last' = [port |-> port, write |-> write, byte |-> byte]
  /\ count' = count + 1

Effect(v) == shown' = [shown EXCEPT !.vdp = Visible(v)]

Out(port, b) ==
  /\ Complete(port, TRUE, b)
  /\ CASE port = "control" -> Effect(ControlWrite(shown.vdp, b))
       [] port = "data"    -> Effect(DataWrite(shown.vdp, b))
       [] port = "sdsc"    -> shown' = [shown EXCEPT !.console = @ + 1]
       [] OTHER            -> UNCHANGED shown

\* A port nobody answers returns whatever is left on the bus.
In(port, b) ==
  /\ Complete(port, FALSE, b)
  /\ CASE port = "control" -> b = shown.vdp.status /\ Effect(ControlRead(shown.vdp))
       [] port = "data"    -> b = shown.vdp.buffer /\ Effect(DataRead(shown.vdp))
       [] OTHER            -> UNCHANGED shown

Next == \E port \in {"control", "data", "counter", "sdsc", "other"}, b \in PortByte :
          Out(port, b) \/ In(port, b)

Spec == Init /\ [][Next]_vars
=============================================================================
