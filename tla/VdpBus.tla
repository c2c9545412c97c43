------------------------------- MODULE VdpBus -------------------------------
(***************************************************************************)
(* The Z80 and the VDP as the main loop of sms-ui/smsui.cxx clocks them:   *)
(* z80_tick on every half-clock, vdp_tick on every second one. The VDP     *)
(* looks at the pins only when it is ticked, and an access keeps them low  *)
(* for several half-clocks; ioreq_done is what makes it act once.          *)
(*                                                                         *)
(* The byte and the port of an access are chosen when the CPU puts them on *)
(* the buses. They hold still while a strobe is low: that is StrobeHolds   *)
(* of module Z80Core.                                                      *)
(***************************************************************************)
EXTENDS Z80Core, Vdp

CONSTANTS
  Values,         \* the bytes the program writes to ports
  MAX_ACCESSES    \* bound: later accesses go to ports nobody answers

\* An operation moves at most one byte through a port, in its last cycle.
ASSUME PortAssumption ==
  /\ \A op \in Ops : /\ op.rio = 1 => op.reads < 2 /\ op.writes = 0
                     /\ op.wio = 1 => op.writes < 2
  /\ Values \subseteq PortByte
  /\ MAX_ACCESSES \in Nat

VARIABLES
  turn,      \* who runs next in the body of the loop
  edge,      \* edge_count % 2
  vdp,       \* struct vdp_s
  port,      \* what the address bus selects
  bus,       \* the byte on the data bus
  console,   \* bytes passed to sdsc_write or sdsc_control
  \* history
  shown,     \* VDP and console when IOREQ was last high
  last, count

vdpVars == <<vars, turn, edge, vdp, port, bus, console, shown, last, count>>

Ports    == {"control", "data", "counter", "sdsc", "other"}
Latching == {"control", "data"}    \* nobody else keeps the byte

Visible(v) == [v EXCEPT !.h = 0, !.ioreq_done = 0, !.regs[LINE_COUNTER] = 0]

Starts   == (stage = "M2" /\ m2_tick_count = 0) \/ (stage = "M3" /\ m3_tick_count = 0)
Requests == stage = "M3" /\ m3_tick_count = 1 /\ write_is_io = 1
Ends     == (stage = "M2" /\ m2_tick_count = 7) \/ (stage = "M3" /\ m3_tick_count = 7)

BusInit ==
  /\ Init
  /\ turn = "z80" /\ edge \in 0..1
  /\ vdp = VdpInit /\ port = "other" /\ bus = 0 /\ console = 0
  /\ shown = [vdp |-> Visible(VdpInit), console |-> 0]
  /\ last = [port |-> "none", write |-> FALSE, byte |-> 0] /\ count = 0

\* z80_stage_m3 calls the console itself, when it puts the byte on the bus.
CpuTurn ==
  /\ turn = "z80" /\ Tick
  /\ turn' = "vdp"
  /\ port' \in IF ~Starts THEN {port}
               ELSE IF count < MAX_ACCESSES THEN Ports ELSE {"other"}
  /\ bus' \in IF Requests /\ port \in Latching THEN Values ELSE {bus}
  /\ console' = IF Requests /\ port = "sdsc" THEN console + 1 ELSE console
  /\ IF Ends /\ n_ioreq = 0 /\ count < MAX_ACCESSES
       THEN /\ last' = [port |-> port, write |-> stage = "M3", byte |-> bus]
            /\ count' = count + 1
            /\ shown' = [vdp |-> Visible(vdp), console |-> console]
       ELSE UNCHANGED <<last, count, shown>>
  /\ UNCHANGED <<edge, vdp>>

(***************************************************************************)
(* vdp_tick: vdp_io, then vdp_update.                                      *)
(***************************************************************************)
Acting == vdp.ioreq_done = 0 /\ n_ioreq = 0

ServedFault(v) == vdp' = Update(v)          \* the access is not marked done
Served(v)      == vdp' = Update([v EXCEPT !.ioreq_done = 1])

VdpControlRead ==
  /\ Acting /\ port = "control" /\ n_rd = 0
  /\ bus' = vdp.status
  /\ Served(ControlRead(vdp))

VdpControlWrite ==
  /\ Acting /\ port = "control" /\ n_rd = 1 /\ n_wr = 0
  /\ Served(ControlWrite(vdp, bus))
  /\ UNCHANGED bus

VdpDataRead ==
  /\ Acting /\ port = "data" /\ n_rd = 0
  /\ bus' = vdp.buffer
  /\ Served(DataRead(vdp))

VdpDataWrite ==
  /\ Acting /\ port = "data" /\ n_rd = 1 /\ n_wr = 0
  /\ Served(DataWrite(vdp, bus))
  /\ UNCHANGED bus

VdpCounterRead ==
  /\ Acting /\ port = "counter" /\ n_rd = 0
  /\ bus' \in {vdp.h \div 2, vdp.regs[LINE_COUNTER]}
  /\ Served(vdp)

VdpIdle ==
  /\ vdp.ioreq_done = 0
  /\ \/ n_ioreq = 1
     \/ n_rd = 1 /\ n_wr = 1
     \/ port \in {"sdsc", "other"}
     \/ port = "counter" /\ n_rd = 1
  /\ vdp' = Update(vdp)
  /\ UNCHANGED bus

VdpRearmFault ==                 \* an access is never over
  /\ vdp.ioreq_done = 1
  /\ vdp' = Update(vdp)
  /\ UNCHANGED bus

VdpRearm ==
  /\ vdp.ioreq_done = 1
  /\ vdp' = Update([vdp EXCEPT !.ioreq_done = IF n_ioreq = 1 THEN 0 ELSE 1])
  /\ UNCHANGED bus

VdpTick == \/ VdpControlRead \/ VdpControlWrite \/ VdpDataRead \/ VdpDataWrite
           \/ VdpCounterRead \/ VdpIdle \/ VdpRearm

VdpTurn ==
  /\ turn = "vdp" /\ turn' = "z80"
  /\ edge' = 1 - edge
  /\ IF edge = 0 THEN VdpTick ELSE UNCHANGED <<vdp, bus>>
  /\ UNCHANGED <<vars, port, console, shown, last, count>>

\* Bound: as often as it likes up to the last access, then never.
LineMoves ==
  /\ turn = "z80" /\ count < MAX_ACCESSES
  /\ MoveLine
  /\ UNCHANGED <<turn, edge, vdp, port, bus, console, shown, last, count>>

BusNext == CpuTurn \/ VdpTurn \/ LineMoves

BusSpec == BusInit /\ [][BusNext]_vdpVars
-----------------------------------------------------------------------------
(***************************************************************************)
(* Properties.                                                             *)
(***************************************************************************)

\* vdp.c stays in the range of struct vdp_s: the address never leaves the VRAM,
\* however it is set, and the control latch expects one byte of two.
VdpTypeOK == vdp \in VdpState /\ bus \in PortByte

Answers == port \in {"control", "data"} \/ (port = "counter" /\ n_rd = 0)

\* Although it only looks at every second half-clock, the VDP has acted before
\* the CPU ends the access, whichever half-clocks those are.
ServedInTime ==
  turn = "z80" /\ Ends /\ n_ioreq = 0 /\ Answers => vdp.ioreq_done = 1

\* It is ready for the next access when the CPU requests it: ioreq_done never
\* survives into an access it would suppress.
RearmedInTime == Starts => vdp.ioreq_done = 0

\* Where in its life an access is: n_ioreq and the strobe say what the CPU has
\* done, ioreq_done and the parity of the half-clocks what the VDP has.
Reads(n)  == stage = "M2" /\ m2_tick_count = n
Writes(n) == stage = "M3" /\ m3_tick_count = n
Strobed   == n_rd = 0 \/ n_wr = 0
Acted     == n_ioreq = 0 /\ vdp.ioreq_done = 1

\* ioreq_done is left set for two half-clocks at most, and then between cycles.
Rearming ==
  vdp.ioreq_done = 1 /\ n_ioreq = 1 =>
    IF turn = "vdp" /\ edge = 0
      THEN stage \notin {"M2", "M3"}
      ELSE stage \in {"RESET", "REFRESH"} /\ (turn = "z80" => edge = 0)

\* An access nobody has acted on yet is in the first two half-clocks of its strobe.
Serving ==
  n_ioreq = 0 /\ Answers /\ Strobed /\ vdp.ioreq_done = 0 =>
    \/ (Reads(4) \/ Writes(6)) /\ (turn = "vdp" \/ edge = 0)
    \/ (Reads(5) \/ Writes(7)) /\ turn = "vdp" /\ edge = 0

EffectOn(v) ==
  CASE port = "control" /\ n_rd = 0 -> ControlRead(v)
    [] port = "data" /\ n_rd = 0    -> DataRead(v)
    [] port = "control" /\ n_rd = 1 -> ControlWrite(v, bus)
    [] port = "data" /\ n_rd = 1    -> DataWrite(v, bus)
    [] OTHER                        -> v

\* Whatever is visible of the VDP is what the completed accesses left, and the
\* effect of the one in progress when it has acted on it.
Accounted ==
  /\ Acted => Answers /\ Strobed
  /\ Visible(vdp) = IF Acted THEN Visible(EffectOn(shown.vdp)) ELSE shown.vdp
  /\ Acted /\ n_rd = 0 /\ port = "control" => bus = shown.vdp.status
  /\ Acted /\ n_rd = 0 /\ port = "data" => bus = shown.vdp.buffer
  /\ console = IF n_ioreq = 0 /\ n_rd = 1 /\ port = "sdsc" THEN shown.console + 1
                                                           ELSE shown.console

\* In every half-clock the VDP has acted on the access in progress once or not
\* at all, and which of the two follows from the half-clock and its parity: no
\* byte is taken twice, early, or from the access before.
AccessInv == Rearming /\ Serving /\ Accounted

PortsSpec == INSTANCE VdpPorts

\* Every access to a port has its effect exactly once: a byte written to the
\* data port lands in one cell, a control word is built from the bytes of two
\* accesses, a read returns what the VDP held and advances it by one.
ImplementsPorts == PortsSpec!Spec
=============================================================================
