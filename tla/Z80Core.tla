------------------------------ MODULE Z80Core ------------------------------
(***************************************************************************)
(* z80_tick: the machine cycles of module Z80Cycles, the instruction       *)
(* boundary where the interrupt lines are sampled, and the interrupt       *)
(* cycles of z80/z80_interrupt.c, which push PC and load the vector.       *)
(*                                                                         *)
(* The core is an open system: between two half-clocks the board may drive *)
(* the data bus while RD is low and move the input lines.                  *)
(***************************************************************************)
EXTENDS Z80Cycles

-----------------------------------------------------------------------------
(***************************************************************************)
(* The boundary. z80_tick in RESET clears the pipeline, samples NMI and    *)
(* INT, and runs the first half-clock of the stage it picked.              *)
(***************************************************************************)
ResetTicksFault ==                \* the counts of the last interrupt are kept
  /\ opcode_index' = 0 /\ read_index' = 0 /\ write_index' = 0
  /\ read_is_io' = 0 /\ write_is_io' = 0
  /\ UNCHANGED <<m2_tick_count, m3_tick_count, read_address, write_address,
                 read_buffer, write_buffer, ins>>

ResetReadFault ==                 \* read_index is kept
  /\ opcode_index' = 0 /\ write_index' = 0
  /\ read_is_io' = 0 /\ write_is_io' = 0
  /\ m2_tick_count' = 0 /\ m3_tick_count' = 0
  /\ UNCHANGED <<read_index, read_address, write_address, read_buffer,
                 write_buffer, ins>>

ResetPipeline ==
  /\ opcode_index' = 0 /\ read_index' = 0 /\ write_index' = 0
  /\ read_is_io' = 0 /\ write_is_io' = 0
  /\ m2_tick_count' = 0 /\ m3_tick_count' = 0
  /\ UNCHANGED <<read_address, write_address, read_buffer, write_buffer, ins>>

\* NMI is sampled as a level: a line held low is accepted again and again.
AcceptNmi ==
  /\ stage = "RESET" /\ n_nmi = 0
  /\ ResetPipeline
  /\ iff2' = iff1 /\ iff1' = 0
  /\ stage' = "M1_NMI" /\ m1_tick_count' = 1
  /\ UNCHANGED <<pc, sp, int_mode, control, address, data, inputs>>

IntPending == n_nmi = 1 /\ n_int = 0 /\ iff1 = 1

AcceptInt ==
  /\ stage = "RESET" /\ IntPending /\ int_mode = 1
  /\ ResetPipeline
  /\ iff1' = 0 /\ iff2' = 0
  /\ stage' = "M1_INT" /\ m1_tick_count' = 1
  /\ UNCHANGED <<pc, sp, int_mode, control, address, data, inputs>>

\* Modes 0 and 2 are not implemented: an assertion stops the program, or the
\* stage falls back to RESET with the interrupt gone and both flip-flops clear.
DropInt ==
  /\ stage = "RESET" /\ IntPending /\ int_mode # 1
  /\ ResetPipeline
  /\ iff1' = 0 /\ iff2' = 0
  /\ stage' = IF NDEBUG THEN "RESET" ELSE "ABORTED"
  /\ m1_tick_count' = 0
  /\ UNCHANGED <<pc, sp, int_mode, control, address, data, inputs>>

BeginFetchFault ==                \* INT is not looked at
  /\ stage = "RESET" /\ n_nmi = 1
  /\ ResetPipeline
  /\ stage' = "M1" /\ m1_tick_count' = 1
  /\ n_m1' = 0 /\ n_rfsh' = 1
  /\ UNCHANGED <<regs, n_mreq, n_ioreq, n_rd, n_wr, address, data, inputs>>

BeginFetch ==
  /\ stage = "RESET" /\ n_nmi = 1 /\ ~IntPending
  /\ ResetPipeline
  /\ stage' = "M1" /\ m1_tick_count' = 1
  /\ n_m1' = 0 /\ n_rfsh' = 1
  /\ UNCHANGED <<regs, n_mreq, n_ioreq, n_rd, n_wr, address, data, inputs>>

Boundary == AcceptNmi \/ AcceptInt \/ DropInt \/ BeginFetch
-----------------------------------------------------------------------------
(***************************************************************************)
(* Interrupt cycles. Both kinds count down SP and store the return address *)
(* high byte first; they differ in how long each pin is held.              *)
(***************************************************************************)
PinsOf(a, d, mreq, wr) ==
  /\ address' = a /\ data' = d /\ n_mreq' = mreq /\ n_wr' = wr
  /\ UNCHANGED <<n_m1, n_rfsh, n_ioreq, n_rd>>

IntStoreFault(t, byte) ==         \* MREQ is left low
  \/ t = 0 /\ PinsOf(sp, byte, 0, n_wr)
  \/ t = 1 /\ PinsOf(address, data, n_mreq, 0)
  \/ t = 2 /\ PinsOf(address, data, n_mreq, 1)

IntStore(t, byte) ==
  \/ t = 0 /\ PinsOf(sp, byte, 0, n_wr)
  \/ t = 1 /\ PinsOf(address, data, n_mreq, 0)
  \/ t = 2 /\ PinsOf(address, data, 1, 1)

NmiStore(t, byte) ==
  \/ t = 0 /\ PinsOf(sp, byte, n_mreq, n_wr)
  \/ t = 1 /\ PinsOf(address, data, 0, n_wr)
  \/ t = 2 /\ PinsOf(address, data, n_mreq, 0)
  \/ t = 3 /\ PinsOf(address, data, 1, 1)

IntM1 ==
  /\ stage = "M1_INT"
  /\ IF m1_tick_count < 7
       THEN m1_tick_count' = m1_tick_count + 1 /\ UNCHANGED <<stage, sp>>
       ELSE stage' = "M2_INT" /\ sp' = Plus(sp, WORD - 1)
            /\ UNCHANGED m1_tick_count
  /\ UNCHANGED <<m2_tick_count, m3_tick_count, pipe, pc, iff1, iff2, int_mode,
                 control, address, data, inputs>>

IntM2 ==
  /\ stage = "M2_INT"
  /\ m2_tick_count' = m2_tick_count + 1
  /\ \/ IntStore(m2_tick_count, Hi(pc)) /\ UNCHANGED <<stage, sp>>
     \/ /\ m2_tick_count = 3
        /\ stage' = "M3_INT" /\ sp' = Plus(sp, WORD - 1)
        /\ UNCHANGED <<control, address, data>>
  /\ UNCHANGED <<m1_tick_count, m3_tick_count, pipe, pc, iff1, iff2, int_mode,
                 inputs>>

IntM3 ==
  /\ stage = "M3_INT"
  /\ \/ /\ IntStore(m3_tick_count, Lo(pc))
        /\ m3_tick_count' = m3_tick_count + 1
        /\ UNCHANGED <<stage, pc>>
     \/ /\ m3_tick_count = 3
        /\ stage' = "RESET" /\ pc' = IntVector
        /\ UNCHANGED <<m3_tick_count, control, address, data>>
  /\ UNCHANGED <<m1_tick_count, m2_tick_count, pipe, sp, iff1, iff2, int_mode,
                 inputs>>

NmiM1 ==
  /\ stage = "M1_NMI"
  /\ IF m1_tick_count < 9
       THEN m1_tick_count' = m1_tick_count + 1 /\ UNCHANGED <<stage, sp>>
       ELSE stage' = "M2_NMI" /\ sp' = Plus(sp, WORD - 1)
            /\ UNCHANGED m1_tick_count
  /\ UNCHANGED <<m2_tick_count, m3_tick_count, pipe, pc, iff1, iff2, int_mode,
                 control, address, data, inputs>>

NmiM2 ==
  /\ stage = "M2_NMI"
  /\ \/ /\ m2_tick_count < 5
        /\ m2_tick_count' = m2_tick_count + 1
        /\ UNCHANGED stage
     \/ /\ m2_tick_count = 5
        /\ stage' = "M3_NMI"
        /\ UNCHANGED m2_tick_count
  /\ sp' = IF m2_tick_count = 4 THEN Plus(sp, WORD - 1) ELSE sp
  /\ \/ NmiStore(m2_tick_count, Hi(pc))
     \/ m2_tick_count \in {4, 5} /\ UNCHANGED <<control, address, data>>
  /\ UNCHANGED <<m1_tick_count, m3_tick_count, pipe, pc, iff1, iff2, int_mode,
                 inputs>>

NmiM3 ==
  /\ stage = "M3_NMI"
  /\ \/ /\ m3_tick_count < 5
        /\ m3_tick_count' = m3_tick_count + 1
        /\ UNCHANGED stage
     \/ /\ m3_tick_count = 5
        /\ stage' = "RESET"
        /\ UNCHANGED m3_tick_count
  /\ pc' = IF m3_tick_count = 4 THEN NmiVector ELSE pc
  /\ \/ NmiStore(m3_tick_count, Lo(pc))
     \/ m3_tick_count \in {4, 5} /\ UNCHANGED <<control, address, data>>
  /\ UNCHANGED <<m1_tick_count, m2_tick_count, pipe, sp, iff1, iff2, int_mode,
                 inputs>>

InterruptCycle == IntM1 \/ IntM2 \/ IntM3 \/ NmiM1 \/ NmiM2 \/ NmiM3

Tick == Boundary \/ M1Cycle \/ M2Cycle \/ M3Cycle \/ RefreshCycle
        \/ InterruptCycle
-----------------------------------------------------------------------------
(***************************************************************************)
(* The board. Nothing in the repository drives the input lines outside the *)
(* restore of a savestate, so they may move at any time.                   *)
(***************************************************************************)
DriveData ==
  /\ n_rd = 0
  /\ data' \in Byte
  /\ UNCHANGED <<stage, ticks, pipe, regs, control, address, inputs>>

MoveLine ==
  /\ \/ "wait" \in Lines /\ n_wait' = 1 - n_wait /\ UNCHANGED <<n_int, n_nmi>>
     \/ "int" \in Lines /\ n_int' = 1 - n_int /\ UNCHANGED <<n_wait, n_nmi>>
     \/ "nmi" \in Lines /\ n_nmi' = 1 - n_nmi /\ UNCHANGED <<n_wait, n_int>>
  /\ UNCHANGED <<stage, ticks, pipe, regs, control, address, data>>

Board == DriveData \/ MoveLine

Next == Tick \/ Board

Spec == Init /\ [][Next]_vars

\* The main loop calls z80_tick as long as the clock is running.
FairSpec == Spec /\ WF_vars(Tick)
-----------------------------------------------------------------------------
(***************************************************************************)
(* Properties.                                                             *)
(***************************************************************************)

\* Every variable stays in the range its C type and its use give it.
TypeOK ==
  /\ stage \in Stages
  /\ m1_tick_count \in 0..9 /\ m2_tick_count \in 0..7 /\ m3_tick_count \in 0..7
  /\ opcode_index \in 0..4 /\ read_index \in 0..2 /\ write_index \in 0..2
  /\ read_is_io \in Bit /\ write_is_io \in Bit
  /\ read_address \in Word /\ write_address \in Word
  /\ read_buffer \in Buffer /\ write_buffer \in Buffer
  /\ ins \in Ops \cup {NoOp}
  /\ pc \in Word /\ sp \in Word
  /\ iff1 \in Bit /\ iff2 \in Bit /\ int_mode \in 0..2
  /\ n_m1 \in Bit /\ n_rfsh \in Bit /\ n_mreq \in Bit /\ n_ioreq \in Bit
  /\ n_rd \in Bit /\ n_wr \in Bit
  /\ address \in Word \cup {RefreshAddress} /\ data \in Byte
  /\ n_wait \in Bit /\ n_int \in Bit /\ n_nmi \in Bit

\* The tick counters are shared by the stages and only cleared by some of
\* them, yet no stage ever starts or continues on a count its switch has no
\* case for: the assert(0) after each switch is not reached, and a cycle never
\* starts half way because of what an earlier one left behind.
TicksInRange ==
  /\ stage = "M1" => m1_tick_count \in 0..7 /\ m2_tick_count = 0 /\ m3_tick_count = 0
  /\ stage = "M2" => m2_tick_count \in 0..7 /\ m1_tick_count = 0 /\ m3_tick_count = 0
  /\ stage = "M3" => m3_tick_count \in 0..7 /\ m1_tick_count = 0 /\ m2_tick_count = 0
  /\ stage = "REFRESH" => m1_tick_count \in 0..3
  /\ stage = "M1_INT" => m1_tick_count \in 1..7 /\ m2_tick_count = 0 /\ m3_tick_count = 0
  /\ stage = "M2_INT" => m2_tick_count \in 0..3 /\ m3_tick_count = 0
  /\ stage = "M3_INT" => m3_tick_count \in 0..3
  /\ stage = "M1_NMI" => m1_tick_count \in 1..9 /\ m2_tick_count = 0 /\ m3_tick_count = 0
  /\ stage = "M2_NMI" => m2_tick_count \in 0..5 /\ m3_tick_count = 0
  /\ stage = "M3_NMI" => m3_tick_count \in 0..5

\* An instruction fetches all of its opcode, then reads, then writes, and no
\* cycle is started that its operation did not ask for.
CycleOrder ==
  /\ stage = "M1" =>
       /\ read_index = 0 /\ write_index = 0
       /\ opcode_index > 0 => ins \in Ops /\ opcode_index < ins.size
  /\ stage = "M2" =>
       /\ ins \in Ops /\ opcode_index = ins.size
       /\ read_index < ins.reads /\ write_index = 0
  /\ stage = "M3" =>
       /\ ins \in Ops /\ opcode_index = ins.size /\ read_index = ins.reads
       /\ IF m3_tick_count \in {0, 1} THEN write_index < ins.writes
                                      ELSE write_index \in 1..ins.writes

\* The bounds asserted where the pipeline buffers are used: the opcode byte
\* about to be latched, the byte about to be read and the byte about to be put
\* on the bus have a place in opcode[4], read_buffer[2] and write_buffer[2].
BuffersFit ==
  /\ stage = "M1" => opcode_index < 4
  /\ stage = "M2" => read_index < 2
  /\ stage = "M3" /\ m3_tick_count = 1 => write_index < 2

\* Two strobes or two requests at once would make memory and a port, or a
\* reader and a writer, answer the same cycle; ram.c and rom.c assert that
\* they never see both strobes. A strobe is always qualified by a request.
BusExclusive ==
  /\ ~(n_rd = 0 /\ n_wr = 0)
  /\ ~(n_mreq = 0 /\ n_ioreq = 0)
  /\ n_rd = 0 \/ n_wr = 0 => n_mreq = 0 \/ n_ioreq = 0

\* Nothing is left asserted when an instruction or an interrupt ends.
BusIdleAtBoundary ==
  stage \in {"RESET", "ABORTED"} =>
    n_m1 = 1 /\ n_mreq = 1 /\ n_ioreq = 1 /\ n_rd = 1 /\ n_wr = 1

\* While M3 holds WR low, the buses carry the byte and the address of the
\* write in progress, in the space the instruction asked for.
WriteCarriesBuffer ==
  stage = "M3" /\ n_wr = 0 =>
    /\ address = write_address /\ data = write_buffer[write_index - 1]
    /\ n_ioreq = 1 - write_is_io /\ n_mreq = write_is_io

\* While M2 holds RD low the request stays the one the read began with, even
\* after the forced wait has cleared read_is_io.
ReadKeepsSpace ==
  stage = "M2" /\ n_rd = 0 =>
    address = read_address /\ n_ioreq = 1 - ins.rio /\ n_mreq = ins.rio

\* A device may latch a write or answer a read on any half-clock of a strobe:
\* what qualifies the strobe does not move while it lasts.
StrobeHolds ==
  [][/\ n_wr = 0 /\ n_wr' = 0 => UNCHANGED <<address, data, n_mreq, n_ioreq>>
     /\ n_rd = 0 /\ n_rd' = 0 => UNCHANGED <<address, n_mreq, n_ioreq>>]_vars

(***************************************************************************)
(* The inductive invariant: which pins are low in each half-clock of each  *)
(* cycle, and what the buses carry then. Module Z80CoreProofs rests on it. *)
(***************************************************************************)
Low(m1, mreq, ioreq, rd, wr) ==
  /\ n_m1 = 1 - m1 /\ n_mreq = 1 - mreq /\ n_ioreq = 1 - ioreq
  /\ n_rd = 1 - rd /\ n_wr = 1 - wr

AllHigh      == Low(0, 0, 0, 0, 0)
FetchRead    == Low(1, 1, 0, 1, 0) /\ address = pc
Reading(io)  == Low(0, 1 - io, io, 1, 0) /\ address = read_address
Writing(io, wr) == /\ Low(0, 1 - io, io, 0, wr)
                   /\ address = write_address
                   /\ data = write_buffer[write_index - 1]
Storing(t)   == CASE t = 1 -> Low(0, 1, 0, 0, 0)
                  [] t = 2 -> Low(0, 1, 0, 0, 1)
                  [] OTHER -> AllHigh

FetchPins ==
  stage = "M1" =>
    /\ m1_tick_count = 0 => AllHigh
    /\ m1_tick_count = 1 => Low(1, 0, 0, 0, 0) \/ FetchRead
    /\ m1_tick_count \in 2..4 => FetchRead
    /\ m1_tick_count = 5 => AllHigh
    /\ m1_tick_count \in 6..7 => Low(0, 1, 0, 0, 0)

ReadPins ==
  stage = "M2" =>
    /\ m2_tick_count \in 0..1 => AllHigh /\ read_is_io = ins.rio
    /\ m2_tick_count = 1 => address = read_address
    /\ m2_tick_count \in 2..7 => Reading(ins.rio) /\ read_is_io <= ins.rio

WritePins ==
  stage = "M3" =>
    /\ m3_tick_count \in 0..1 => AllHigh
    /\ m3_tick_count = 1 => address = write_address
    /\ m3_tick_count \in 2..5 => Writing(write_is_io, 0)
    /\ m3_tick_count \in 6..7 => Writing(write_is_io, 1)

OtherPins ==
  /\ stage \in {"RESET", "ABORTED", "M1_INT", "M1_NMI"} => AllHigh
  /\ stage = "REFRESH" => IF m1_tick_count < 2 THEN AllHigh
                                               ELSE Low(0, 1, 0, 0, 0)
  /\ stage = "M2_INT" => Storing(m2_tick_count)
  /\ stage = "M3_INT" => Storing(m3_tick_count)
  /\ stage = "M2_NMI" => Storing(m2_tick_count - 1)
  /\ stage = "M3_NMI" => Storing(m3_tick_count - 1)

\* The pins and buses are a function of the cycle and its tick count, however
\* the instruction, the wait states and the interrupts led there: what another
\* chip sees in a half-clock never depends on what an earlier cycle left low.
PinsFollowCycle == FetchPins /\ ReadPins /\ WritePins /\ OtherPins

IInv == TypeOK /\ TicksInRange /\ CycleOrder /\ PinsFollowCycle

\* What can keep an instruction from ending: a WAIT line that comes back low,
\* and an opcode that never gets past its DD and FD prefixes.
HeldUp == []<>(n_wait = 0) \/ []<><<M1DropPrefix>>_vars

\* Every instruction and every interrupt reaches its boundary.
InstructionsEnd == HeldUp \/ []<>(stage = "RESET")

\* An INT that stays low while interrupts are enabled and no NMI claims the
\* boundary is acknowledged: IntPending ends, by the acknowledge clearing IFF1
\* or because the line, the program or an NMI withdrew it.
PendingIntEnds == HeldUp \/ (IntPending ~> ~IntPending)

(***************************************************************************)
(* What comments and documents say, and the code does not do.              *)
(***************************************************************************)

\* z80.c says a read that is not IO skips the two cases of the forced wait.
MemoryReadSkipsForcedWait ==
  stage = "M2" /\ ins.rio = 0 => m2_tick_count \notin {2, 3}
=============================================================================
