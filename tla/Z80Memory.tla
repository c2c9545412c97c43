----------------------------- MODULE Z80Memory -----------------------------
(***************************************************************************)
(* The Z80 and its memory as the main loop of sms-ui/smsui.cxx runs them:  *)
(* each half-clock is a z80_tick, after which the memory and port handlers *)
(* look at the pins. The CPU only meets its memory through the pins, so    *)
(* whether an instruction reads and writes what it should depends on the   *)
(* half-clock in which each pin moves.                                     *)
(*                                                                         *)
(* Memory is seen through the power-on map: cartridge and RAM enabled, the *)
(* three slots in order. Ports answer with any byte.                       *)
(***************************************************************************)
EXTENDS Z80Core

CONSTANTS BASE, RAM_SIZE

ASSUME MapAssumption ==
  /\ BASE \in 0..WORD /\ RAM_SIZE \in Nat \ {0}
  /\ BASE + RAM_SIZE <= WORD

VARIABLES
  turn,    \* who runs next in the body of the loop
  mem,     \* rom_image below BASE, ram_image from BASE on
  start    \* history: registers and memory at the last boundary

loopVars == <<vars, turn, mem, start>>

Cells   == 0..(BASE + RAM_SIZE - 1)
Cell(a) == IF a < BASE THEN a ELSE BASE + ((a - BASE) % RAM_SIZE)

Machine == [pc |-> pc, sp |-> sp, iff1 |-> iff1, iff2 |-> iff2,
            int_mode |-> int_mode, mem |-> mem]

LoopInit ==
  /\ Init
  /\ turn = "z80"
  /\ mem = [c \in Cells |-> IF c < BASE THEN c % BYTE ELSE 0]
  /\ start = Machine

CpuTurn ==
  /\ turn = "z80" /\ Tick
  /\ turn' = "devices"
  /\ start' = IF stage = "RESET" THEN Machine ELSE start
  /\ UNCHANGED mem

SelectedFault(request) == request = 0    \* the strobes are not looked at

Selected(request) == request = 0 /\ (n_rd = 0 \/ n_wr = 0)

ReadMemory ==
  /\ Selected(n_mreq) /\ n_rd = 0
  /\ data' = mem[Cell(address)]
  /\ UNCHANGED mem

WriteMemory ==
  /\ Selected(n_mreq) /\ n_rd = 1
  /\ mem' = IF address < BASE THEN mem ELSE [mem EXCEPT ![Cell(address)] = data]
  /\ UNCHANGED data

PortCycle ==
  /\ Selected(n_ioreq)
  /\ IF n_rd = 0 THEN data' \in Byte ELSE UNCHANGED data
  /\ UNCHANGED mem

NobodySelected ==
  /\ ~Selected(n_mreq) /\ ~Selected(n_ioreq)
  /\ UNCHANGED <<data, mem>>

DevicesTurn ==
  /\ turn = "devices" /\ turn' = "z80"
  /\ ReadMemory \/ WriteMemory \/ PortCycle \/ NobodySelected
  /\ UNCHANGED <<stage, ticks, pipe, regs, control, address, inputs, start>>

LineMoves == turn = "z80" /\ MoveLine /\ UNCHANGED <<turn, mem, start>>

LoopNext == CpuTurn \/ DevicesTurn \/ LineMoves

LoopSpec == LoopInit /\ [][LoopNext]_loopVars
-----------------------------------------------------------------------------
(***************************************************************************)
(* Properties.                                                             *)
(***************************************************************************)

\* What the program sees: the machine at a boundary, and between boundaries
\* the machine the current instruction or interrupt started from.
Seen == IF stage \in {"RESET", "ABORTED"} THEN Machine ELSE start

ISA == INSTANCE Z80Isa WITH machine <- Seen

\* However its cycles, wait states and device answers interleave, every
\* instruction and every interrupt is one step of the instruction set: it reads
\* what memory held, writes each byte it should and nothing else, and leaves PC,
\* SP and the flip-flops as its operation says.
ImplementsIsa == ISA!Spec

(***************************************************************************)
(* The inductive invariant: how far the instruction or the interrupt that  *)
(* began in start has come. Module Z80MemoryProofs rests on it.            *)
(***************************************************************************)
Untouched == /\ sp = start.sp /\ iff1 = start.iff1 /\ iff2 = start.iff2
             /\ int_mode = start.int_mode

\* PC is pc1 after n bytes of the opcode of op, and d prefixes dropped before it.
Fetched(op, n, pc1) ==
  \E d \in ISA!Dropped(op) : pc1 = Plus(start.pc, n + d)

\* The first n bytes of buf come from where op reads.
ReadFrom(op, from, n, buf) ==
  op.rio = 0 => \A i \in 0..(n - 1) : buf[i] = ISA!Load(start.mem, Plus(from, i))

InputOf(op, buf) == [i \in 0..(op.reads - 1) |-> buf[i]]

\* The write buffer holds what op puts out, with PC and the read buffer as given.
Prepared(op, pc1, buf, out) ==
  \E o \in ISA!Output(op, pc1, InputOf(op, buf)) :
    \A i \in 0..(op.writes - 1) : o[i] = out[i]

\* Memory with the first n bytes of out written from to on.
Stored(op, to, out, n) ==
  IF op.wio = 1 \/ n = 0 THEN start.mem
  ELSE IF n = 1 THEN ISA!Store(start.mem, to, out[0])
  ELSE ISA!Store(ISA!Store(start.mem, to, out[0]), Plus(to, 1), out[1])

\* The byte that M3 is about, and how many are in memory.
Current  == IF m3_tick_count \in 0..1 THEN write_index ELSE write_index - 1
InMemory == IF m3_tick_count = 7 \/ (m3_tick_count = 6 /\ turn = "z80")
              THEN Current + 1 ELSE Current

FetchProgress ==
  stage = "M1" =>
    /\ Untouched /\ mem = start.mem
    /\ opcode_index = 0 => pc = start.pc
    /\ opcode_index # 0 => Fetched(ins, opcode_index, pc)

ReadProgress ==
  stage = "M2" =>
    /\ Untouched /\ mem = start.mem
    /\ Fetched(ins, ins.size, pc)
    /\ \E from \in ISA!Source(start, ins) :
         /\ read_address = Plus(from, read_index)
         /\ ReadFrom(ins, from, read_index, read_buffer)
    /\ turn = "z80" /\ m2_tick_count \in 2..7 /\ ins.rio = 0 =>
         data = mem[Cell(read_address)]

WriteProgress ==
  stage = "M3" =>
    /\ Untouched
    /\ Fetched(ins, ins.size, pc)
    /\ Prepared(ins, pc, read_buffer, write_buffer)
    /\ \E from \in ISA!Source(start, ins) :
         /\ ReadFrom(ins, from, ins.reads, read_buffer)
         /\ \E to \in ISA!Target(start, ins, from) :
              /\ ins.wio = 0 => write_address = Plus(to, Current)
              /\ mem = Stored(ins, to, write_buffer, InMemory)
    /\ write_is_io = ins.wio

\* The instruction is over but for its refresh.
RefreshProgress ==
  stage = "REFRESH" => \E op \in Ops : ISA!Executed(start, op, Machine)

\* Memory with the first n bytes of the return address pushed.
Pushed(n) ==
  IF n = 0 THEN start.mem
  ELSE IF n = 1 THEN ISA!Store(start.mem, Plus(start.sp, WORD - 1), Hi(start.pc))
  ELSE ISA!PushPc(start)

\* WR is low in the half-clock of count low: the devices then write.
Landed(t, low) == IF t > low \/ (t = low /\ turn = "z80") THEN 1 ELSE 0

Pushing(t, low, byte, n) ==
  /\ sp = Plus(start.sp, WORD - 1 - n)
  /\ t \in 1..low => address = sp /\ data = byte
  /\ mem = Pushed(n + Landed(t, low))

IntProgress ==
  /\ stage \in {"M1_INT", "M2_INT", "M3_INT"} =>
       /\ start.iff1 = 1 /\ start.int_mode = 1
       /\ iff1 = 0 /\ iff2 = 0 /\ int_mode = 1 /\ pc = start.pc
  /\ stage = "M1_INT" => sp = start.sp /\ mem = start.mem
  /\ stage = "M2_INT" => Pushing(m2_tick_count, 2, Hi(start.pc), 0)
  /\ stage = "M3_INT" => Pushing(m3_tick_count, 2, Lo(start.pc), 1)

NmiProgress ==
  /\ stage \in {"M1_NMI", "M2_NMI", "M3_NMI"} =>
       iff1 = 0 /\ iff2 = start.iff1 /\ int_mode = start.int_mode
  /\ stage \in {"M1_NMI", "M2_NMI"} => pc = start.pc
  /\ stage = "M1_NMI" => sp = start.sp /\ mem = start.mem
  /\ stage = "M2_NMI" =>
       IF m2_tick_count = 5 THEN sp = Plus(start.sp, WORD - 2) /\ mem = Pushed(1)
                            ELSE Pushing(m2_tick_count, 3, Hi(start.pc), 0)
  /\ stage = "M3_NMI" =>
       /\ pc = IF m3_tick_count = 5 THEN NmiVector ELSE start.pc
       /\ Pushing(m3_tick_count, 3, Lo(start.pc), 1)

LoopTypeOK ==
  /\ turn \in {"z80", "devices"}
  /\ mem \in [Cells -> Byte]
  /\ start.pc \in Word /\ start.sp \in Word /\ start.mem \in [Cells -> Byte]

Progress == /\ FetchProgress /\ ReadProgress /\ WriteProgress /\ RefreshProgress
            /\ IntProgress /\ NmiProgress

LoopInv == IInv /\ LoopTypeOK /\ Progress
=============================================================================
