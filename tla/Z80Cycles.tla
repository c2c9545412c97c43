----------------------------- MODULE Z80Cycles -----------------------------
(***************************************************************************)
(* The machine cycles of the Z80 (z80/z80.c, z80/z80_decoder.c), one       *)
(* action per case of the switch a half-clock executes. Module Z80Core     *)
(* adds the instruction boundary and the interrupt cycles.                 *)
(*                                                                         *)
(* An instruction is a chain of machine cycles: M1 fetches an opcode byte, *)
(* M2 reads a byte, M3 writes one, REFRESH refreshes the DRAM. Each cycle  *)
(* keeps its own tick counter, which the next cycle of any kind inherits   *)
(* unless somebody clears it, and drives the pins the other chips look at. *)
(* At an instruction boundary (RESET) the interrupt lines are sampled.     *)
(*                                                                         *)
(* Pins are active low and keep the names of the code without the z80_     *)
(* prefix. Data is abstract: BYTE stands for 256, an instruction for its   *)
(* bus template (module Z80Ops). The I and R registers are only ever seen  *)
(* as the refresh address.                                                 *)
(*                                                                         *)
(* A definition whose name ends in Fault is a wrong version of the one it  *)
(* precedes; nothing uses it. Each property is checked to fail on one.     *)
(***************************************************************************)
EXTENDS Z80Ops

CONSTANTS
  BYTE,        \* number of byte values; a word has BYTE * BYTE
  Ops,         \* the instructions the program is made of
  Lines,       \* the input lines the board drives, of {"wait", "int", "nmi"}
  IntVector,   \* 0x0038
  NmiVector,   \* 0x0066
  NDEBUG       \* whether assert() is compiled out

Byte == 0..(BYTE - 1)
WORD == BYTE * BYTE
Word == 0..(WORD - 1)

ASSUME ByteAssumption   == BYTE \in Nat \ {0}

\* A prefix is a byte of its own. Only one byte is ever read from a port: the
\* forced wait of an IO read consumes read_is_io, so a second one would read
\* memory.
ASSUME OpsAssumption ==
  /\ Ops \subseteq Template
  /\ \A op \in Ops : /\ op.prefix # "none" => op.size > 1
                     /\ op.rio = 1 => op.reads < 2

\* What is written back goes where the one byte read came from; a block copy
\* moves one byte; a return pops two.
ASSUME EffectAssumption ==
  \A op \in Ops : /\ op.eff = "rmw" => op.reads = 1
                  /\ op.eff = "repeat" => op.reads = 1 /\ op.writes < 2
                  /\ op.eff \in {"ret", "retn"} => op.reads = 2

ASSUME VectorAssumption == IntVector \in Word /\ NmiVector \in Word

VARIABLES
  \* struct z80_s: the stage machine and the pipeline
  stage, m1_tick_count, m2_tick_count, m3_tick_count,
  opcode_index, read_index, write_index,
  read_is_io, write_is_io, read_address, write_address,
  read_buffer, write_buffer,
  ins,                    \* the template z80.opcode[] encodes, or NoOp
  \* registers
  pc, sp, iff1, iff2, int_mode,
  \* output pins and buses
  n_m1, n_rfsh, n_mreq, n_ioreq, n_rd, n_wr, address, data,
  \* input pins
  n_wait, n_int, n_nmi

ticks   == <<m1_tick_count, m2_tick_count, m3_tick_count>>
indices == <<opcode_index, read_index, write_index>>
operand == <<read_is_io, write_is_io, read_address, write_address,
             read_buffer, write_buffer>>
pipe    == <<indices, operand, ins>>
regs    == <<pc, sp, iff1, iff2, int_mode>>
control == <<n_m1, n_rfsh, n_mreq, n_ioreq, n_rd, n_wr>>
inputs  == <<n_wait, n_int, n_nmi>>
vars    == <<stage, ticks, pipe, regs, control, address, data, inputs>>

Stages == {"RESET", "M1", "M2", "M3", "REFRESH", "M1_INT", "M2_INT", "M3_INT",
           "M1_NMI", "M2_NMI", "M3_NMI", "ABORTED"}
Bit    == 0..1
Buffer == [0..1 -> Byte]

\* No instruction is being fetched.
NoOp == [prefix |-> "none", size |-> 0, reads |-> 0, rio |-> 0, writes |-> 0,
         wio |-> 0, last |-> "RESET", eff |-> "none"]

\* I and R on the address bus: no cycle strobes it, so one value is enough.
RefreshAddress == WORD

Lo(w)       == w % BYTE
Hi(w)       == w \div BYTE
Pair(b)     == b[0] + BYTE * b[1]
PlusFault(w, n) == w + n          \* the 16-bit wrap is forgotten
Plus(w, n)  == (w + n) % WORD
-----------------------------------------------------------------------------
Init ==
  /\ stage = "RESET"
  /\ m1_tick_count = 0 /\ m2_tick_count = 0 /\ m3_tick_count = 0
  /\ opcode_index = 0 /\ read_index = 0 /\ write_index = 0
  /\ read_is_io = 0 /\ write_is_io = 0
  /\ read_address = 0 /\ write_address = 0
  /\ read_buffer = [i \in 0..1 |-> 0] /\ write_buffer = [i \in 0..1 |-> 0]
  /\ ins = NoOp
  /\ pc = 0 /\ sp = WORD - 1 /\ iff1 = 1 /\ iff2 = 1 /\ int_mode = 0
  /\ n_m1 = 1 /\ n_rfsh = 1 /\ n_mreq = 1 /\ n_ioreq = 1 /\ n_rd = 1 /\ n_wr = 1
  /\ address = 0 /\ data = 0
  /\ n_wait = 1 /\ n_int = 1 /\ n_nmi = 1
-----------------------------------------------------------------------------
(***************************************************************************)
(* Decoding. z80_instruction_decode is called with the indices of the      *)
(* bytes moved so far (n opcode bytes, r read, w written), the PC pc1 and  *)
(* the read buffer buf, those the calling cycle has just updated included. *)
(***************************************************************************)
ReadOperand(op) ==
  IF op.eff \in {"ret", "retn", "pop", "exsp"} THEN {sp} ELSE Word

WriteOperand(op) ==
  CASE op.eff \in {"call", "push"} -> {Plus(sp, WORD - 2)}
    [] op.eff = "exsp"             -> {sp}
    [] op.eff = "rmw"              -> {read_address}
    [] OTHER                       -> Word

WriteDataFault(op, pc1, buf) ==   \* the return address is stored high byte first
  CASE op.eff = "call"   -> {[i \in 0..1 |-> IF i = 0 THEN Hi(pc1) ELSE Lo(pc1)]}
    [] op.eff = "repeat" -> {[write_buffer EXCEPT ![0] = buf[0]]}
    [] op.writes = 1 /\ op.eff \notin {"call", "repeat"} ->
         {[write_buffer EXCEPT ![0] = b] : b \in Byte}
    [] OTHER             -> Buffer

WriteData(op, pc1, buf) ==
  CASE op.eff = "call"   -> {[i \in 0..1 |-> IF i = 0 THEN Lo(pc1) ELSE Hi(pc1)]}
    [] op.eff = "repeat" -> {[write_buffer EXCEPT ![0] = buf[0]]}
    [] op.writes = 1 /\ op.eff \notin {"call", "repeat"} ->
         {[write_buffer EXCEPT ![0] = b] : b \in Byte}
    [] OTHER             -> Buffer

NeedOpcodeFault(op, n, pc1) ==    \* one byte too many
  /\ n <= op.size
  /\ stage' = "M1" /\ pc' = pc1 /\ ins' = op
  /\ UNCHANGED <<sp, iff1, iff2, int_mode, read_is_io, read_address,
                 write_is_io, write_address, write_buffer>>

NeedOpcode(op, n, pc1) ==
  /\ n < op.size
  /\ stage' = "M1" /\ pc' = pc1 /\ ins' = op
  /\ UNCHANGED <<sp, iff1, iff2, int_mode, read_is_io, read_address,
                 write_is_io, write_address, write_buffer>>

NeedRead(op, n, r, pc1) ==
  /\ n = op.size /\ r < op.reads
  /\ stage' = "M2" /\ pc' = pc1 /\ ins' = op
  /\ \/ r = 0 /\ read_is_io' = op.rio /\ read_address' \in ReadOperand(op)
     \/ r # 0 /\ read_address' = Plus(read_address, 1) /\ UNCHANGED read_is_io
  /\ UNCHANGED <<sp, iff1, iff2, int_mode,
                 write_is_io, write_address, write_buffer>>

NeedWrite(op, n, r, w, pc1, buf) ==
  /\ n = op.size /\ r = op.reads /\ w < op.writes
  /\ stage' = "M3" /\ pc' = pc1 /\ ins' = op
  /\ \/ /\ w = 0
        /\ write_is_io' = op.wio
        /\ write_address' \in WriteOperand(op)
        /\ write_buffer' \in WriteData(op, pc1, buf)
     \/ /\ w # 0
        /\ write_address' = Plus(write_address, 1)
        /\ UNCHANGED <<write_is_io, write_buffer>>
  /\ UNCHANGED <<sp, iff1, iff2, int_mode, read_is_io, read_address>>

NextPc(op, pc1, buf) ==
  CASE op.eff \in {"jump", "call"} -> Word
    [] op.eff \in {"ret", "retn"}  -> {Pair(buf)}
    [] op.eff = "repeat"           -> {pc1, Plus(pc1, WORD - 2)}
    [] OTHER                       -> {pc1}

NextSp(op) ==
  CASE op.eff \in {"ret", "retn", "pop"} -> {Plus(sp, 2)}
    [] op.eff \in {"call", "push"}       -> {Plus(sp, WORD - 2)}
    [] op.eff = "ldsp"                   -> Word
    [] OTHER                             -> {sp}

Retire(op, n, r, w, pc1, buf) ==
  /\ n = op.size /\ r = op.reads /\ w = op.writes
  /\ stage' = op.last /\ ins' = NoOp
  /\ pc' \in NextPc(op, pc1, buf)
  /\ sp' \in NextSp(op)
  /\ iff1' = CASE op.eff = "ei"   -> 1
               [] op.eff = "di"   -> 0
               [] op.eff = "retn" -> iff2
               [] OTHER           -> iff1
  /\ int_mode' \in (IF op.eff = "im" THEN 0..2 ELSE {int_mode})
  /\ UNCHANGED <<iff2, read_is_io, read_address,
                 write_is_io, write_address, write_buffer>>

Decode(op, n, r, w, pc1, buf) ==
  \/ NeedOpcode(op, n, pc1)
  \/ NeedRead(op, n, r, pc1)
  \/ NeedWrite(op, n, r, w, pc1, buf)
  \/ Retire(op, n, r, w, pc1, buf)
-----------------------------------------------------------------------------
(***************************************************************************)
(* M1: opcode fetch. Eight half-clocks, two more per wait state sampled.   *)
(***************************************************************************)
M1Start ==
  /\ stage = "M1" /\ m1_tick_count = 0
  /\ n_m1' = 0 /\ n_rfsh' = 1
  /\ m1_tick_count' = 1
  /\ UNCHANGED <<stage, m2_tick_count, m3_tick_count, pipe, regs, n_mreq,
                 n_ioreq, n_rd, n_wr, address, data, inputs>>

M1Request ==
  /\ stage = "M1" /\ m1_tick_count = 1
  /\ address' = pc /\ n_mreq' = 0 /\ n_rd' = 0
  /\ m1_tick_count' = 2
  /\ UNCHANGED <<stage, m2_tick_count, m3_tick_count, pipe, regs, n_m1,
                 n_rfsh, n_ioreq, n_wr, data, inputs>>

M1Idle ==
  /\ stage = "M1" /\ m1_tick_count \in {2, 6}
  /\ m1_tick_count' = m1_tick_count + 1
  /\ UNCHANGED <<stage, m2_tick_count, m3_tick_count, pipe, regs, control,
                 address, data, inputs>>

M1SampleWait ==
  /\ stage = "M1" /\ m1_tick_count = 3
  /\ m1_tick_count' = IF n_wait = 0 THEN 1 ELSE 4
  /\ UNCHANGED <<stage, m2_tick_count, m3_tick_count, pipe, regs, control,
                 address, data, inputs>>

M1LatchFault ==                   \* RD is still low when the address moves on
  /\ stage = "M1" /\ m1_tick_count = 4
  /\ n_mreq' = 1 /\ n_m1' = 1 /\ n_rfsh' = 0
  /\ address' = RefreshAddress
  /\ m1_tick_count' = 5
  /\ UNCHANGED <<stage, m2_tick_count, m3_tick_count, pipe, regs, n_ioreq,
                 n_rd, n_wr, data, inputs>>

M1Latch ==
  /\ stage = "M1" /\ m1_tick_count = 4
  /\ n_mreq' = 1 /\ n_rd' = 1 /\ n_m1' = 1 /\ n_rfsh' = 0
  /\ address' = RefreshAddress
  /\ m1_tick_count' = 5
  /\ UNCHANGED <<stage, m2_tick_count, m3_tick_count, pipe, regs, n_ioreq,
                 n_wr, data, inputs>>

M1Refresh ==
  /\ stage = "M1" /\ m1_tick_count = 5
  /\ n_mreq' = 0
  /\ m1_tick_count' = 6
  /\ UNCHANGED <<stage, m2_tick_count, m3_tick_count, pipe, regs, n_m1,
                 n_rfsh, n_ioreq, n_rd, n_wr, address, data, inputs>>

\* The last half-clock of M1 up to the decoder.
OpcodeLatched ==
  /\ stage = "M1" /\ m1_tick_count = 7
  /\ n_mreq' = 1
  /\ m1_tick_count' = 0
  /\ UNCHANGED <<m2_tick_count, m3_tick_count, read_index, write_index,
                 read_buffer, n_m1, n_rfsh, n_ioreq, n_rd, n_wr, address,
                 data, inputs>>

\* The first byte settles which template the opcode will turn out to encode.
M1Decode ==
  /\ OpcodeLatched
  /\ opcode_index' = opcode_index + 1
  /\ \E op \in IF opcode_index = 0 THEN Ops ELSE {ins} :
       Decode(op, opcode_index + 1, read_index, write_index, Plus(pc, 1),
              read_buffer)

\* DD or FD before another DD, ED or FD: the first prefix is dropped and the
\* one that follows it opens the opcode.
M1DropPrefix ==
  /\ OpcodeLatched
  /\ opcode_index = 1 /\ ins.prefix = "ix"
  /\ opcode_index' = 1
  /\ ins' \in {op \in Ops : op.prefix \in {"ix", "ed"}}
  /\ pc' = Plus(pc, 1)
  /\ UNCHANGED <<stage, sp, iff1, iff2, int_mode, read_is_io, read_address,
                 write_is_io, write_address, write_buffer>>

M1Cycle == \/ M1Start \/ M1Request \/ M1Idle \/ M1SampleWait \/ M1Latch
           \/ M1Refresh \/ M1Decode \/ M1DropPrefix
-----------------------------------------------------------------------------
(***************************************************************************)
(* M2: read. Memory reads run through the cases 0..7. IO reads skip 2 and  *)
(* 3 and take the forced wait in case 5, which also consumes read_is_io.   *)
(***************************************************************************)
M2Address ==
  /\ stage = "M2" /\ m2_tick_count = 0
  /\ address' = read_address
  /\ m2_tick_count' = 1
  /\ UNCHANGED <<stage, m1_tick_count, m3_tick_count, pipe, regs, control,
                 data, inputs>>

M2Request ==
  /\ stage = "M2" /\ m2_tick_count = 1
  /\ IF read_is_io = 1 THEN n_ioreq' = 0 /\ UNCHANGED n_mreq
                       ELSE n_mreq' = 0 /\ UNCHANGED n_ioreq
  /\ n_rd' = 0
  /\ m2_tick_count' = IF read_is_io = 1 THEN 4 ELSE 2
  /\ UNCHANGED <<stage, m1_tick_count, m3_tick_count, pipe, regs, n_m1,
                 n_rfsh, n_wr, address, data, inputs>>

M2Idle ==
  /\ stage = "M2" /\ m2_tick_count \in {2, 3, 4, 6}
  /\ m2_tick_count' = m2_tick_count + 1
  /\ UNCHANGED <<stage, m1_tick_count, m3_tick_count, pipe, regs, control,
                 address, data, inputs>>

M2WaitFault ==                    \* the forced wait is never consumed
  m2_tick_count' = 4 /\ UNCHANGED read_is_io

M2RestartFault ==                 \* a wait goes back to the request
  m2_tick_count' = 1 /\ read_is_io' = 0

M2Wait == m2_tick_count' = 4 /\ read_is_io' = 0

M2SampleWait ==
  /\ stage = "M2" /\ m2_tick_count = 5
  /\ IF n_wait = 0 \/ read_is_io = 1
       THEN M2Wait
       ELSE m2_tick_count' = 6 /\ UNCHANGED read_is_io
  /\ UNCHANGED <<stage, m1_tick_count, m3_tick_count, indices, write_is_io,
                 read_address, write_address, read_buffer, write_buffer, ins,
                 regs, control, address, data, inputs>>

EndReadFault == n_mreq' = 1 /\ n_ioreq' = 1 /\ UNCHANGED n_rd  \* RD stays low
EndRead      == n_mreq' = 1 /\ n_ioreq' = 1 /\ n_rd' = 1

M2Done ==
  /\ stage = "M2" /\ m2_tick_count = 7
  /\ read_buffer' = [read_buffer EXCEPT ![read_index] = data]
  /\ read_index' = read_index + 1
  /\ EndRead
  /\ m2_tick_count' = 0
  /\ Decode(ins, opcode_index, read_index + 1, write_index, pc,
            [read_buffer EXCEPT ![read_index] = data])
  /\ UNCHANGED <<m1_tick_count, m3_tick_count, opcode_index, write_index,
                 n_m1, n_rfsh, n_wr, address, data, inputs>>

M2Cycle == M2Address \/ M2Request \/ M2Idle \/ M2SampleWait \/ M2Done
-----------------------------------------------------------------------------
(***************************************************************************)
(* M3: write. Memory writes skip the cases 2 and 3, the forced IO wait.    *)
(***************************************************************************)
WriteTargetFault == IF write_index = 0 THEN write_address ELSE address
WriteTarget      == write_address

M3Address ==
  /\ stage = "M3" /\ m3_tick_count = 0
  /\ address' = WriteTarget
  /\ m3_tick_count' = 1
  /\ UNCHANGED <<stage, m1_tick_count, m2_tick_count, pipe, regs, control,
                 data, inputs>>

M3Request ==
  /\ stage = "M3" /\ m3_tick_count = 1
  /\ IF write_is_io = 1 THEN n_ioreq' = 0 /\ UNCHANGED n_mreq
                        ELSE n_mreq' = 0 /\ UNCHANGED n_ioreq
  /\ data' = write_buffer[write_index]
  /\ write_index' = write_index + 1
  /\ m3_tick_count' = IF write_is_io = 1 THEN 2 ELSE 4
  /\ UNCHANGED <<stage, m1_tick_count, m2_tick_count, opcode_index,
                 read_index, operand, ins, regs, n_m1, n_rfsh, n_rd, n_wr,
                 address, inputs>>

M3Idle ==
  /\ stage = "M3" /\ m3_tick_count \in {2, 3, 4, 6}
  /\ m3_tick_count' = m3_tick_count + 1
  /\ UNCHANGED <<stage, m1_tick_count, m2_tick_count, pipe, regs, control,
                 address, data, inputs>>

M3SampleWaitFault ==              \* WR is low for one half-clock only
  /\ stage = "M3" /\ m3_tick_count = 5
  /\ IF n_wait = 0 THEN m3_tick_count' = 4 /\ UNCHANGED n_wr
                   ELSE m3_tick_count' = 7 /\ n_wr' = 0
  /\ UNCHANGED <<stage, m1_tick_count, m2_tick_count, pipe, regs, n_m1,
                 n_rfsh, n_mreq, n_ioreq, n_rd, address, data, inputs>>

M3SampleWait ==
  /\ stage = "M3" /\ m3_tick_count = 5
  /\ IF n_wait = 0 THEN m3_tick_count' = 4 /\ UNCHANGED n_wr
                   ELSE m3_tick_count' = 6 /\ n_wr' = 0
  /\ UNCHANGED <<stage, m1_tick_count, m2_tick_count, pipe, regs, n_m1,
                 n_rfsh, n_mreq, n_ioreq, n_rd, address, data, inputs>>

M3Done ==
  /\ stage = "M3" /\ m3_tick_count = 7
  /\ n_mreq' = 1 /\ n_ioreq' = 1 /\ n_wr' = 1
  /\ m3_tick_count' = 0
  /\ Decode(ins, opcode_index, read_index, write_index, pc, read_buffer)
  /\ UNCHANGED <<m1_tick_count, m2_tick_count, indices, read_buffer,
                 n_m1, n_rfsh, n_rd, address, data, inputs>>

M3Cycle == M3Address \/ M3Request \/ M3Idle \/ M3SampleWait \/ M3Done
-----------------------------------------------------------------------------
(***************************************************************************)
(* REFRESH: the extra refresh of a repeating block operation. It counts on *)
(* m1_tick_count, which the M1 cycle has left at zero.                     *)
(***************************************************************************)
RefreshStart ==
  /\ stage = "REFRESH" /\ m1_tick_count = 0
  /\ n_mreq' = 1 /\ n_rd' = 1 /\ n_m1' = 1 /\ n_rfsh' = 0
  /\ address' = RefreshAddress
  /\ m1_tick_count' = 1
  /\ UNCHANGED <<stage, m2_tick_count, m3_tick_count, pipe, regs, n_ioreq,
                 n_wr, data, inputs>>

RefreshRequest ==
  /\ stage = "REFRESH" /\ m1_tick_count = 1
  /\ n_mreq' = 0
  /\ m1_tick_count' = 2
  /\ UNCHANGED <<stage, m2_tick_count, m3_tick_count, pipe, regs, n_m1,
                 n_rfsh, n_ioreq, n_rd, n_wr, address, data, inputs>>

RefreshIdle ==
  /\ stage = "REFRESH" /\ m1_tick_count = 2
  /\ m1_tick_count' = 3
  /\ UNCHANGED <<stage, m2_tick_count, m3_tick_count, pipe, regs, control,
                 address, data, inputs>>

RefreshDone ==
  /\ stage = "REFRESH" /\ m1_tick_count = 3
  /\ n_mreq' = 1
  /\ stage' = "RESET"
  /\ UNCHANGED <<ticks, pipe, regs, n_m1, n_rfsh, n_ioreq, n_rd, n_wr,
                 address, data, inputs>>

RefreshCycle == RefreshStart \/ RefreshRequest \/ RefreshIdle \/ RefreshDone
=============================================================================
