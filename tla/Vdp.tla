--------------------------------- MODULE Vdp ---------------------------------
(***************************************************************************)
(* The ports of the VDP (vdp/vdp.c) as functions on struct vdp_s.          *)
(*                                                                         *)
(* A byte on a port has two mode bits above LOW values of low bits (64 in  *)
(* the code), so two of them hold a mode and an address of the VRAM.       *)
(***************************************************************************)
EXTENDS Integers

CONSTANTS
  LOW,           \* number of values of the low bits of a byte
  NREGS,         \* number of registers
  LINE_COUNTER,  \* the register that counts lines, VDP_REG_LINE_COUNTER
  CRAM_SIZE,
  H_SIZE         \* number of values of the H counter

PORT_BYTE == 4 * LOW
PortByte  == 0..(PORT_BYTE - 1)
VRAM_SIZE == PORT_BYTE * LOW

ASSUME VdpAssumption ==
  /\ LOW \in Nat \ {0} /\ NREGS \in 1..PORT_BYTE /\ LINE_COUNTER \in 0..(NREGS - 1)
  /\ CRAM_SIZE \in 1..VRAM_SIZE /\ H_SIZE \in 1..(2 * PORT_BYTE)

Modes == 0..3   \* of the two mode bits
VRAM_READ == 0
REGISTER  == 2
CRAM      == 3
Mode(b)   == b \div LOW

VdpState == [ioreq_done : 0..1, h : 0..(H_SIZE - 1), status : PortByte,
             vram : [0..(VRAM_SIZE - 1) -> PortByte],
             cram : [0..(CRAM_SIZE - 1) -> PortByte],
             regs : [0..(NREGS - 1) -> PortByte],
             buffer : PortByte, address : 0..(VRAM_SIZE - 1),
             control_word : PortByte, control_index : 0..1,
             control_mode : Modes]

VdpInit ==
  [ioreq_done |-> 0, h |-> 0, status |-> 0,
   vram |-> [a \in 0..(VRAM_SIZE - 1) |-> 0],
   cram |-> [a \in 0..(CRAM_SIZE - 1) |-> 0],
   regs |-> [r \in 0..(NREGS - 1) |-> 0],
   buffer |-> 0, address |-> 0,
   control_word |-> 0, control_index |-> 0, control_mode |-> 0]

NextAddress(v) == (v.address + 1) % VRAM_SIZE

AddressFault(low, b) == low + PORT_BYTE * b           \* keeps the mode bits
Address(low, b)      == (low + PORT_BYTE * b) % VRAM_SIZE

\* The first byte of a control word is latched, the second one completes it.
FirstControl(v, b) == [v EXCEPT !.control_word = b, !.control_index = 1]

SecondControl(v, b) ==
  LET a == Address(v.control_word, b) IN
  [v EXCEPT !.control_index = 0, !.control_mode = Mode(b), !.address = a,
            !.buffer = IF Mode(b) = VRAM_READ THEN v.vram[a] ELSE @,
            !.regs = IF Mode(b) = REGISTER
                       THEN [@ EXCEPT ![b % NREGS] = v.control_word] ELSE @]

ControlWrite(v, b) ==
  IF v.control_index = 0 THEN FirstControl(v, b) ELSE SecondControl(v, b)

ControlRead(v) == [v EXCEPT !.control_index = 0]

\* A data read answers from the buffer and reads ahead.
DataRead(v) ==
  [v EXCEPT !.control_index = 0, !.address = NextAddress(v),
            !.buffer = v.vram[NextAddress(v)]]

DataWrite(v, b) ==
  [v EXCEPT !.control_index = 0, !.buffer = b, !.address = NextAddress(v),
            !.vram = IF v.control_mode # CRAM THEN [@ EXCEPT ![v.address] = b] ELSE @,
            !.cram = IF v.control_mode = CRAM
                       THEN [@ EXCEPT ![v.address % CRAM_SIZE] = b] ELSE @]

\* The H counter runs freely and carries into the line counter.
Update(v) ==
  LET h == (v.h + 1) % H_SIZE IN
  [v EXCEPT !.h = h,
            !.regs[LINE_COUNTER] = IF h = 0 THEN (@ + 1) % PORT_BYTE ELSE @]
=============================================================================
