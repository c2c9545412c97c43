---------------------------- MODULE VdpBusProofs ----------------------------
(***************************************************************************)
(* The VDP acts once on each access to its ports, whatever the parity and  *)
(* the length of the access: VdpBus implements VdpPorts, for every set of  *)
(* operations, every width of a byte and every number of accesses.         *)
(*                                                                         *)
(* The core in VdpBus takes the steps of Z80Core, so the invariant IInv of *)
(* Z80CoreProofs holds here. What the VDP needs to know of a half-clock is *)
(* said by a few lemmas about Tick; the rest is about ioreq_done and the   *)
(* parity of the half-clocks.                                              *)
(***************************************************************************)
EXTENDS VdpBus, Z80CoreProofs

-----------------------------------------------------------------------------
(***************************************************************************)
(* The core, as the VDP sees it.                                           *)
(***************************************************************************)

\* In an M3 cycle the space is the one its operation writes to.
WriteSpace == stage = "M3" => ins \in Ops /\ write_is_io = ins.wio

\* IORQ is low from the request to the last half-clock of a cycle, with RD in
\* an M2 cycle, and in the last two half-clocks of an M3 cycle with WR.
LEMMA RequestPins ==
  ASSUME IInv
  PROVE  /\ n_ioreq \in 0..1 /\ n_rd \in 0..1 /\ n_wr \in 0..1
         /\ n_ioreq = 0 => \/ /\ stage = "M2" /\ m2_tick_count \in 2..7 /\ ins.rio = 1
                              /\ n_rd = 0 /\ n_wr = 1
                           \/ /\ stage = "M3" /\ m3_tick_count \in 2..7 /\ write_is_io = 1
                              /\ n_rd = 1
                              /\ n_wr = IF m3_tick_count \in 6..7 THEN 0 ELSE 1
         /\ Starts => n_ioreq = 1
         /\ stage = "M3" /\ m3_tick_count \in 2..7 /\ write_is_io = 1 => n_ioreq = 0
         /\ stage = "M3" /\ m3_tick_count \in 0..1 => n_ioreq = 1
<1> USE DEF IInv, PinsFollowCycle, AllHigh, Low
<1>1. n_ioreq \in 0..1 /\ n_rd \in 0..1 /\ n_wr \in 0..1
  BY DEF TypeOK, Bit
<1>2. CASE stage = "M1"
  BY <1>1, <1>2 DEF FetchPins, FetchRead, TicksInRange, Starts
<1>3. CASE stage = "M2"
  <2>1. ins.rio \in 0..1 /\ m2_tick_count \in 0..7
    BY <1>3, OpsAssumption DEF CycleOrder, Template, TypeOK
  <2>2. CASE m2_tick_count \in 0..1
    BY <1>3, <2>2 DEF ReadPins
  <2>3. CASE m2_tick_count \in 2..7
    BY <1>3, <2>1, <2>3 DEF ReadPins, Reading, Starts
  <2> QED
    BY <1>1, <2>1, <2>2, <2>3
<1>4. CASE stage = "M3"
  <2>1. write_is_io \in 0..1 /\ m3_tick_count \in 0..7
    BY DEF TypeOK, Bit
  <2>2. CASE m3_tick_count \in 0..1
    BY <1>4, <2>2 DEF WritePins
  <2>3. CASE m3_tick_count \in 2..5
    BY <1>4, <2>1, <2>3 DEF WritePins, Writing, Starts
  <2>4. CASE m3_tick_count \in 6..7
    BY <1>4, <2>1, <2>4 DEF WritePins, Writing, Starts
  <2> QED
    BY <1>1, <2>1, <2>2, <2>3, <2>4
<1>5. CASE stage \notin {"M1", "M2", "M3"}
  BY <1>1, <1>5 DEF OtherPins, Storing, TypeOK, Stages, Starts
<1> QED
  BY <1>2, <1>3, <1>4, <1>5

\* An instruction hands over to an M3 cycle in the space of its operation.
LEMMA WriteSpaceKept ==
  ASSUME IInv, WriteSpace, Tick
  PROVE  WriteSpace'
<1> USE DEF WriteSpace
<1>1. CASE Boundary
  BY <1>1 DEF Boundary, AcceptNmi, AcceptInt, DropInt, BeginFetch
<1>2. CASE M1Cycle
  <2>1. CASE M1Start \/ M1Request \/ M1Idle \/ M1SampleWait \/ M1Latch \/ M1Refresh
    BY <2>1 DEF M1Start, M1Request, M1Idle, M1SampleWait, M1Latch, M1Refresh
  <2>2. CASE M1DropPrefix
    BY <2>2 DEF M1DropPrefix, OpcodeLatched
  <2>3. CASE M1Decode
    <3>1. stage = "M1"
      BY <2>3 DEF M1Decode, OpcodeLatched
    <3>2. write_index = 0 /\ opcode_index \in 0..4 /\ (opcode_index > 0 => ins \in Ops)
      BY <3>1 DEF IInv, CycleOrder, TypeOK
    <3>3. PICK op \in IF opcode_index = 0 THEN Ops ELSE {ins} :
            Decode(op, opcode_index + 1, read_index, write_index, Plus(pc, 1), read_buffer)
      BY <2>3 DEF M1Decode
    <3>4. op \in Ops
      BY <3>2, <3>3
    <3>5. op.last \in {"RESET", "REFRESH"}
      BY <3>4, OpsAssumption DEF Template
    <3> QED
      BY <3>2, <3>3, <3>4, <3>5 DEF Decode, NeedOpcode, NeedRead, NeedWrite, Retire
  <2> QED
    BY <1>2, <2>1, <2>2, <2>3 DEF M1Cycle
<1>3. CASE M2Cycle
  <2>1. CASE M2Address \/ M2Request \/ M2Idle \/ M2SampleWait
    BY <2>1 DEF M2Address, M2Request, M2Idle, M2SampleWait
  <2>2. CASE M2Done
    <3>1. stage = "M2" /\ ins \in Ops /\ write_index = 0
      BY <2>2 DEF M2Done, IInv, CycleOrder
    <3>2. ins.last \in {"RESET", "REFRESH"}
      BY <3>1, OpsAssumption DEF Template
    <3> QED
      BY <2>2, <3>1, <3>2 DEF M2Done, Decode, NeedOpcode, NeedRead, NeedWrite, Retire
  <2> QED
    BY <1>3, <2>1, <2>2 DEF M2Cycle
<1>4. CASE M3Cycle
  <2>1. CASE M3Address \/ M3Request \/ M3Idle \/ M3SampleWait
    BY <2>1 DEF M3Address, M3Request, M3Idle, M3SampleWait, pipe, operand
  <2>2. CASE M3Done
    <3>1. stage = "M3" /\ ins \in Ops
      BY <2>2 DEF M3Done, IInv, CycleOrder
    <3>2. ins.last \in {"RESET", "REFRESH"}
      BY <3>1, OpsAssumption DEF Template
    <3> QED
      BY <2>2, <3>1, <3>2 DEF M3Done, Decode, NeedOpcode, NeedRead, NeedWrite, Retire
  <2> QED
    BY <1>4, <2>1, <2>2 DEF M3Cycle
<1>5. CASE RefreshCycle
  BY <1>5 DEF RefreshCycle, RefreshStart, RefreshRequest, RefreshIdle, RefreshDone
<1>6. CASE InterruptCycle
  BY <1>6 DEF InterruptCycle, IntM1, IntM2, IntM3, NmiM1, NmiM2, NmiM3
<1> QED
  BY <1>1, <1>2, <1>3, <1>4, <1>5, <1>6 DEF Tick

\* An access to a port is the last cycle of its instruction.
LEMMA AccessIsLast ==
  ASSUME IInv, WriteSpace, n_ioreq = 0, M2Done \/ M3Done
  PROVE  stage' \in {"RESET", "REFRESH"} /\ n_ioreq' = 1
<1>1. CASE M2Done
  <2>1. ins \in Ops /\ stage = "M2" /\ read_index < ins.reads /\ write_index = 0
    BY <1>1 DEF M2Done, IInv, CycleOrder
  <2>2. ins.rio = 1
    BY <2>1, RequestPins
  <2>3. /\ ins.reads \in 0..1 /\ ins.writes = 0 /\ ins.last \in {"RESET", "REFRESH"}
        /\ read_index \in 0..2 /\ ins.size \in 1..4
    BY <2>1, <2>2, OpsAssumption, PortAssumption DEF Template, IInv, TypeOK
  <2>4. read_index = 0 /\ ins.reads = 1 /\ opcode_index = ins.size
    BY <2>1, <2>3 DEF IInv, CycleOrder
  <2> QED
    BY <1>1, <2>1, <2>3, <2>4 DEF M2Done, EndRead, Decode, NeedOpcode, NeedRead, NeedWrite, Retire
<1>2. CASE M3Done
  <2>1. /\ ins \in Ops /\ stage = "M3" /\ m3_tick_count = 7 /\ write_index \in 1..ins.writes
        /\ opcode_index = ins.size /\ read_index = ins.reads
    BY <1>2 DEF M3Done, IInv, CycleOrder
  <2>2. ins.wio = 1
    BY <2>1, RequestPins DEF WriteSpace
  <2>3. /\ ins.writes \in 0..1 /\ ins.last \in {"RESET", "REFRESH"} /\ ins.size \in 1..4
        /\ ins.reads \in 0..2
    BY <2>1, <2>2, OpsAssumption, PortAssumption DEF Template
  <2>4. write_index = 1 /\ ins.writes = 1
    BY <2>1, <2>3
  <2> QED
    BY <1>2, <2>1, <2>3, <2>4 DEF M3Done, Decode, NeedOpcode, NeedRead, NeedWrite, Retire
<1> QED
  BY <1>1, <1>2

\* What the VDP sees of a half-clock: an access begins, lasts, or ends.
Began ==
  /\ n_ioreq = 1 /\ n_ioreq' = 0
  /\ \/ Reads(1) /\ Reads(4)' /\ n_rd' = 0 /\ n_wr' = 1
     \/ Writes(1) /\ Writes(2)' /\ n_rd' = 1 /\ n_wr' = 1 /\ write_is_io = 1
Lasted ==
  /\ n_ioreq = 0 /\ n_ioreq' = 0 /\ stage' = stage /\ n_rd' = n_rd
  /\ n_wr' = 0 => \/ n_wr = 1 /\ Writes(6)'
                  \/ Writes(6) /\ Writes(7)'
  /\ n_wr = 0 => n_wr' = 0
  /\ stage = "M2" => \/ Reads(4) /\ Reads(5)'
                     \/ Reads(5) /\ Reads(4)'
                     \/ ~Reads(4) /\ ~Reads(7)
  /\ ~Ends /\ ~Starts /\ ~Writes(1)
Ended == n_ioreq = 0 /\ n_ioreq' = 1 /\ Ends /\ stage' \in {"RESET", "REFRESH"}
Elsewhere ==
  /\ n_ioreq = 1 /\ n_ioreq' = 1
  /\ stage \in {"RESET", "REFRESH"} => stage' \notin {"M2", "M3"}
  /\ ~(Requests)

\* Nothing else happens.
LEMMA HalfClock ==
  ASSUME IInv, WriteSpace, Tick
  PROVE  Began \/ Lasted \/ Ended \/ Elsewhere
<1> USE DEF Reads, Writes, Starts, Ends, Requests
<1>1. CASE Boundary
  <2>1. stage = "RESET" /\ n_ioreq' = n_ioreq /\ stage' \notin {"M2", "M3"}
    BY <1>1 DEF Boundary, AcceptNmi, AcceptInt, DropInt, BeginFetch, control
  <2> QED
    BY <2>1, RequestPins DEF Elsewhere
<1>2. CASE M1Cycle
  <2>1. stage = "M1" /\ n_ioreq' = n_ioreq
    BY <1>2 DEF M1Cycle, M1Start, M1Request, M1Idle, M1SampleWait, M1Latch, M1Refresh,
                M1Decode, M1DropPrefix, OpcodeLatched, control
  <2> QED
    BY <2>1, RequestPins DEF Elsewhere
<1>3. CASE M2Cycle
  <2>1. CASE M2Address
    BY <2>1, RequestPins DEF M2Address, control, Elsewhere
  <2>2. CASE M2Request
    <3>1. n_ioreq = 1 /\ n_rd = 1 /\ n_wr = 1
      BY <2>2 DEF M2Request, IInv, PinsFollowCycle, ReadPins, AllHigh, Low
    <3> QED
      BY <2>2, <3>1 DEF M2Request, Began, Elsewhere
  <2>3. CASE M2Idle
    BY <2>3, RequestPins DEF M2Idle, control, Elsewhere, Lasted
  <2>4. CASE M2SampleWait
    BY <2>4, RequestPins DEF M2SampleWait, M2Wait, control, Elsewhere, Lasted
  <2>5. CASE M2Done
    <3>1. stage = "M2" /\ m2_tick_count = 7 /\ n_ioreq' = 1
      BY <2>5 DEF M2Done, EndRead
    <3>2. CASE n_ioreq = 0
      BY <2>5, <3>1, <3>2, AccessIsLast DEF Ended
    <3> QED
      BY <3>1, <3>2, RequestPins DEF Elsewhere
  <2> QED
    BY <1>3, <2>1, <2>2, <2>3, <2>4, <2>5 DEF M2Cycle
<1>4. CASE M3Cycle
  <2>1. CASE M3Address
    BY <2>1, RequestPins DEF M3Address, control, Elsewhere
  <2>2. CASE M3Request
    <3>1. n_ioreq = 1 /\ n_rd = 1 /\ n_wr = 1
      BY <2>2 DEF M3Request, IInv, PinsFollowCycle, WritePins, AllHigh, Low
    <3> QED
      BY <2>2, <3>1 DEF M3Request, Began, Elsewhere
  <2>3. CASE M3Idle
    BY <2>3, RequestPins DEF M3Idle, control, Elsewhere, Lasted
  <2>4. CASE M3SampleWait
    BY <2>4, RequestPins DEF M3SampleWait, Elsewhere, Lasted
  <2>5. CASE M3Done
    <3>1. stage = "M3" /\ m3_tick_count = 7 /\ n_ioreq' = 1
      BY <2>5 DEF M3Done
    <3>2. CASE n_ioreq = 0
      BY <2>5, <3>1, <3>2, AccessIsLast DEF Ended
    <3> QED
      BY <3>1, <3>2, RequestPins DEF Elsewhere
  <2> QED
    BY <1>4, <2>1, <2>2, <2>3, <2>4, <2>5 DEF M3Cycle
<1>5. CASE RefreshCycle
  <2>1. stage = "REFRESH" /\ n_ioreq' = n_ioreq /\ stage' \in {"REFRESH", "RESET"}
    BY <1>5 DEF RefreshCycle, RefreshStart, RefreshRequest, RefreshIdle, RefreshDone, control
  <2> QED
    BY <2>1, RequestPins DEF Elsewhere
<1>6. CASE InterruptCycle
  <2>1. /\ stage \in {"M1_INT", "M2_INT", "M3_INT", "M1_NMI", "M2_NMI", "M3_NMI"}
        /\ n_ioreq' = n_ioreq
    BY <1>6 DEF InterruptCycle, IntM1, IntM2, IntM3, NmiM1, NmiM2, NmiM3, IntStore, NmiStore,
                PinsOf, control
  <2> QED
    BY <2>1, RequestPins DEF Elsewhere
<1> QED
  BY <1>1, <1>2, <1>3, <1>4, <1>5, <1>6 DEF Tick

InCycle == stage \in {"M2", "M3"} /\ ~Starts

\* A cycle is entered at its first half-clock and from nowhere else.
LEMMA CycleEntered ==
  ASSUME IInv, Tick, InCycle'
  PROVE  Starts \/ InCycle
<1>1. stage \in {"M2", "M3"}
  <2> USE DEF InCycle, Starts
  <2>1. CASE M1Decode
    <3>1. OpcodeLatched /\ m2_tick_count = 0 /\ m3_tick_count = 0
      BY <2>1 DEF M1Decode, OpcodeLatched, IInv, TicksInRange
    <3> QED
      BY <3>1 DEF OpcodeLatched
  <2>2. CASE M1Cycle
    BY <2>1, <2>2 DEF M1Cycle, M1Start, M1Request, M1Idle, M1SampleWait, M1Latch, M1Refresh,
                      M1DropPrefix, OpcodeLatched
  <2>3. CASE Boundary
    BY <2>3 DEF Boundary, AcceptNmi, AcceptInt, DropInt, BeginFetch
  <2>4. CASE RefreshCycle
    BY <2>4 DEF RefreshCycle, RefreshStart, RefreshRequest, RefreshIdle, RefreshDone
  <2>5. CASE InterruptCycle
    BY <2>5 DEF InterruptCycle, IntM1, IntM2, IntM3, NmiM1, NmiM2, NmiM3
  <2>6. CASE M2Cycle \/ M3Cycle
    BY <2>6 DEF M2Cycle, M2Address, M2Request, M2Idle, M2SampleWait, M2Done,
                M3Cycle, M3Address, M3Request, M3Idle, M3SampleWait, M3Done
  <2> QED
    BY <2>2, <2>3, <2>4, <2>5, <2>6 DEF Tick
<1> QED
  BY <1>1 DEF InCycle
-----------------------------------------------------------------------------
(***************************************************************************)
(* The functions on struct vdp_s.                                          *)
(***************************************************************************)

\* A remainder is below its divisor.
LEMMA RemainderBelow ==
  ASSUME NEW n \in Int, NEW m \in Nat, m > 0
  PROVE  n % m \in 0..(m - 1)
OBVIOUS

\* How many bytes there are, and cells of VRAM.
LEMMA Sizes ==
  /\ LOW \in Nat /\ LOW > 0 /\ PORT_BYTE \in Nat /\ PORT_BYTE > 0 /\ PORT_BYTE = 4 * LOW
  /\ VRAM_SIZE \in Nat /\ VRAM_SIZE > 0
  /\ CRAM_SIZE \in Nat /\ CRAM_SIZE > 0 /\ NREGS \in Nat /\ NREGS > 0
  /\ H_SIZE \in Nat /\ H_SIZE > 0 /\ H_SIZE <= 2 * PORT_BYTE
  /\ LINE_COUNTER \in 0..(NREGS - 1)
BY VdpAssumption DEF PORT_BYTE, VRAM_SIZE

\* The two bits above the low ones name a mode.
LEMMA ModeOfByte ==
  ASSUME NEW b \in PortByte
  PROVE  Mode(b) \in Modes
<1> DEFINE q == b \div LOW
<1>1. LOW \in Nat /\ LOW > 0 /\ b \in Nat /\ b < 4 * LOW
  BY Sizes DEF PortByte
<1>2. q \in Int /\ b = (LOW * q) + (b % LOW) /\ b % LOW \in 0..(LOW - 1)
  BY <1>1
<1> HIDE DEF q
<1>3. LOW * q <= b /\ b < LOW * q + LOW
  BY <1>1, <1>2
<1>4. q >= 4 => LOW * q >= 4 * LOW
  BY <1>1, <1>2
<1>5. q <= -1 => LOW * q <= -LOW
  BY <1>1, <1>2
<1> QED
  BY <1>1, <1>2, <1>3, <1>4, <1>5 DEF Mode, Modes, q

\* What vdp_io leaves in ioreq_done.
Marked(v, d) == [v EXCEPT !.ioreq_done = d]

\* struct vdp_s by its fields, so that two values are equal when their fields are.
Names == {"ioreq_done", "h", "status", "vram", "cram", "regs", "buffer", "address",
          "control_word", "control_index", "control_mode"}
Named(m) == m = [name \in Names |-> m[name]]

\* Every state has these fields and no other.
LEMMA StatesNamed ==
  /\ \A v \in VdpState : Named(v)
  /\ Named(VdpInit)
BY DEF Named, Names, VdpState, VdpInit

\* Two values with the same fields are the same value.
LEMMA SameFields ==
  ASSUME NEW u, NEW w, Named(u), Named(w),
         u.ioreq_done = w.ioreq_done, u.h = w.h, u.status = w.status, u.vram = w.vram,
         u.cram = w.cram, u.regs = w.regs, u.buffer = w.buffer, u.address = w.address,
         u.control_word = w.control_word, u.control_index = w.control_index,
         u.control_mode = w.control_mode
  PROVE  u = w
<1>1. \A name \in Names : u[name] = w[name]
  BY DEF Names
<1> QED
  BY <1>1 DEF Named

\* And a state is what has fields of the right types.
LEMMA FieldsTyped ==
  ASSUME NEW m, Named(m),
         m.ioreq_done \in 0..1, m.h \in 0..(H_SIZE - 1), m.status \in PortByte,
         m.vram \in [0..(VRAM_SIZE - 1) -> PortByte],
         m.cram \in [0..(CRAM_SIZE - 1) -> PortByte],
         m.regs \in [0..(NREGS - 1) -> PortByte],
         m.buffer \in PortByte, m.address \in 0..(VRAM_SIZE - 1),
         m.control_word \in PortByte, m.control_index \in 0..1, m.control_mode \in Modes
  PROVE  m \in VdpState
BY DEF Named, Names, VdpState

\* The functions return such values.
LEMMA ResultsNamed ==
  ASSUME NEW v, Named(v), NEW b, NEW d
  PROVE  /\ Named(ControlRead(v)) /\ Named(DataRead(v)) /\ Named(DataWrite(v, b))
         /\ Named(FirstControl(v, b)) /\ Named(SecondControl(v, b))
         /\ Named(Update(v)) /\ Named(Visible(v)) /\ Named(Marked(v, d))
<1>1. Named(ControlRead(v)) /\ Named(DataRead(v))
  BY DEF Named, ControlRead, DataRead
<1>2. Named(DataWrite(v, b))
  BY DEF Named, DataWrite
<1>3. Named(FirstControl(v, b)) /\ Named(SecondControl(v, b))
  BY DEF Named, FirstControl, SecondControl
<1>4. Named(Update(v)) /\ Named(Visible(v)) /\ Named(Marked(v, d))
  BY DEF Named, Update, Visible, Marked
<1> QED
  BY <1>1, <1>2, <1>3, <1>4

\* What each of them changes.
LEMMA ReadFields ==
  ASSUME NEW v, Named(v)
  PROVE  LET m == DataRead(v) IN
         /\ m.ioreq_done = v.ioreq_done /\ m.h = v.h /\ m.status = v.status
         /\ m.vram = v.vram /\ m.cram = v.cram /\ m.regs = v.regs
         /\ m.buffer = v.vram[NextAddress(v)] /\ m.address = NextAddress(v)
         /\ m.control_word = v.control_word /\ m.control_index = 0
         /\ m.control_mode = v.control_mode
BY DEF Named, Names, DataRead

\* A data write: the address advances, the latch starts over,
LEMMA WriteFields ==
  ASSUME NEW v, Named(v), NEW b
  PROVE  LET m == DataWrite(v, b) IN
         /\ m.ioreq_done = v.ioreq_done /\ m.h = v.h /\ m.status = v.status
         /\ m.regs = v.regs /\ m.buffer = b /\ m.address = NextAddress(v)
         /\ m.control_word = v.control_word /\ m.control_index = 0
         /\ m.control_mode = v.control_mode
BY DEF Named, Names, DataWrite

VramAfter(v, b) == IF v.control_mode # CRAM THEN [v.vram EXCEPT ![v.address] = b] ELSE v.vram
CramAfter(v, b) == IF v.control_mode = CRAM THEN [v.cram EXCEPT ![v.address % CRAM_SIZE] = b]
                                            ELSE v.cram

\* and the byte lands in one cell of one memory.
LEMMA WriteCells ==
  ASSUME NEW v, Named(v), NEW b
  PROVE  DataWrite(v, b).vram = VramAfter(v, b) /\ DataWrite(v, b).cram = CramAfter(v, b)
BY DEF Named, Names, DataWrite, VramAfter, CramAfter

\* The second byte of a control word sets address and mode, and acts on the mode.
LEMMA ControlFields ==
  ASSUME NEW v, Named(v), NEW b
  PROVE  LET m == SecondControl(v, b)
             a == Address(v.control_word, b) IN
         /\ m.ioreq_done = v.ioreq_done /\ m.h = v.h /\ m.status = v.status
         /\ m.vram = v.vram /\ m.cram = v.cram
         /\ m.regs = (IF Mode(b) = REGISTER THEN [v.regs EXCEPT ![b % NREGS] = v.control_word]
                                            ELSE v.regs)
         /\ m.buffer = (IF Mode(b) = VRAM_READ THEN v.vram[a] ELSE v.buffer)
         /\ m.address = a
         /\ m.control_word = v.control_word /\ m.control_index = 0
         /\ m.control_mode = Mode(b)
BY DEF Named, Names, SecondControl

\* The first byte is only kept; a status read drops it.
LEMMA LatchFields ==
  ASSUME NEW v, Named(v), NEW b
  PROVE  LET r == ControlRead(v)
             m == FirstControl(v, b) IN
         /\ m.ioreq_done = v.ioreq_done /\ m.h = v.h /\ m.status = v.status
         /\ m.vram = v.vram /\ m.cram = v.cram /\ m.regs = v.regs
         /\ m.buffer = v.buffer /\ m.address = v.address
         /\ m.control_word = b /\ m.control_index = 1 /\ m.control_mode = v.control_mode
         /\ r.ioreq_done = v.ioreq_done /\ r.h = v.h /\ r.status = v.status
         /\ r.vram = v.vram /\ r.cram = v.cram /\ r.regs = v.regs
         /\ r.buffer = v.buffer /\ r.address = v.address
         /\ r.control_word = v.control_word /\ r.control_index = 0
         /\ r.control_mode = v.control_mode
BY DEF Named, Names, FirstControl, ControlRead

\* The counters are all that runs by itself.
LEMMA UpdateFields ==
  ASSUME NEW v, Named(v)
  PROVE  LET m == Update(v)
             h == (v.h + 1) % H_SIZE IN
         /\ m.ioreq_done = v.ioreq_done /\ m.h = h /\ m.status = v.status
         /\ m.vram = v.vram /\ m.cram = v.cram
         /\ m.regs = [v.regs EXCEPT ![LINE_COUNTER] =
                        IF h = 0 THEN (@ + 1) % PORT_BYTE ELSE @]
         /\ m.buffer = v.buffer /\ m.address = v.address
         /\ m.control_word = v.control_word /\ m.control_index = v.control_index
         /\ m.control_mode = v.control_mode
BY DEF Named, Names, Update

\* Marking an access as done changes nothing else.
LEMMA MarkedFields ==
  ASSUME NEW v, Named(v), NEW d \in Bit
  PROVE  LET m == Marked(v, d) IN
         /\ m.ioreq_done = d /\ m.h = v.h /\ m.status = v.status
         /\ m.vram = v.vram /\ m.cram = v.cram /\ m.regs = v.regs
         /\ m.buffer = v.buffer /\ m.address = v.address
         /\ m.control_word = v.control_word /\ m.control_index = v.control_index
         /\ m.control_mode = v.control_mode
BY DEF Named, Names, Marked

\* A program sees neither the counters nor that mark.
LEMMA VisibleFields ==
  ASSUME NEW v, Named(v)
  PROVE  LET m == Visible(v) IN
         /\ m.ioreq_done = 0 /\ m.h = 0 /\ m.status = v.status
         /\ m.vram = v.vram /\ m.cram = v.cram /\ m.regs = [v.regs EXCEPT ![LINE_COUNTER] = 0]
         /\ m.buffer = v.buffer /\ m.address = v.address
         /\ m.control_word = v.control_word /\ m.control_index = v.control_index
         /\ m.control_mode = v.control_mode
BY DEF Named, Names, Visible

\* struct vdp_s stays in its ranges: the address in the VRAM, the latch at one
\* byte of two.
LEMMA ReadTyped == ASSUME NEW v \in VdpState PROVE DataRead(v) \in VdpState
<1>1. NextAddress(v) \in 0..(VRAM_SIZE - 1)
  BY RemainderBelow, Sizes DEF NextAddress, VdpState
<1>2. v.vram[NextAddress(v)] \in PortByte
  BY <1>1 DEF VdpState
<1>3. Named(v) /\ Named(DataRead(v))
  BY StatesNamed, ResultsNamed
<1> QED
  BY <1>1, <1>2, <1>3, ReadFields, FieldsTyped DEF VdpState

\* A data write puts a byte into a cell that exists.
LEMMA WriteTyped ==
  ASSUME NEW v \in VdpState, NEW b \in PortByte
  PROVE  DataWrite(v, b) \in VdpState
<1>1. NextAddress(v) \in 0..(VRAM_SIZE - 1)
  BY RemainderBelow, Sizes DEF NextAddress, VdpState
<1>2. [v.vram EXCEPT ![v.address] = b] \in [0..(VRAM_SIZE - 1) -> PortByte]
  BY DEF VdpState
<1>3. [v.cram EXCEPT ![v.address % CRAM_SIZE] = b] \in [0..(CRAM_SIZE - 1) -> PortByte]
  BY DEF VdpState
<1>4. Named(v) /\ Named(DataWrite(v, b))
  BY StatesNamed, ResultsNamed
<1>5. /\ v.vram \in [0..(VRAM_SIZE - 1) -> PortByte]
      /\ v.cram \in [0..(CRAM_SIZE - 1) -> PortByte]
  BY DEF VdpState
<1>6. /\ DataWrite(v, b).vram \in [0..(VRAM_SIZE - 1) -> PortByte]
      /\ DataWrite(v, b).cram \in [0..(CRAM_SIZE - 1) -> PortByte]
  BY <1>2, <1>3, <1>4, <1>5, WriteCells DEF VramAfter, CramAfter
<1> QED
  BY <1>1, <1>4, <1>6, WriteFields, FieldsTyped DEF VdpState

\* A control write takes the mode bits off the address.
LEMMA ControlTyped ==
  ASSUME NEW v \in VdpState, NEW b \in PortByte
  PROVE  ControlRead(v) \in VdpState /\ ControlWrite(v, b) \in VdpState
<1>1. ControlRead(v) \in VdpState
  BY DEF VdpState, ControlRead
<1>2. FirstControl(v, b) \in VdpState
  <2>1. Named(v) /\ Named(FirstControl(v, b))
    BY StatesNamed, ResultsNamed
  <2> QED
    BY <2>1, LatchFields, FieldsTyped DEF VdpState
<1>3. SecondControl(v, b) \in VdpState
  <2> DEFINE a == Address(v.control_word, b)
  <2>1. a \in 0..(VRAM_SIZE - 1)
    <3>1. v.control_word \in Int /\ b \in Int
      BY Sizes DEF VdpState, PortByte
    <3>2. v.control_word + PORT_BYTE * b \in Int
      BY <3>1, Sizes
    <3> QED
      BY <3>2, RemainderBelow, Sizes DEF Address
  <2>2. Mode(b) \in Modes
    BY ModeOfByte
  <2>3. [v.regs EXCEPT ![b % NREGS] = v.control_word] \in [0..(NREGS - 1) -> PortByte]
    BY DEF VdpState
  <2>4. v.vram[a] \in PortByte
    BY <2>1 DEF VdpState
  <2>5. Named(v) /\ Named(SecondControl(v, b))
    BY StatesNamed, ResultsNamed
  <2> HIDE DEF a
  <2>6. LET m == SecondControl(v, b) IN
        /\ m.ioreq_done = v.ioreq_done /\ m.h = v.h /\ m.status = v.status
        /\ m.vram = v.vram /\ m.cram = v.cram
        /\ m.regs \in [0..(NREGS - 1) -> PortByte]
        /\ m.buffer \in PortByte
        /\ m.address \in 0..(VRAM_SIZE - 1)
        /\ m.control_word = v.control_word /\ m.control_index = 0
        /\ m.control_mode \in Modes
    BY <2>1, <2>2, <2>3, <2>4, <2>5, ControlFields DEF VdpState, a
  <2> QED
    BY <2>5, <2>6, FieldsTyped DEF VdpState
<1> QED
  BY <1>1, <1>2, <1>3 DEF ControlWrite

\* So do the counters and ioreq_done.
LEMMA UpdateTyped ==
  ASSUME NEW v \in VdpState, NEW d \in Bit
  PROVE  Update(v) \in VdpState /\ Marked(v, d) \in VdpState
<1>1. (v.h + 1) % H_SIZE \in 0..(H_SIZE - 1)
  BY RemainderBelow, Sizes DEF VdpState
<1>2. v.regs[LINE_COUNTER] + 1 \in Int
  <2>1. v.regs[LINE_COUNTER] \in PortByte
    BY Sizes DEF VdpState
  <2> QED
    BY <2>1, Sizes DEF PortByte
<1>3. (v.regs[LINE_COUNTER] + 1) % PORT_BYTE \in PortByte
  BY <1>2, RemainderBelow, Sizes DEF PortByte
<1>4. Update(v) \in VdpState
  BY <1>1, <1>2, <1>3 DEF VdpState, Update
<1> QED
  BY <1>4 DEF VdpState, Marked, Bit

\* A counter fits a byte.
LEMMA CountersFit ==
  ASSUME NEW v \in VdpState
  PROVE  v.h \div 2 \in PortByte /\ v.regs[LINE_COUNTER] \in PortByte
<1>1. v.h \in 0..(H_SIZE - 1) /\ v.regs[LINE_COUNTER] \in PortByte
  BY Sizes DEF VdpState
<1> QED
  BY <1>1, Sizes DEF PortByte

\* The initial state is one of them.
LEMMA InitTyped == VdpInit \in VdpState
BY Sizes DEF VdpInit, VdpState, PortByte, Modes

\* Two that differ in what is not visible look the same.
LEMMA LookAlike ==
  ASSUME NEW u, NEW w, Named(u), Named(w),
         u.status = w.status, u.vram = w.vram, u.cram = w.cram,
         [u.regs EXCEPT ![LINE_COUNTER] = 0] = [w.regs EXCEPT ![LINE_COUNTER] = 0],
         u.buffer = w.buffer, u.address = w.address, u.control_word = w.control_word,
         u.control_index = w.control_index, u.control_mode = w.control_mode
  PROVE  Visible(u) = Visible(w)
<1>1. Named(Visible(u)) /\ Named(Visible(w))
  BY ResultsNamed
<1> QED
  BY <1>1, VisibleFields, SameFields

\* The counters and ioreq_done are not visible.
LEMMA UpdateInvisible ==
  ASSUME NEW v \in VdpState, NEW d \in Bit
  PROVE  /\ Visible(Update(v)) = Visible(v) /\ Visible(Marked(v, d)) = Visible(v)
         /\ Update(v).ioreq_done = v.ioreq_done /\ Marked(v, d).ioreq_done = d
<1>1. Named(v) /\ Named(Update(v)) /\ Named(Marked(v, d))
  BY StatesNamed, ResultsNamed
<1>2. [Update(v).regs EXCEPT ![LINE_COUNTER] = 0] = [v.regs EXCEPT ![LINE_COUNTER] = 0]
  BY <1>1, UpdateFields DEF VdpState
<1>3. Visible(Update(v)) = Visible(v)
  BY <1>1, <1>2, UpdateFields, LookAlike
<1>4. Visible(Marked(v, d)) = Visible(v)
  <2>1. [Marked(v, d).regs EXCEPT ![LINE_COUNTER] = 0] = [v.regs EXCEPT ![LINE_COUNTER] = 0]
    BY <1>1, MarkedFields
  <2> QED
    BY <1>1, <2>1, MarkedFields, LookAlike
<1>5. Update(v).ioreq_done = v.ioreq_done
  BY <1>1, UpdateFields
<1>6. Marked(v, d).ioreq_done = d
  BY <1>1, MarkedFields
<1> QED
  BY <1>3, <1>4, <1>5, <1>6

\* What is visible of a VDP is visible of what is visible.
LEMMA VisibleTwice ==
  ASSUME NEW v \in VdpState
  PROVE  Visible(Visible(v)) = Visible(v)
<1>1. Named(v) /\ Named(Visible(v))
  BY StatesNamed, ResultsNamed
<1>2. [Visible(v).regs EXCEPT ![LINE_COUNTER] = 0] = [v.regs EXCEPT ![LINE_COUNTER] = 0]
  BY <1>1, VisibleFields DEF VdpState
<1> QED
  BY <1>1, <1>2, VisibleFields, LookAlike

\* No access depends on them: it does to a VDP what it does to what is visible of it.
LEMMA EffectsVisible ==
  ASSUME NEW v \in VdpState, NEW b \in PortByte, NEW s, s = Visible(v)
  PROVE  /\ Visible(ControlRead(s)) = Visible(ControlRead(v))
         /\ Visible(ControlWrite(s, b)) = Visible(ControlWrite(v, b))
         /\ Visible(DataRead(s)) = Visible(DataRead(v))
         /\ Visible(DataWrite(s, b)) = Visible(DataWrite(v, b))
         /\ s.status = v.status /\ s.buffer = v.buffer
<1>1. Named(v) /\ Named(s)
  BY StatesNamed, ResultsNamed
<1>2. /\ s.status = v.status /\ s.vram = v.vram /\ s.cram = v.cram
      /\ s.regs = [v.regs EXCEPT ![LINE_COUNTER] = 0]
      /\ s.buffer = v.buffer /\ s.address = v.address /\ s.control_word = v.control_word
      /\ s.control_index = v.control_index /\ s.control_mode = v.control_mode
  BY <1>1, VisibleFields
<1>3. [s.regs EXCEPT ![LINE_COUNTER] = 0] = [v.regs EXCEPT ![LINE_COUNTER] = 0]
  BY <1>2 DEF VdpState
<1>4. NextAddress(s) = NextAddress(v)
  BY <1>2 DEF NextAddress
<1>5. Visible(ControlRead(s)) = Visible(ControlRead(v))
  <2>1. Named(ControlRead(s)) /\ Named(ControlRead(v))
    BY <1>1, ResultsNamed
  <2> QED
    BY <1>1, <1>2, <1>3, <2>1, LatchFields, LookAlike
<1>6. Visible(FirstControl(s, b)) = Visible(FirstControl(v, b))
  <2>1. Named(FirstControl(s, b)) /\ Named(FirstControl(v, b))
    BY <1>1, ResultsNamed
  <2> QED
    BY <1>1, <1>2, <1>3, <2>1, LatchFields, LookAlike
<1>7. Visible(DataRead(s)) = Visible(DataRead(v))
  <2>1. Named(DataRead(s)) /\ Named(DataRead(v))
    BY <1>1, ResultsNamed
  <2> QED
    BY <1>1, <1>2, <1>3, <1>4, <2>1, ReadFields, LookAlike
<1>8. Visible(DataWrite(s, b)) = Visible(DataWrite(v, b))
  <2>1. Named(DataWrite(s, b)) /\ Named(DataWrite(v, b))
    BY <1>1, ResultsNamed
  <2>2. /\ DataWrite(s, b).vram = DataWrite(v, b).vram
        /\ DataWrite(s, b).cram = DataWrite(v, b).cram
    <3>1. VramAfter(s, b) = VramAfter(v, b) /\ CramAfter(s, b) = CramAfter(v, b)
      BY <1>2 DEF VramAfter, CramAfter
    <3> QED
      BY <1>1, <3>1, WriteCells
  <2> QED
    BY <1>1, <1>2, <1>3, <1>4, <2>1, <2>2, WriteFields, LookAlike
<1>9. Visible(SecondControl(s, b)) = Visible(SecondControl(v, b))
  <2>1. Named(SecondControl(s, b)) /\ Named(SecondControl(v, b))
    BY <1>1, ResultsNamed
  <2>2. [[s.regs EXCEPT ![b % NREGS] = v.control_word] EXCEPT ![LINE_COUNTER] = 0]
        = [[v.regs EXCEPT ![b % NREGS] = v.control_word] EXCEPT ![LINE_COUNTER] = 0]
    BY <1>2 DEF VdpState
  <2> DEFINE m == SecondControl(s, b)
             n == SecondControl(v, b)
  <2>3. /\ m.regs = IF Mode(b) = REGISTER THEN [s.regs EXCEPT ![b % NREGS] = s.control_word]
                                          ELSE s.regs
        /\ m.buffer = IF Mode(b) = VRAM_READ THEN s.vram[Address(s.control_word, b)]
                                             ELSE s.buffer
    BY <1>1, ControlFields
  <2>4. /\ n.regs = IF Mode(b) = REGISTER THEN [v.regs EXCEPT ![b % NREGS] = v.control_word]
                                          ELSE v.regs
        /\ n.buffer = IF Mode(b) = VRAM_READ THEN v.vram[Address(v.control_word, b)]
                                             ELSE v.buffer
    BY <1>1, ControlFields
  <2>5. /\ m.status = s.status /\ m.vram = s.vram /\ m.cram = s.cram
        /\ m.address = Address(s.control_word, b) /\ m.control_word = s.control_word
        /\ m.control_index = 0 /\ m.control_mode = Mode(b)
    BY <1>1, ControlFields
  <2>6. /\ n.status = v.status /\ n.vram = v.vram /\ n.cram = v.cram
        /\ n.address = Address(v.control_word, b) /\ n.control_word = v.control_word
        /\ n.control_index = 0 /\ n.control_mode = Mode(b)
    BY <1>1, ControlFields
  <2> HIDE DEF m, n
  <2>7. [m.regs EXCEPT ![LINE_COUNTER] = 0] = [n.regs EXCEPT ![LINE_COUNTER] = 0]
    BY <1>2, <1>3, <2>2, <2>3, <2>4
  <2>8. m.buffer = n.buffer
    BY <1>2, <2>3, <2>4
  <2> QED
    BY <1>2, <2>1, <2>5, <2>6, <2>7, <2>8, LookAlike DEF m, n
<1> QED
  BY <1>2, <1>5, <1>6, <1>7, <1>8, <1>9 DEF ControlWrite
-----------------------------------------------------------------------------
(***************************************************************************)
(* The inductive invariant. WriteSpace is a fact about the core, Quiet     *)
(* about the bound: after the last access the ports are left alone.        *)
(***************************************************************************)
Shown ==
  /\ shown = [vdp |-> shown.vdp, console |-> shown.console]
  /\ Visible(shown.vdp) = shown.vdp

BusTypes ==
  /\ turn \in {"z80", "vdp"} /\ edge \in Bit /\ port \in Ports
  /\ VdpTypeOK /\ Shown

Quiet == InCycle => count < MAX_ACCESSES \/ port = "other"

BusInv == IInv /\ WriteSpace /\ BusTypes /\ Quiet /\ AccessInv

\* At power-up nothing is requested and nothing has been done.
LEMMA BusInitEstablishes == BusInit => BusInv
<1> SUFFICES ASSUME BusInit PROVE BusInv
  OBVIOUS
<1>1. IInv /\ stage = "RESET" /\ n_ioreq = 1
  BY InitEstablishes DEF BusInit, Init
<1>2. BusTypes
  <2>1. Shown
    BY InitTyped, VisibleTwice DEF BusInit, Shown
  <2> QED
    BY <2>1, InitTyped, Sizes DEF BusInit, BusTypes, VdpTypeOK, Ports, PortByte, Bit
<1>3. vdp.ioreq_done = 0
  BY DEF BusInit, VdpInit
<1>4. AccessInv
  BY <1>1, <1>3 DEF BusInit, AccessInv, Rearming, Serving, Accounted, Acted
<1> QED
  BY <1>1, <1>2, <1>4 DEF BusInv, WriteSpace, Quiet, InCycle

\* A half-clock of the core never meets the VDP in the wrong state.
LEMMA CpuTurnKeeps ==
  ASSUME BusInv, CpuTurn
  PROVE  BusInv'
<1> USE DEF BusInv
<1>1. Tick /\ turn = "z80" /\ turn' = "vdp" /\ edge' = edge /\ vdp' = vdp
  BY DEF CpuTurn
<1>2. IInv' /\ WriteSpace'
  BY <1>1, NextKeeps, WriteSpaceKept DEF Next
<1>3. Began \/ Lasted \/ Ended \/ Elsewhere
  BY <1>1, HalfClock
<1>4. /\ n_ioreq \in 0..1 /\ n_rd \in 0..1 /\ n_wr \in 0..1
      /\ n_ioreq' \in 0..1 /\ n_rd' \in 0..1 /\ n_wr' \in 0..1
  BY <1>2 DEF IInv, TypeOK, Bit
<1>5. BusTypes'
  <2>1. port' \in Ports
    BY DEF CpuTurn, BusTypes, Ports
  <2>2. bus' \in PortByte
    BY PortAssumption DEF CpuTurn, BusTypes, VdpTypeOK
  <2>3. Shown'
    <3>1. Visible(Visible(vdp)) = Visible(vdp)
      BY VisibleTwice DEF BusTypes, VdpTypeOK
    <3>2. CASE shown' = shown
      BY <3>2 DEF BusTypes, Shown, Visible
    <3>3. CASE shown' = [vdp |-> Visible(vdp), console |-> console]
      BY <3>1, <3>3 DEF Shown, Visible
    <3> QED
      BY <3>2, <3>3 DEF CpuTurn
  <2> QED
    BY <1>1, <2>1, <2>2, <2>3 DEF BusTypes, VdpTypeOK
<1>6. Quiet'
  <2> SUFFICES ASSUME InCycle' PROVE (count < MAX_ACCESSES \/ port = "other")'
    BY DEF Quiet
  <2>1. Starts \/ InCycle
    BY <1>1, CycleEntered
  <2>2. ~(Ends /\ n_ioreq = 0)
    BY <1>3 DEF Began, Lasted, Ended, Elsewhere, InCycle
  <2>3. count' = count
    BY <2>2 DEF CpuTurn
  <2>4. CASE Starts
    BY <2>3, <2>4 DEF CpuTurn
  <2>5. CASE ~Starts
    BY <2>1, <2>3, <2>5 DEF CpuTurn, Quiet
  <2> QED
    BY <2>4, <2>5
<1>7. CASE Began
  <2>1. vdp.ioreq_done = 0
    BY <1>1, <1>7 DEF Began, Reads, Writes, AccessInv, Rearming, BusTypes, VdpTypeOK, VdpState
  <2>2. ~Starts /\ ~(Ends /\ n_ioreq = 0) /\ (n_rd' = 1 <=> Requests)
    BY <1>7 DEF Began, Reads, Writes, Starts, Requests
  <2>3. /\ port' = port /\ shown' = shown
        /\ console' = IF n_rd' = 1 /\ port = "sdsc" THEN console + 1 ELSE console
    BY <2>2 DEF CpuTurn
  <2>4. Rearming' /\ Serving'
    BY <1>1, <1>7, <2>1 DEF Began, Reads, Writes, Rearming, Serving, Strobed
  <2>5. ~Acted /\ ~Acted'
    BY <1>1, <2>1 DEF Acted
  <2>6. Accounted'
    BY <1>1, <1>7, <2>3, <2>5 DEF Began, AccessInv, Accounted, Visible
  <2> QED
    BY <1>2, <1>5, <1>6, <2>4, <2>6 DEF AccessInv
<1>8. CASE Lasted
  <2>1. /\ port' = port /\ bus' = bus /\ console' = console /\ shown' = shown
    BY <1>8 DEF CpuTurn, Lasted, Requests, Writes
  <2>2. Rearming'
    BY <1>8 DEF Lasted, Rearming
  <2>3. Acted' <=> Acted
    BY <1>1, <1>8 DEF Lasted, Acted
  <2>4. Answers' <=> Answers
    BY <1>8, <2>1 DEF Lasted, Answers
  <2>5. Strobed => Strobed'
    BY <1>4, <1>8 DEF Lasted, Strobed
  <2>6. Accounted'
    <3>1. EffectOn(shown.vdp)' = EffectOn(shown.vdp)
      BY <1>8, <2>1 DEF Lasted, EffectOn
    <3> QED
      BY <1>1, <1>8, <2>1, <2>3, <2>4, <2>5, <3>1 DEF Lasted, AccessInv, Accounted, Visible
  <2>7. Serving'
    <3> SUFFICES ASSUME Answers, Strobed', vdp.ioreq_done = 0
                 PROVE  \/ Reads(4)' \/ Writes(6)'
                        \/ (Reads(5)' \/ Writes(7)') /\ edge = 0
      BY <1>1, <2>4 DEF Serving
    <3>1. CASE stage = "M2"
      <4>1. Strobed
        BY <1>8, <3>1, RequestPins DEF Lasted, Strobed
      <4>2. Reads(4) /\ edge = 0
        BY <1>1, <1>8, <3>1, <4>1 DEF AccessInv, Serving, Lasted, Reads, Writes
      <4>3. Reads(5)'
        BY <1>8, <3>1, <4>2 DEF Lasted, Reads
      <4> QED
        BY <4>2, <4>3
    <3>2. CASE stage # "M2"
      <4>1. n_rd' = 1 /\ n_wr' = 0
        BY <1>4, <1>8, <3>2, RequestPins DEF Lasted, Strobed
      <4>2. CASE n_wr = 1
        <5>1. ~Writes(6)
          BY <1>8, <4>2, RequestPins DEF Lasted, Writes
        <5> QED
          BY <1>8, <4>1, <5>1 DEF Lasted
      <4>3. CASE n_wr = 0
        <5>1. Strobed /\ Writes(6) /\ Writes(7)'
          BY <1>8, <4>1, <4>3 DEF Lasted, Strobed
        <5>2. edge = 0
          BY <1>1, <1>8, <5>1 DEF AccessInv, Serving, Lasted, Reads, Writes
        <5> QED
          BY <5>1, <5>2
      <4> QED
        BY <1>4, <4>2, <4>3
    <3> QED
      BY <3>1, <3>2
  <2> QED
    BY <1>2, <1>5, <1>6, <2>2, <2>6, <2>7 DEF AccessInv
<1>9. CASE Ended
  <2>1. ~Acted' /\ Rearming' /\ Serving'
    BY <1>1, <1>9 DEF Ended, Acted, Rearming, Serving
  <2>2. ~Requests /\ ~Starts /\ InCycle
    BY <1>9 DEF Ended, Ends, Requests, Starts, InCycle
  <2>3. console' = console /\ bus' = bus /\ port' = port
    BY <2>2 DEF CpuTurn
  <2>4. CASE count < MAX_ACCESSES
    <3>1. shown' = [vdp |-> Visible(vdp), console |-> console]
      BY <1>9, <2>4 DEF Ended, CpuTurn
    <3> QED
      BY <1>1, <1>2, <1>5, <1>6, <1>9, <2>1, <2>3, <3>1
      DEF Ended, AccessInv, Accounted, Visible
  <2>5. CASE ~(count < MAX_ACCESSES)
    <3>1. shown' = shown /\ port = "other"
      BY <2>2, <2>5 DEF CpuTurn, Quiet
    <3>2. ~Acted
      BY <3>1 DEF AccessInv, Accounted, Answers
    <3> QED
      BY <1>1, <1>2, <1>5, <1>6, <1>9, <2>1, <2>3, <3>1, <3>2
      DEF Ended, AccessInv, Accounted, Visible
  <2> QED
    BY <2>4, <2>5
<1>10. CASE Elsewhere
  <2>1. ~Requests /\ ~Acted /\ ~Acted' /\ Serving'
    BY <1>10 DEF Elsewhere, Acted, Serving
  <2>2. console' = console /\ shown' = shown
    BY <1>10, <2>1 DEF Elsewhere, CpuTurn
  <2>3. Rearming'
    BY <1>1, <1>10 DEF Elsewhere, AccessInv, Rearming
  <2> QED
    BY <1>1, <1>2, <1>5, <1>6, <1>10, <2>1, <2>2, <2>3
    DEF Elsewhere, AccessInv, Accounted, Visible
<1> QED
  BY <1>3, <1>7, <1>8, <1>9, <1>10

Acts == VdpControlRead \/ VdpControlWrite \/ VdpDataRead \/ VdpDataWrite \/ VdpCounterRead

\* The VDP acts on an access that waits for it, with the effect on what is visible
\* that the function of the access has.
LEMMA ActsOnce ==
  ASSUME BusInv, Acts, port' = port, n_rd' = n_rd, shown' = shown
  PROVE  /\ Answers /\ Strobed /\ n_ioreq = 0 /\ ~Acted
         /\ vdp' \in VdpState /\ bus' \in PortByte /\ vdp'.ioreq_done = 1
         /\ Visible(vdp') = Visible(EffectOn(shown.vdp)')
         /\ n_rd = 0 /\ port = "control" => bus' = shown.vdp.status
         /\ n_rd = 0 /\ port = "data" => bus' = shown.vdp.buffer
<1> USE DEF BusInv
<1>1. /\ vdp \in VdpState /\ bus \in PortByte /\ 1 \in Bit
      /\ vdp.ioreq_done = 0 /\ n_ioreq = 0 /\ ~Acted
  BY DEF BusTypes, VdpTypeOK, Bit, Acts, VdpControlRead, VdpControlWrite, VdpDataRead,
         VdpDataWrite, VdpCounterRead, Acting, Acted
<1>2. shown.vdp = Visible(vdp)
  BY <1>1 DEF AccessInv, Accounted
<1>3. ASSUME NEW m \in VdpState, Served(m)
      PROVE  vdp' \in VdpState /\ vdp'.ioreq_done = 1 /\ Visible(vdp') = Visible(m)
  <2>1. vdp' = Update(Marked(m, 1))
    BY <1>3 DEF Served, Marked
  <2>2. Marked(m, 1) \in VdpState
    BY <1>1, UpdateTyped
  <2> QED
    BY <1>1, <2>1, <2>2, UpdateTyped, UpdateInvisible
<1>4. CASE VdpControlRead
  <2>1. port = "control" /\ n_rd = 0 /\ bus' = vdp.status /\ Served(ControlRead(vdp))
    BY <1>4 DEF VdpControlRead
  <2>2. ControlRead(vdp) \in VdpState
    BY <1>1, ControlTyped
  <2>3. bus' \in PortByte
    BY <1>1, <2>1 DEF VdpState
  <2>4. EffectOn(shown.vdp)' = ControlRead(shown.vdp)
    BY <2>1, <1>1 DEF EffectOn
  <2> QED
    BY <1>1, <1>2, <1>3, <2>1, <2>2, <2>3, <2>4, EffectsVisible DEF Answers, Strobed
<1>5. CASE VdpControlWrite
  <2>1. /\ port = "control" /\ n_rd = 1 /\ n_wr = 0 /\ bus' = bus
        /\ Served(ControlWrite(vdp, bus))
    BY <1>5 DEF VdpControlWrite
  <2>2. ControlWrite(vdp, bus) \in VdpState
    BY <1>1, ControlTyped
  <2>3. EffectOn(shown.vdp)' = ControlWrite(shown.vdp, bus)
    BY <2>1 DEF EffectOn
  <2> QED
    BY <1>1, <1>2, <1>3, <2>1, <2>2, <2>3, EffectsVisible DEF Answers, Strobed
<1>6. CASE VdpDataRead
  <2>1. port = "data" /\ n_rd = 0 /\ bus' = vdp.buffer /\ Served(DataRead(vdp))
    BY <1>6 DEF VdpDataRead
  <2>2. DataRead(vdp) \in VdpState
    BY <1>1, ReadTyped
  <2>3. bus' \in PortByte
    BY <1>1, <2>1 DEF VdpState
  <2>4. EffectOn(shown.vdp)' = DataRead(shown.vdp)
    BY <2>1 DEF EffectOn
  <2> QED
    BY <1>1, <1>2, <1>3, <2>1, <2>2, <2>3, <2>4, EffectsVisible DEF Answers, Strobed
<1>7. CASE VdpDataWrite
  <2>1. /\ port = "data" /\ n_rd = 1 /\ n_wr = 0 /\ bus' = bus
        /\ Served(DataWrite(vdp, bus))
    BY <1>7 DEF VdpDataWrite
  <2>2. DataWrite(vdp, bus) \in VdpState
    BY <1>1, WriteTyped
  <2>3. EffectOn(shown.vdp)' = DataWrite(shown.vdp, bus)
    BY <2>1 DEF EffectOn
  <2> QED
    BY <1>1, <1>2, <1>3, <2>1, <2>2, <2>3, EffectsVisible DEF Answers, Strobed
<1>8. CASE VdpCounterRead
  <2>1. port = "counter" /\ n_rd = 0 /\ Served(vdp)
        /\ bus' \in {vdp.h \div 2, vdp.regs[LINE_COUNTER]}
    BY <1>8 DEF VdpCounterRead
  <2>2. bus' \in PortByte
    BY <1>1, <2>1, CountersFit
  <2>3. EffectOn(shown.vdp)' = shown.vdp
    BY <2>1 DEF EffectOn
  <2>4. Visible(shown.vdp) = Visible(vdp)
    BY <1>1, <1>2, VisibleTwice
  <2> QED
    BY <1>1, <1>3, <2>1, <2>2, <2>3, <2>4 DEF Answers, Strobed
<1> QED
  BY <1>4, <1>5, <1>6, <1>7, <1>8 DEF Acts

\* The other half of the loop keeps the invariant: the VDP acts on an access that
\* waits for it, and is armed again once the access is over.
LEMMA VdpTurnKeeps ==
  ASSUME BusInv, VdpTurn
  PROVE  BusInv'
<1> USE DEF BusInv
<1>1. /\ turn = "vdp" /\ turn' = "z80" /\ edge' = 1 - edge /\ edge \in 0..1
      /\ UNCHANGED <<vars, port, console, shown>> /\ count' = count
  BY DEF VdpTurn, BusTypes, Bit
<1>2. /\ stage' = stage /\ n_ioreq' = n_ioreq /\ n_rd' = n_rd /\ n_wr' = n_wr
      /\ m2_tick_count' = m2_tick_count /\ m3_tick_count' = m3_tick_count
      /\ ins' = ins /\ write_is_io' = write_is_io /\ port' = port
      /\ console' = console /\ shown' = shown /\ n_ioreq \in 0..1
  BY <1>1 DEF vars, ticks, pipe, indices, operand, control, IInv, TypeOK, Bit
<1>3. IInv' /\ WriteSpace' /\ Quiet'
  BY <1>1, <1>2, StutterKeeps DEF WriteSpace, Quiet, InCycle, Starts
<1>4. (Strobed' <=> Strobed) /\ (Answers' <=> Answers)
  BY <1>2 DEF Strobed, Answers
<1>5. ASSUME vdp' \in VdpState, bus' \in PortByte
      PROVE  BusTypes'
  BY <1>1, <1>2, <1>5 DEF BusTypes, VdpTypeOK, Shown, Visible, Bit
<1>6. vdp \in VdpState /\ bus \in PortByte /\ vdp.ioreq_done \in 0..1
  BY DEF BusTypes, VdpTypeOK, VdpState
<1>7. CASE edge = 1
  <2>1. vdp' = vdp /\ bus' = bus /\ edge' = 0
    BY <1>1, <1>7 DEF VdpTurn
  <2>2. Rearming' /\ Serving'
    BY <1>1, <1>2, <1>4, <1>7, <2>1 DEF AccessInv, Rearming, Serving, Reads, Writes
  <2>3. Accounted'
    BY <1>2, <1>4, <2>1 DEF AccessInv, Accounted, Acted, EffectOn, Visible
  <2> QED
    BY <1>3, <1>5, <1>6, <2>1, <2>2, <2>3 DEF AccessInv
<1>8. CASE edge = 0
  <2>1. VdpTick /\ edge' = 1
    BY <1>1, <1>8 DEF VdpTurn
  <2>2. CASE Acts
    <3>1. /\ Answers /\ Strobed /\ n_ioreq = 0
          /\ vdp' \in VdpState /\ bus' \in PortByte /\ vdp'.ioreq_done = 1
          /\ Visible(vdp') = Visible(EffectOn(shown.vdp)')
          /\ n_rd = 0 /\ port = "control" => bus' = shown.vdp.status
          /\ n_rd = 0 /\ port = "data" => bus' = shown.vdp.buffer
      BY <1>2, <2>2, ActsOnce
    <3>2. Acted' /\ Rearming' /\ Serving'
      BY <1>2, <3>1 DEF Acted, Rearming, Serving
    <3>3. Visible(vdp)' = Visible(EffectOn(shown.vdp))'
      BY <3>1 DEF Visible
    <3>4. Accounted'
      BY <1>2, <1>4, <3>1, <3>2, <3>3 DEF AccessInv, Accounted
    <3> QED
      BY <1>3, <1>5, <3>1, <3>2, <3>4 DEF AccessInv
  <2>3. CASE VdpIdle
    <3>1. vdp' = Update(vdp) /\ bus' = bus /\ vdp.ioreq_done = 0
      BY <2>3 DEF VdpIdle
    <3>2. vdp' \in VdpState /\ vdp'.ioreq_done = 0 /\ Visible(vdp') = Visible(vdp)
      BY <1>6, <3>1, UpdateTyped, UpdateInvisible DEF Bit
    <3>3. n_ioreq = 1 \/ ~Answers \/ ~Strobed
      BY <2>3, RequestPins DEF VdpIdle, Answers, Strobed
    <3>4. Rearming' /\ Serving'
      BY <1>2, <1>4, <3>2, <3>3 DEF Rearming, Serving
    <3>5. ~Acted /\ ~Acted'
      BY <3>1, <3>2 DEF Acted
    <3>6. Visible(vdp)' = Visible(vdp)
      BY <3>2 DEF Visible
    <3>7. Accounted'
      BY <1>2, <3>1, <3>5, <3>6 DEF AccessInv, Accounted
    <3> QED
      BY <1>3, <1>5, <1>6, <3>1, <3>2, <3>4, <3>7 DEF AccessInv
  <2>4. CASE VdpRearm
    <3> DEFINE d == IF n_ioreq = 1 THEN 0 ELSE 1
    <3>1. vdp' = Update(Marked(vdp, d)) /\ bus' = bus /\ vdp.ioreq_done = 1 /\ d \in Bit
      BY <2>4 DEF VdpRearm, Marked, Bit
    <3>2. Marked(vdp, d) \in VdpState
      BY <1>6, <3>1, UpdateTyped
    <3>3. vdp' \in VdpState /\ vdp'.ioreq_done = d /\ Visible(vdp') = Visible(vdp)
      BY <1>6, <3>1, <3>2, UpdateTyped, UpdateInvisible
    <3>4. Rearming' /\ Serving'
      BY <1>2, <3>3 DEF Rearming, Serving
    <3>5. Acted' <=> Acted
      BY <1>2, <3>1, <3>3 DEF Acted
    <3>6. Visible(vdp)' = Visible(vdp)
      BY <3>3 DEF Visible
    <3>7. Accounted'
      BY <1>2, <1>4, <3>1, <3>5, <3>6 DEF AccessInv, Accounted, EffectOn, Visible
    <3> QED
      BY <1>3, <1>5, <1>6, <3>1, <3>3, <3>4, <3>7 DEF AccessInv
  <2> QED
    BY <2>1, <2>2, <2>3, <2>4 DEF VdpTick, Acts
<1> QED
  BY <1>1, <1>7, <1>8

\* A line that moves changes nothing the VDP sees.
LEMMA LinesKeep ==
  ASSUME BusInv, LineMoves
  PROVE  BusInv'
<1> USE DEF BusInv
<1>1. MoveLine /\ UNCHANGED <<turn, edge, vdp, port, bus, console, shown, last, count>>
  BY DEF LineMoves
<1>2. IInv'
  BY <1>1, NextKeeps DEF Next, Board
<1>3. /\ stage' = stage /\ n_ioreq' = n_ioreq /\ n_rd' = n_rd /\ n_wr' = n_wr
      /\ m2_tick_count' = m2_tick_count /\ m3_tick_count' = m3_tick_count
      /\ ins' = ins /\ write_is_io' = write_is_io
  BY <1>1 DEF MoveLine, ticks, pipe, indices, operand, control
<1> QED
  BY <1>1, <1>2, <1>3 DEF WriteSpace, BusTypes, VdpTypeOK, Shown, Quiet, InCycle, Starts,
     AccessInv, Rearming, Serving, Accounted, Acted, Answers, Strobed, Reads, Writes,
     EffectOn, Visible

\* Whoever runs next, the invariant holds.
LEMMA BusNextKeeps == BusInv /\ [BusNext]_vdpVars => BusInv'
<1> SUFFICES ASSUME BusInv, [BusNext]_vdpVars PROVE BusInv'
  OBVIOUS
<1>1. CASE CpuTurn
  BY <1>1, CpuTurnKeeps
<1>2. CASE VdpTurn
  BY <1>2, VdpTurnKeeps
<1>3. CASE LineMoves
  BY <1>3, LinesKeep
<1>4. CASE UNCHANGED vdpVars
  <2>1. /\ UNCHANGED vars
        /\ UNCHANGED <<turn, edge, vdp, port, bus, console, shown, last, count>>
    BY <1>4 DEF vdpVars
  <2>2. IInv'
    BY <2>1, StutterKeeps DEF BusInv
  <2>3. /\ stage' = stage /\ n_ioreq' = n_ioreq /\ n_rd' = n_rd /\ n_wr' = n_wr
        /\ m2_tick_count' = m2_tick_count /\ m3_tick_count' = m3_tick_count
        /\ ins' = ins /\ write_is_io' = write_is_io
    BY <2>1 DEF vars, ticks, pipe, indices, operand, control
  <2> QED
    BY <2>1, <2>2, <2>3 DEF BusInv, WriteSpace, BusTypes, VdpTypeOK, Shown, Quiet, InCycle,
       Starts, AccessInv, Rearming, Serving, Accounted, Acted, Answers, Strobed, Reads,
       Writes, EffectOn, Visible
<1> QED
  BY <1>1, <1>2, <1>3, <1>4 DEF BusNext
-----------------------------------------------------------------------------
(***************************************************************************)
(* The theorems.                                                           *)
(***************************************************************************)

\* The strengthened invariant holds of every half-clock of the loop.
THEOREM BusInvariance == BusSpec => []BusInv
<1> QED
  BY BusInitEstablishes, BusNextKeeps, PTL DEF BusSpec

\* struct vdp_s stays in its ranges, for every size of the memories and the counters:
\* vdp.c never indexes its VRAM outside of it.
THEOREM VdpTypeCorrect == BusSpec => []VdpTypeOK
<1>1. BusInv => VdpTypeOK
  BY DEF BusInv, BusTypes
<1> QED
  BY <1>1, BusInvariance, PTL

\* The VDP has acted before the access ends, whichever half-clocks it is ticked on.
THEOREM AccessesServed == BusSpec => []ServedInTime
<1>1. BusInv => ServedInTime
  <2> SUFFICES ASSUME BusInv, turn = "z80", Ends, n_ioreq = 0, Answers
               PROVE  vdp.ioreq_done = 1
    BY DEF ServedInTime
  <2> USE DEF BusInv
  <2>1. vdp.ioreq_done \in 0..1
    BY DEF BusTypes, VdpTypeOK, VdpState
  <2>2. Strobed /\ ~Reads(4) /\ ~Writes(6)
    BY RequestPins DEF Strobed, Ends, Reads, Writes
  <2> QED
    BY <2>1, <2>2 DEF AccessInv, Serving
<1> QED
  BY <1>1, BusInvariance, PTL

\* It is armed again when the next access begins.
THEOREM VdpRearmed == BusSpec => []RearmedInTime
<1>1. BusInv => RearmedInTime
  <2> SUFFICES ASSUME BusInv, Starts PROVE vdp.ioreq_done = 0
    BY DEF RearmedInTime
  <2> USE DEF BusInv
  <2>1. vdp.ioreq_done \in 0..1
    BY DEF BusTypes, VdpTypeOK, VdpState
  <2>2. n_ioreq = 1 /\ stage \in {"M2", "M3"}
    BY RequestPins DEF Starts
  <2> QED
    BY <2>1, <2>2 DEF AccessInv, Rearming
<1> QED
  BY <1>1, BusInvariance, PTL
-----------------------------------------------------------------------------
(***************************************************************************)
(* VdpBus implements VdpPorts.                                             *)
(***************************************************************************)

\* Both modules use the same functions.
LEMMA SameFunctions ==
  ASSUME NEW v, NEW b
  PROVE  /\ PortsSpec!ControlRead(v) = ControlRead(v)
         /\ PortsSpec!ControlWrite(v, b) = ControlWrite(v, b)
         /\ PortsSpec!DataRead(v) = DataRead(v)
         /\ PortsSpec!DataWrite(v, b) = DataWrite(v, b)
         /\ PortsSpec!Visible(v) = Visible(v)
         /\ PortsSpec!VdpInit = VdpInit /\ PortsSpec!PortByte = PortByte
<1> USE DEF PORT_BYTE, VRAM_SIZE, PortsSpec!PORT_BYTE, PortsSpec!VRAM_SIZE
<1>1. PortsSpec!ControlRead(v) = ControlRead(v)
  BY DEF ControlRead, PortsSpec!ControlRead
<1>2. PortsSpec!ControlWrite(v, b) = ControlWrite(v, b)
  BY DEF ControlWrite, FirstControl, SecondControl, Address, Mode, VRAM_READ, REGISTER,
         PortsSpec!ControlWrite, PortsSpec!FirstControl, PortsSpec!SecondControl,
         PortsSpec!Address, PortsSpec!Mode, PortsSpec!VRAM_READ, PortsSpec!REGISTER
<1>3. PortsSpec!DataRead(v) = DataRead(v)
  BY DEF DataRead, NextAddress, PortsSpec!DataRead, PortsSpec!NextAddress
<1>4. PortsSpec!DataWrite(v, b) = DataWrite(v, b)
  BY DEF DataWrite, NextAddress, CRAM, PortsSpec!DataWrite, PortsSpec!NextAddress,
         PortsSpec!CRAM
<1>5. PortsSpec!Visible(v) = Visible(v)
  BY DEF Visible, PortsSpec!Visible
<1>6. PortsSpec!VdpInit = VdpInit /\ PortsSpec!PortByte = PortByte
  BY DEF VdpInit, PortsSpec!VdpInit, PortByte, PortsSpec!PortByte
<1> QED
  BY <1>1, <1>2, <1>3, <1>4, <1>5, <1>6

\* At power-up no access has completed.
LEMMA InitImplemented == BusInit => PortsSpec!Init
BY SameFunctions DEF BusInit, PortsSpec!Init

\* The half-clock that ends an access to a port is the step of VdpPorts: what it did
\* to the VDP or to the console becomes known, and nothing else does.
LEMMA EndImplements ==
  ASSUME BusInv, CpuTurn, Ends, n_ioreq = 0, count < MAX_ACCESSES
  PROVE  PortsSpec!Next
<1> USE DEF BusInv
<1>1. /\ turn = "z80" /\ vdp \in VdpState /\ bus \in PortByte /\ port \in Ports /\ Shown
      /\ n_rd \in 0..1
  BY RequestPins DEF CpuTurn, BusTypes, VdpTypeOK
<1>2. /\ last' = [port |-> port, write |-> stage = "M3", byte |-> bus]
      /\ count' = count + 1
      /\ shown' = [vdp |-> Visible(vdp), console |-> console]
  BY DEF CpuTurn
<1>3. stage \in {"M2", "M3"} /\ (stage = "M3" <=> n_rd = 1) /\ Strobed
  BY RequestPins DEF Ends, Strobed
<1>4. Acted <=> Answers
  <2>1. ServedInTime
    <3>1. vdp.ioreq_done \in 0..1
      BY <1>1 DEF VdpState
    <3>2. ~Reads(4) /\ ~Writes(6)
      BY DEF Ends, Reads, Writes
    <3> QED
      BY <1>3, <3>1, <3>2 DEF AccessInv, Serving, ServedInTime
  <2> QED
    BY <1>1, <2>1 DEF ServedInTime, AccessInv, Accounted, Acted
<1>5. Visible(vdp) = IF Acted THEN Visible(EffectOn(shown.vdp)) ELSE shown.vdp
  BY DEF AccessInv, Accounted
<1>6. console = IF n_rd = 1 /\ port = "sdsc" THEN shown.console + 1 ELSE shown.console
  BY DEF AccessInv, Accounted
<1>7. SUFFICES PortsSpec!Out(port, bus) \/ PortsSpec!In(port, bus)
  BY <1>1, SameFunctions DEF PortsSpec!Next, Ports
<1>8. ASSUME NEW m, Visible(vdp) = Visible(m), console = shown.console
      PROVE  PortsSpec!Effect(m)
  <2>1. shown' = [shown EXCEPT !.vdp = Visible(m)]
    BY <1>1, <1>2, <1>8 DEF Shown
  <2> QED
    BY <2>1, SameFunctions DEF PortsSpec!Effect
<1>9. ASSUME Visible(vdp) = shown.vdp, console = shown.console
      PROVE  shown' = shown
  BY <1>1, <1>2, <1>9 DEF Shown
<1>10. CASE n_rd = 1
  <2>1. PortsSpec!Complete(port, TRUE, bus)
    BY <1>2, <1>3, <1>10 DEF PortsSpec!Complete
  <2>2. CASE port = "control"
    <3>1. Visible(vdp) = Visible(ControlWrite(shown.vdp, bus)) /\ console = shown.console
      BY <1>4, <1>5, <1>6, <1>10, <2>2 DEF Answers, EffectOn
    <3>2. PortsSpec!Effect(PortsSpec!ControlWrite(shown.vdp, bus))
      BY <1>8, <3>1, SameFunctions
    <3> QED
      BY <2>1, <2>2, <3>2 DEF PortsSpec!Out
  <2>3. CASE port = "data"
    <3>1. Visible(vdp) = Visible(DataWrite(shown.vdp, bus)) /\ console = shown.console
      BY <1>4, <1>5, <1>6, <1>10, <2>3 DEF Answers, EffectOn
    <3>2. PortsSpec!Effect(PortsSpec!DataWrite(shown.vdp, bus))
      BY <1>8, <3>1, SameFunctions
    <3> QED
      BY <2>1, <2>3, <3>2 DEF PortsSpec!Out
  <2>4. CASE port = "sdsc"
    <3>1. Visible(vdp) = shown.vdp /\ console = shown.console + 1
      BY <1>4, <1>5, <1>6, <1>10, <2>4 DEF Answers
    <3>2. shown' = [shown EXCEPT !.console = @ + 1]
      BY <1>1, <1>2, <3>1 DEF Shown
    <3> QED
      BY <2>1, <2>4, <3>2 DEF PortsSpec!Out
  <2>5. CASE port \in {"counter", "other"}
    <3>1. Visible(vdp) = shown.vdp /\ console = shown.console
      BY <1>4, <1>5, <1>6, <1>10, <2>5 DEF Answers
    <3> QED
      BY <1>9, <2>1, <2>5, <3>1 DEF PortsSpec!Out
  <2> QED
    BY <1>1, <2>2, <2>3, <2>4, <2>5 DEF Ports
<1>11. CASE n_rd = 0
  <2>1. PortsSpec!Complete(port, FALSE, bus)
    <3>1. (stage = "M3") = FALSE
      BY <1>3, <1>11
    <3> QED
      BY <1>2, <3>1 DEF PortsSpec!Complete
  <2>2. console = shown.console
    BY <1>6, <1>11
  <2>3. CASE port = "control"
    <3>1. Visible(vdp) = Visible(ControlRead(shown.vdp)) /\ bus = shown.vdp.status
      BY <1>4, <1>5, <1>11, <2>3 DEF Answers, EffectOn, AccessInv, Accounted
    <3>2. PortsSpec!Effect(PortsSpec!ControlRead(shown.vdp))
      BY <1>8, <2>2, <3>1, SameFunctions
    <3> QED
      BY <2>1, <2>3, <3>1, <3>2 DEF PortsSpec!In
  <2>4. CASE port = "data"
    <3>1. Visible(vdp) = Visible(DataRead(shown.vdp)) /\ bus = shown.vdp.buffer
      BY <1>4, <1>5, <1>11, <2>4 DEF Answers, EffectOn, AccessInv, Accounted
    <3>2. PortsSpec!Effect(PortsSpec!DataRead(shown.vdp))
      BY <1>8, <2>2, <3>1, SameFunctions
    <3> QED
      BY <2>1, <2>4, <3>1, <3>2 DEF PortsSpec!In
  <2>5. CASE port \notin {"control", "data"}
    <3>1. Visible(vdp) = shown.vdp
      BY <1>1, <1>5, <1>11, <2>5 DEF EffectOn, Shown
    <3> QED
      BY <1>9, <2>1, <2>2, <2>5, <3>1 DEF PortsSpec!In
  <2> QED
    BY <2>3, <2>4, <2>5
<1> QED
  BY <1>1, <1>10, <1>11

\* Every other half-clock, the VDP's and the lines, changes nothing the program knows.
LEMMA StepImplements == BusInv /\ [BusNext]_vdpVars => [PortsSpec!Next]_(PortsSpec!vars)
<1> SUFFICES ASSUME BusInv, [BusNext]_vdpVars PROVE [PortsSpec!Next]_(PortsSpec!vars)
  OBVIOUS
<1>1. CASE CpuTurn
  <2>1. CASE Ends /\ n_ioreq = 0 /\ count < MAX_ACCESSES
    BY <1>1, <2>1, EndImplements
  <2>2. CASE ~(Ends /\ n_ioreq = 0 /\ count < MAX_ACCESSES)
    BY <1>1, <2>2 DEF CpuTurn, PortsSpec!vars
  <2> QED
    BY <2>1, <2>2
<1>2. CASE VdpTurn
  BY <1>2 DEF VdpTurn, PortsSpec!vars
<1>3. CASE LineMoves
  BY <1>3 DEF LineMoves, PortsSpec!vars
<1>4. CASE UNCHANGED vdpVars
  BY <1>4 DEF vdpVars, PortsSpec!vars
<1> QED
  BY <1>1, <1>2, <1>3, <1>4 DEF BusNext

\* Each IN and each OUT has its effect exactly once, in program order: the clocked
\* loop implements the ports without a bus and without a clock.
THEOREM PortsImplemented == BusSpec => ImplementsPorts
<1> QED
  BY BusInvariance, InitImplemented, StepImplements, PTL
  DEF BusSpec, ImplementsPorts, PortsSpec!Spec
=============================================================================
