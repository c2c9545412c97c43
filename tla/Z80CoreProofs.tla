--------------------------- MODULE Z80CoreProofs ---------------------------
(***************************************************************************)
(* Proofs about the bus protocol of module Z80Core, for every instruction  *)
(* set that satisfies OpsAssumption, every width of a byte and every set   *)
(* of input lines.                                                         *)
(*                                                                         *)
(* The inductive invariant is IInv. Each group of actions has a lemma that *)
(* says it preserves IInv; the theorems at the end combine them.           *)
(***************************************************************************)
EXTENDS Z80Core, TLAPS

-----------------------------------------------------------------------------
(***************************************************************************)
(* Words and bytes.                                                        *)
(***************************************************************************)

\* There is at least one word.
LEMMA WordPositive == WORD \in Nat /\ WORD > 0
BY ByteAssumption DEF WORD

\* Sixteen-bit addition stays within a word, whatever is added.
LEMMA PlusInWord ==
  ASSUME NEW w \in Int, NEW n \in Int
  PROVE  Plus(w, n) \in Word
BY WordPositive DEF Plus, Word

\* The two halves of a word are bytes.
LEMMA HalvesAreBytes ==
  ASSUME NEW w \in Word
  PROVE  Lo(w) \in Byte /\ Hi(w) \in Byte
<1>1. BYTE \in Nat /\ BYTE > 0 /\ w \in Nat /\ w < BYTE * BYTE
  BY ByteAssumption, WordPositive DEF Word, WORD
<1>2. (w % BYTE) \in 0..(BYTE - 1)
  BY <1>1
<1>3. w \div BYTE \in Nat /\ w = BYTE * (w \div BYTE) + (w % BYTE)
  BY <1>1
<1>4. w \div BYTE < BYTE
  BY <1>1, <1>2, <1>3
<1> QED
  BY <1>1, <1>2, <1>3, <1>4 DEF Lo, Hi, Byte

\* Two bytes make a word.
LEMMA PairInWord ==
  ASSUME NEW b \in Buffer
  PROVE  Pair(b) \in Word
<1>1. BYTE \in Nat /\ BYTE > 0
  BY ByteAssumption
<1>2. b[0] \in 0..(BYTE - 1) /\ b[1] \in 0..(BYTE - 1)
  BY DEF Buffer, Byte
<1>3. BYTE * b[1] <= BYTE * (BYTE - 1)
  BY <1>1, <1>2
<1>4. BYTE * (BYTE - 1) = BYTE * BYTE - BYTE
  BY <1>1
<1> QED
  BY <1>1, <1>2, <1>3, <1>4 DEF Pair, Word, WORD
-----------------------------------------------------------------------------

\* The half-clocks of a fetch count up and drive its pins in order.
LEMMA M1CountsKeep ==
  ASSUME IInv, M1Start \/ M1Request \/ M1Idle \/ M1SampleWait \/ M1Latch \/ M1Refresh
  PROVE  IInv'
<1> USE DEF IInv, TypeOK, Bit, TicksInRange, CycleOrder, PinsFollowCycle,
            FetchPins, ReadPins, WritePins, OtherPins, FetchRead, AllHigh, Low,
            pipe, indices, operand, regs, control, inputs
<1>1. CASE M1Start
  BY <1>1 DEF M1Start
<1>2. CASE M1Request
  BY <1>2 DEF M1Request
<1>3. CASE M1Idle
  BY <1>3 DEF M1Idle
<1>4. CASE M1SampleWait
  BY <1>4 DEF M1SampleWait
<1>5. CASE M1Latch
  BY <1>5 DEF M1Latch, RefreshAddress
<1>6. CASE M1Refresh
  BY <1>6 DEF M1Refresh
<1> QED
  BY <1>1, <1>2, <1>3, <1>4, <1>5, <1>6

\* So do those of a read.
LEMMA M2CountsKeep ==
  ASSUME IInv, M2Address \/ M2Request \/ M2Idle \/ M2SampleWait
  PROVE  IInv'
<1> USE DEF IInv, TypeOK, Bit, Template, TicksInRange, CycleOrder, PinsFollowCycle,
            FetchPins, ReadPins, WritePins, OtherPins, Reading, AllHigh, Low,
            pipe, indices, operand, regs, control, inputs
<1>1. CASE M2Address
  BY <1>1 DEF M2Address
<1>2. CASE M2Request
  BY <1>2 DEF M2Request
<1>3. CASE M2Idle
  BY <1>3 DEF M2Idle
<1>4. CASE M2SampleWait
  BY <1>4, OpsAssumption DEF M2SampleWait, M2Wait
<1> QED
  BY <1>1, <1>2, <1>3, <1>4

\* So do those of a write.
LEMMA M3CountsKeep ==
  ASSUME IInv, M3Address \/ M3Request \/ M3Idle \/ M3SampleWait
  PROVE  IInv'
<1> USE DEF IInv, TypeOK, Bit, Template, TicksInRange, CycleOrder, PinsFollowCycle,
            FetchPins, ReadPins, WritePins, OtherPins, Writing, AllHigh, Low,
            pipe, indices, operand, regs, control, inputs
<1>1. CASE M3Address
  BY <1>1 DEF M3Address, WriteTarget
<1>2. CASE M3Request
  <2>1. write_index \in 0..1
    BY <1>2, OpsAssumption DEF M3Request
  <2>2. write_buffer[write_index] \in Byte
    BY <2>1 DEF Buffer
  <2>3. write_index' = write_index + 1 /\ write_index' - 1 = write_index
    BY <1>2, <2>1 DEF M3Request
  <2>4. TypeOK'
    BY <1>2, <2>1, <2>2 DEF M3Request
  <2>5. TicksInRange'
    BY <1>2 DEF M3Request
  <2>6. CycleOrder'
    BY <1>2, <2>1, OpsAssumption DEF M3Request
  <2>7. WritePins'
    BY <1>2, <2>3 DEF M3Request
  <2>8. FetchPins' /\ ReadPins' /\ OtherPins'
    BY <1>2 DEF M3Request
  <2> QED
    BY <2>4, <2>5, <2>6, <2>7, <2>8
<1>3. CASE M3Idle
  BY <1>3 DEF M3Idle
<1>4. CASE M3SampleWait
  BY <1>4 DEF M3SampleWait
<1> QED
  BY <1>1, <1>2, <1>3, <1>4

\* The refresh drives its own pins and releases them before the boundary.
LEMMA RefreshKeeps ==
  ASSUME IInv, RefreshCycle
  PROVE  IInv'
<1> USE DEF IInv, TypeOK, Bit, TicksInRange, CycleOrder, PinsFollowCycle,
            FetchPins, ReadPins, WritePins, OtherPins, AllHigh, Low,
            ticks, pipe, indices, operand, regs, control, inputs
<1>1. CASE RefreshStart
  BY <1>1 DEF RefreshStart, RefreshAddress
<1>2. CASE RefreshRequest
  BY <1>2 DEF RefreshRequest
<1>3. CASE RefreshIdle
  BY <1>3 DEF RefreshIdle
<1>4. CASE RefreshDone
  BY <1>4 DEF RefreshDone, Stages
<1> QED
  BY <1>1, <1>2, <1>3, <1>4 DEF RefreshCycle
-----------------------------------------------------------------------------
(***************************************************************************)
(* The decoder ends a machine cycle: op is the operation it calls, with n  *)
(* opcode bytes, r bytes read and w bytes written so far.                  *)
(***************************************************************************)

\* What a call of the decoder may be passed: bytes move in the order opcode,
\* read, write.
InOrder(op, n, r, w) ==
  /\ n \in 1..op.size /\ r \in 0..op.reads /\ w \in 0..op.writes
  /\ n < op.size => r = 0 /\ w = 0
  /\ r < op.reads => w = 0

\* The operand addresses, the write buffer, PC and SP a template computes are
\* words and bytes.
LEMMA OperandsTyped ==
  ASSUME TypeOK, NEW op \in Ops, NEW pc1 \in Word, NEW buf \in Buffer
  PROVE  /\ ReadOperand(op) \subseteq Word /\ WriteOperand(op) \subseteq Word
         /\ WriteData(op, pc1, buf) \subseteq Buffer
         /\ NextPc(op, pc1, buf) \subseteq Word /\ NextSp(op) \subseteq Word
<1>0. /\ WORD \in Int /\ sp \in Word /\ sp \in Int /\ pc1 \in Int
      /\ read_address \in Word /\ write_buffer \in Buffer
  BY WordPositive DEF TypeOK, Word
<1>1. /\ Plus(sp, WORD - 2) \in Word /\ Plus(sp, 2) \in Word
      /\ Plus(pc1, WORD - 2) \in Word
  BY <1>0, PlusInWord
<1>2. ReadOperand(op) \subseteq Word /\ WriteOperand(op) \subseteq Word
  BY <1>0, <1>1 DEF ReadOperand, WriteOperand
<1>3. WriteData(op, pc1, buf) \subseteq Buffer
  <2>1. Lo(pc1) \in Byte /\ Hi(pc1) \in Byte
    BY HalvesAreBytes
  <2>2. [i \in 0..1 |-> IF i = 0 THEN Lo(pc1) ELSE Hi(pc1)] \in Buffer
    BY <2>1 DEF Buffer
  <2>3. \A b \in Byte : [write_buffer EXCEPT ![0] = b] \in Buffer
    BY <1>0 DEF Buffer
  <2>4. buf[0] \in Byte
    BY DEF Buffer
  <2> QED
    BY <2>2, <2>3, <2>4 DEF WriteData
<1>4. NextPc(op, pc1, buf) \subseteq Word
  BY <1>1, PairInWord DEF NextPc
<1>5. NextSp(op) \subseteq Word
  BY <1>0, <1>1 DEF NextSp
<1> QED
  BY <1>2, <1>3, <1>4, <1>5

\* A cycle that ends with its pins high and its count cleared hands over to the
\* cycle the decoder picked in a state that satisfies IInv.
LEMMA DecodeKeeps ==
  ASSUME TypeOK, NEW op \in Ops, NEW n, NEW r, NEW w,
         NEW pc1 \in Word, NEW buf \in Buffer,
         InOrder(op, n, r, w), r \in {0, op.reads} \/ read_is_io <= op.rio,
         Decode(op, n, r, w, pc1, buf),
         opcode_index' = n, read_index' = r, write_index' = w,
         m1_tick_count' = 0, m2_tick_count' = 0, m3_tick_count' = 0,
         AllHigh', read_buffer' \in Buffer, UNCHANGED inputs,
         n_rfsh' \in Bit, address' \in Word \cup {RefreshAddress}, data' \in Byte
  PROVE  IInv'
<1>1. /\ op.size \in 1..4 /\ op.reads \in 0..2 /\ op.writes \in 0..2
      /\ op.rio \in 0..1 /\ op.wio \in 0..1 /\ op.last \in {"RESET", "REFRESH"}
      /\ op.rio = 1 => op.reads < 2
  BY OpsAssumption DEF Template
<1>2. /\ ReadOperand(op) \subseteq Word /\ WriteOperand(op) \subseteq Word
      /\ WriteData(op, pc1, buf) \subseteq Buffer
      /\ NextPc(op, pc1, buf) \subseteq Word /\ NextSp(op) \subseteq Word
  BY OperandsTyped
<1>3. Plus(read_address, 1) \in Word /\ Plus(write_address, 1) \in Word
  <2>1. read_address \in Int /\ write_address \in Int
    BY WordPositive DEF TypeOK, Word
  <2> QED
    BY <2>1, PlusInWord
<1>4. /\ m1_tick_count' \in 0..9 /\ m2_tick_count' \in 0..7 /\ m3_tick_count' \in 0..7
      /\ opcode_index' \in 0..4 /\ read_index' \in 0..2 /\ write_index' \in 0..2
  BY <1>1 DEF InOrder
<1>5. /\ n_m1' \in Bit /\ n_mreq' \in Bit /\ n_ioreq' \in Bit /\ n_rd' \in Bit
      /\ n_wr' \in Bit /\ n_wait' \in Bit /\ n_int' \in Bit /\ n_nmi' \in Bit
  BY DEF TypeOK, AllHigh, Low, Bit, inputs
<1>6. CASE NeedOpcode(op, n, pc1)
  <2>1. TypeOK'
    BY <1>4, <1>5, <1>6 DEF NeedOpcode, TypeOK, Stages
  <2>2. TicksInRange' /\ CycleOrder' /\ PinsFollowCycle'
    BY <1>6 DEF NeedOpcode, InOrder, TicksInRange, CycleOrder, PinsFollowCycle,
                FetchPins, ReadPins, WritePins, OtherPins
  <2> QED
    BY <2>1, <2>2 DEF IInv
<1>7. CASE NeedRead(op, n, r, pc1)
  <2>1. TypeOK'
    BY <1>1, <1>2, <1>3, <1>4, <1>5, <1>7 DEF NeedRead, TypeOK, Stages, Bit
  <2>2. read_is_io' = op.rio
    BY <1>1, <1>7 DEF NeedRead, InOrder, TypeOK, Bit
  <2>3. TicksInRange' /\ CycleOrder' /\ PinsFollowCycle'
    BY <1>7, <2>2 DEF NeedRead, InOrder, TicksInRange, CycleOrder, PinsFollowCycle,
                FetchPins, ReadPins, WritePins, OtherPins
  <2> QED
    BY <2>1, <2>3 DEF IInv
<1>8. CASE NeedWrite(op, n, r, w, pc1, buf)
  <2>1. TypeOK'
    BY <1>1, <1>2, <1>3, <1>4, <1>5, <1>8 DEF NeedWrite, TypeOK, Stages, Bit
  <2>2. TicksInRange' /\ CycleOrder' /\ PinsFollowCycle'
    BY <1>8 DEF NeedWrite, InOrder, TicksInRange, CycleOrder, PinsFollowCycle,
                FetchPins, ReadPins, WritePins, OtherPins
  <2> QED
    BY <2>1, <2>2 DEF IInv
<1>9. CASE Retire(op, n, r, w, pc1, buf)
  <2>1. stage' \in {"RESET", "REFRESH"}
    BY <1>1, <1>9 DEF Retire
  <2>2. iff1' \in Bit /\ int_mode' \in 0..2
    BY <1>9 DEF Retire, TypeOK, Bit
  <2>3. TypeOK'
    BY <1>2, <1>4, <1>5, <1>9, <2>1, <2>2 DEF Retire, TypeOK, Stages
  <2>4. TicksInRange' /\ CycleOrder' /\ PinsFollowCycle'
    BY <2>1 DEF TicksInRange, CycleOrder, PinsFollowCycle,
                FetchPins, ReadPins, WritePins, OtherPins
  <2> QED
    BY <2>3, <2>4 DEF IInv
<1> QED
  BY <1>6, <1>7, <1>8, <1>9 DEF Decode
-----------------------------------------------------------------------------
(***************************************************************************)
(* The actions that call the decoder.                                      *)
(***************************************************************************)
LEMMA M1EndKeeps ==
  ASSUME IInv, M1Decode \/ M1DropPrefix
  PROVE  IInv'
<1>1. TypeOK /\ stage = "M1" /\ m1_tick_count = 7
  BY DEF IInv, M1Decode, M1DropPrefix, OpcodeLatched
<1>2. /\ read_index = 0 /\ write_index = 0
      /\ m2_tick_count = 0 /\ m3_tick_count = 0
      /\ opcode_index > 0 => ins \in Ops /\ opcode_index < ins.size
  BY <1>1 DEF IInv, CycleOrder, TicksInRange
<1>3. /\ OpcodeLatched
      /\ m1_tick_count' = 0 /\ m2_tick_count' = 0 /\ m3_tick_count' = 0
      /\ read_index' = 0 /\ write_index' = 0 /\ UNCHANGED inputs
  BY <1>2 DEF M1Decode, M1DropPrefix, OpcodeLatched, inputs
<1>4. AllHigh'
  BY <1>1, <1>3 DEF IInv, PinsFollowCycle, FetchPins, AllHigh, Low, OpcodeLatched
<1>5. /\ n_rfsh' \in Bit /\ address' \in Word \cup {RefreshAddress}
      /\ data' \in Byte /\ read_buffer' \in Buffer /\ read_buffer \in Buffer
  BY <1>1, <1>3 DEF TypeOK, OpcodeLatched
<1>6. Plus(pc, 1) \in Word
  <2>1. pc \in Int
    BY <1>1, WordPositive DEF TypeOK, Word
  <2> QED
    BY <2>1, PlusInWord
<1>7. CASE M1Decode
  <2>1. PICK op \in IF opcode_index = 0 THEN Ops ELSE {ins} :
          Decode(op, opcode_index + 1, read_index, write_index, Plus(pc, 1), read_buffer)
    BY <1>7 DEF M1Decode
  <2>2. opcode_index \in 0..4
    BY <1>1 DEF TypeOK
  <2>3. op \in Ops
    BY <1>2, <2>1, <2>2
  <2>4. op.size \in 1..4 /\ op.reads \in 0..2 /\ op.writes \in 0..2
    BY <2>3, OpsAssumption DEF Template
  <2>5. InOrder(op, opcode_index + 1, read_index, write_index)
    BY <1>2, <2>1, <2>2, <2>4 DEF InOrder
  <2>6. opcode_index' = opcode_index + 1 /\ read_index' = read_index
        /\ write_index' = write_index
    BY <1>2, <1>3, <1>7 DEF M1Decode
  <2> QED
    BY <1>1, <1>2, <1>3, <1>4, <1>5, <1>6, <2>1, <2>3, <2>5, <2>6, DecodeKeeps
<1>8. CASE M1DropPrefix
  <2>1. /\ stage' = "M1" /\ opcode_index' = 1
        /\ ins' \in Ops /\ ins'.size > 1
    BY <1>1, <1>8, OpsAssumption DEF M1DropPrefix
  <2>2. TypeOK'
    BY <1>1, <1>3, <1>4, <1>5, <1>6, <1>8, <2>1
       DEF M1DropPrefix, TypeOK, AllHigh, Low, Bit, inputs
  <2>3. TicksInRange' /\ CycleOrder' /\ PinsFollowCycle'
    BY <1>3, <1>4, <2>1 DEF TicksInRange, CycleOrder, PinsFollowCycle,
                            FetchPins, ReadPins, WritePins, OtherPins
  <2> QED
    BY <2>2, <2>3 DEF IInv
<1> QED
  BY <1>7, <1>8

\* A read ends with its byte in the buffer and the cycle the operation asks for next.
LEMMA M2DoneKeeps ==
  ASSUME IInv, M2Done
  PROVE  IInv'
<1>1. TypeOK /\ stage = "M2" /\ m2_tick_count = 7
  BY DEF IInv, M2Done
<1>2. /\ ins \in Ops /\ opcode_index = ins.size
      /\ read_index < ins.reads /\ write_index = 0
      /\ m1_tick_count = 0 /\ m3_tick_count = 0
  BY <1>1 DEF IInv, CycleOrder, TicksInRange
<1>3. /\ ins.size \in 1..4 /\ ins.reads \in 0..2 /\ ins.writes \in 0..2
      /\ read_index \in 0..1
  BY <1>1, <1>2, OpsAssumption DEF Template, TypeOK
<1>4. Reading(ins.rio) /\ read_is_io <= ins.rio
  BY <1>1 DEF IInv, PinsFollowCycle, ReadPins
<1> DEFINE buf == [read_buffer EXCEPT ![read_index] = data]
<1>5. buf \in Buffer
  BY <1>1, <1>3 DEF TypeOK, Buffer
<1>6. AllHigh'
  BY <1>4 DEF M2Done, EndRead, AllHigh, Low, Reading
<1>7. InOrder(ins, opcode_index, read_index + 1, write_index)
  BY <1>2, <1>3 DEF InOrder
<1>8. /\ n_rfsh' \in Bit /\ address' \in Word \cup {RefreshAddress}
      /\ data' \in Byte /\ pc \in Word
  BY <1>1 DEF TypeOK, M2Done
<1>9. /\ m1_tick_count' = 0 /\ m2_tick_count' = 0 /\ m3_tick_count' = 0
      /\ opcode_index' = opcode_index /\ read_index' = read_index + 1
      /\ write_index' = write_index /\ read_buffer' = buf
      /\ UNCHANGED inputs
      /\ Decode(ins, opcode_index, read_index + 1, write_index, pc, buf)
  BY <1>2 DEF M2Done, inputs
<1> QED
  BY <1>1, <1>2, <1>4, <1>5, <1>6, <1>7, <1>8, <1>9, DecodeKeeps

\* A write ends with its byte out and the cycle the operation asks for next.
LEMMA M3DoneKeeps ==
  ASSUME IInv, M3Done
  PROVE  IInv'
<1>1. TypeOK /\ stage = "M3" /\ m3_tick_count = 7
  BY DEF IInv, M3Done
<1>2. /\ ins \in Ops /\ opcode_index = ins.size
      /\ read_index = ins.reads /\ write_index \in 1..ins.writes
      /\ m1_tick_count = 0 /\ m2_tick_count = 0
  BY <1>1 DEF IInv, CycleOrder, TicksInRange
<1>3. ins.size \in 1..4 /\ ins.reads \in 0..2 /\ ins.writes \in 0..2
  BY <1>2, OpsAssumption DEF Template
<1>4. Writing(write_is_io, 1)
  BY <1>1 DEF IInv, PinsFollowCycle, WritePins
<1>5. AllHigh'
  BY <1>4 DEF M3Done, AllHigh, Low, Writing
<1>6. InOrder(ins, opcode_index, read_index, write_index)
  BY <1>2, <1>3 DEF InOrder
<1>7. /\ n_rfsh' \in Bit /\ address' \in Word \cup {RefreshAddress}
      /\ data' \in Byte /\ pc \in Word /\ read_buffer \in Buffer
  BY <1>1 DEF TypeOK, M3Done
<1>8. /\ m1_tick_count' = 0 /\ m2_tick_count' = 0 /\ m3_tick_count' = 0
      /\ opcode_index' = opcode_index /\ read_index' = read_index
      /\ write_index' = write_index /\ read_buffer' \in Buffer
      /\ UNCHANGED inputs
      /\ Decode(ins, opcode_index, read_index, write_index, pc, read_buffer)
  BY <1>2, <1>7 DEF M3Done, indices, inputs
<1> QED
  BY <1>1, <1>2, <1>5, <1>6, <1>7, <1>8, DecodeKeeps
-----------------------------------------------------------------------------
(***************************************************************************)
(* The boundary, the interrupt cycles and the board.                       *)
(***************************************************************************)
LEMMA BoundaryKeeps ==
  ASSUME IInv, Boundary
  PROVE  IInv'
<1> USE DEF IInv, TypeOK, Bit, Stages, TicksInRange, CycleOrder, PinsFollowCycle,
            FetchPins, ReadPins, WritePins, OtherPins, AllHigh, Low,
            ResetPipeline, regs, control, inputs
<1>1. CASE AcceptNmi
  BY <1>1 DEF AcceptNmi
<1>2. CASE AcceptInt
  BY <1>2 DEF AcceptInt
<1>3. CASE DropInt
  BY <1>3 DEF DropInt
<1>4. CASE BeginFetch
  BY <1>4 DEF BeginFetch
<1> QED
  BY <1>1, <1>2, <1>3, <1>4 DEF Boundary

\* The return address comes in bytes and SP wraps.
LEMMA StackTyped ==
  ASSUME TypeOK
  PROVE  Hi(pc) \in Byte /\ Lo(pc) \in Byte /\ Plus(sp, WORD - 1) \in Word
<1>1. sp \in Int /\ WORD - 1 \in Int
  BY WordPositive DEF TypeOK, Word
<1> QED
  BY <1>1, PlusInWord, HalvesAreBytes DEF TypeOK

\* Accepting an interrupt ends with a typed return address and the vector in PC.
LEMMA InterruptKeeps ==
  ASSUME IInv, InterruptCycle
  PROVE  IInv'
<1>1. /\ Hi(pc) \in Byte /\ Lo(pc) \in Byte /\ Plus(sp, WORD - 1) \in Word
      /\ IntVector \in Word /\ NmiVector \in Word
  BY StackTyped, VectorAssumption DEF IInv
<1> USE DEF IInv, TypeOK, Bit, Stages, TicksInRange, CycleOrder, PinsFollowCycle,
            FetchPins, ReadPins, WritePins, OtherPins, Storing, AllHigh, Low,
            PinsOf, pipe, indices, operand, regs, control, inputs
<1>2. CASE IntM1
  BY <1>1, <1>2 DEF IntM1
<1>3. CASE IntM2
  BY <1>1, <1>3 DEF IntM2, IntStore
<1>4. CASE IntM3
  BY <1>1, <1>4 DEF IntM3, IntStore
<1>5. CASE NmiM1
  BY <1>1, <1>5 DEF NmiM1
<1>6. CASE NmiM2
  BY <1>1, <1>6 DEF NmiM2, NmiStore
<1>7. CASE NmiM3
  BY <1>1, <1>7 DEF NmiM3, NmiStore
<1> QED
  BY <1>2, <1>3, <1>4, <1>5, <1>6, <1>7 DEF InterruptCycle

\* The board only drives data while a cycle reads, so it never disturbs what a
\* write puts on the bus.
LEMMA BoardKeeps ==
  ASSUME IInv, Board
  PROVE  IInv'
<1> USE DEF IInv, TypeOK, Bit, TicksInRange, CycleOrder, PinsFollowCycle,
            FetchPins, ReadPins, WritePins, OtherPins, Storing, AllHigh, Low,
            FetchRead, Reading, Writing,
            ticks, pipe, indices, operand, regs, control, inputs
<1>1. CASE DriveData
  BY <1>1 DEF DriveData
<1>2. CASE MoveLine
  BY <1>2 DEF MoveLine
<1> QED
  BY <1>1, <1>2 DEF Board

-----------------------------------------------------------------------------
\* The state after reset satisfies the invariant.
LEMMA InitEstablishes == Init => IInv
<1> SUFFICES ASSUME Init PROVE IInv
  OBVIOUS
<1>1. 0 \in Word /\ WORD - 1 \in Word /\ 0 \in Byte
  BY WordPositive, ByteAssumption DEF Word, Byte
<1>2. TypeOK
  BY <1>1 DEF Init, TypeOK, Stages, Bit, Buffer
<1>3. TicksInRange /\ CycleOrder /\ PinsFollowCycle
  BY DEF Init, TicksInRange, CycleOrder, PinsFollowCycle, FetchPins, ReadPins,
         WritePins, OtherPins, AllHigh, Low
<1> QED
  BY <1>2, <1>3 DEF IInv

\* A step that changes nothing keeps it.
LEMMA StutterKeeps == ASSUME IInv, UNCHANGED vars PROVE IInv'
BY DEF IInv, TypeOK, TicksInRange, CycleOrder, PinsFollowCycle, FetchPins,
       ReadPins, WritePins, OtherPins, Storing, AllHigh, Low, FetchRead, Reading,
       Writing, vars, ticks, pipe, indices, operand, regs, control, inputs

\* Every step of the core and of the board keeps it.
LEMMA NextKeeps == IInv /\ [Next]_vars => IInv'
<1> SUFFICES ASSUME IInv, [Next]_vars PROVE IInv'
  OBVIOUS
<1>1. CASE Boundary
  BY <1>1, BoundaryKeeps
<1>2. CASE M1Cycle
  BY <1>2, M1CountsKeep, M1EndKeeps DEF M1Cycle
<1>3. CASE M2Cycle
  BY <1>3, M2CountsKeep, M2DoneKeeps DEF M2Cycle
<1>4. CASE M3Cycle
  BY <1>4, M3CountsKeep, M3DoneKeeps DEF M3Cycle
<1>5. CASE RefreshCycle
  BY <1>5, RefreshKeeps
<1>6. CASE InterruptCycle
  BY <1>6, InterruptKeeps
<1>7. CASE Board
  BY <1>7, BoardKeeps
<1>8. CASE UNCHANGED vars
  BY <1>8, StutterKeeps
<1> QED
  BY <1>1, <1>2, <1>3, <1>4, <1>5, <1>6, <1>7, <1>8 DEF Next, Tick

\* IInv holds in every reachable state.
THEOREM Invariance == Spec => []IInv
BY InitEstablishes, NextKeeps, PTL DEF Spec
-----------------------------------------------------------------------------
(***************************************************************************)
(* What follows.                                                           *)
(***************************************************************************)

\* Every variable stays in its range: the tick counters and the pipeline
\* indices of struct z80_s never run away.
THEOREM TypeCorrect == Spec => []TypeOK
BY Invariance, PTL DEF IInv

\* The assert(0) after the switch of each cycle is not reached, and no cycle
\* inherits a count from the one before.
THEOREM TicksCorrect == Spec => []TicksInRange
BY Invariance, PTL DEF IInv

\* Instructions move their bytes in the order opcode, read, write.
THEOREM CyclesOrdered == Spec => []CycleOrder
BY Invariance, PTL DEF IInv

\* The pins depend on the cycle and its tick count alone.
THEOREM PinsCorrect == Spec => []PinsFollowCycle
BY Invariance, PTL DEF IInv

\* The pipeline buffers of struct z80_s are never indexed out of bounds.
THEOREM BuffersCorrect == Spec => []BuffersFit
<1>1. ASSUME IInv PROVE BuffersFit
  BY <1>1, OpsAssumption DEF IInv, TypeOK, CycleOrder, BuffersFit, Template
<1> QED
  BY <1>1, Invariance, PTL

\* Which request and strobe are low in each cycle: a strobe has one request.
LEMMA StrobesQualified ==
  ASSUME IInv
  PROVE  /\ n_rd = 0 => /\ n_wr = 1 /\ stage \in {"M1", "M2"}
                        /\ n_mreq = 1 - n_ioreq
         /\ n_wr = 0 => /\ stage \in {"M3", "M2_INT", "M3_INT", "M2_NMI", "M3_NMI"}
                        /\ n_mreq = 1 - n_ioreq
         /\ n_mreq = 0 => n_ioreq = 1
<1> USE DEF IInv, PinsFollowCycle, AllHigh, Low
<1>1. n_mreq \in {0, 1} /\ n_ioreq \in {0, 1}
  BY DEF TypeOK, Bit
<1>2. CASE stage = "M1"
  BY <1>1, <1>2 DEF FetchPins, FetchRead, TicksInRange
<1>3. CASE stage = "M2"
  <2>1. ins.rio \in 0..1
    BY <1>3, OpsAssumption DEF CycleOrder, Template
  <2> QED
    BY <1>1, <1>3, <2>1 DEF ReadPins, Reading, TicksInRange
<1>4. CASE stage = "M3"
  <2>1. write_is_io \in 0..1
    BY DEF TypeOK, Bit
  <2> QED
    BY <1>1, <1>4, <2>1 DEF WritePins, Writing, TicksInRange
<1>5. CASE stage \notin {"M1", "M2", "M3"}
  BY <1>1, <1>5 DEF OtherPins, Storing, TypeOK, Stages
<1> QED
  BY <1>2, <1>3, <1>4, <1>5

\* Memory and a port, or a reader and a writer, are never selected together.
THEOREM BusIsExclusive == Spec => []BusExclusive
<1>1. ASSUME IInv PROVE BusExclusive
  BY <1>1, StrobesQualified DEF BusExclusive, IInv, TypeOK, Bit
<1> QED
  BY <1>1, Invariance, PTL

\* Nothing is left low when an instruction or an interrupt ends.
THEOREM BusIsReleased == Spec => []BusIdleAtBoundary
<1>1. ASSUME IInv PROVE BusIdleAtBoundary
  BY <1>1 DEF IInv, PinsFollowCycle, OtherPins, AllHigh, Low, BusIdleAtBoundary
<1> QED
  BY <1>1, Invariance, PTL

\* WR is only low over the byte, the address and the space of the write.
THEOREM WritesCarryTheirByte == Spec => []WriteCarriesBuffer
<1>1. ASSUME IInv PROVE WriteCarriesBuffer
  BY <1>1 DEF IInv, TypeOK, Bit, TicksInRange, PinsFollowCycle, WritePins,
              Writing, AllHigh, Low, WriteCarriesBuffer
<1> QED
  BY <1>1, Invariance, PTL

\* A read keeps its address and its space from its request to its last tick.
THEOREM ReadsKeepTheirSpace == Spec => []ReadKeepsSpace
<1>1. ASSUME IInv PROVE ReadKeepsSpace
  <2>1. SUFFICES ASSUME stage = "M2" PROVE ReadKeepsSpace
    BY DEF ReadKeepsSpace
  <2>2. ins.rio \in 0..1
    BY <1>1, <2>1, OpsAssumption DEF IInv, CycleOrder, Template
  <2> QED
    BY <1>1, <2>1, <2>2 DEF IInv, TicksInRange, PinsFollowCycle, ReadPins,
              Reading, AllHigh, Low, ReadKeepsSpace
<1> QED
  BY <1>1, Invariance, PTL
-----------------------------------------------------------------------------
\* The step StrobeHolds is about.
StrobeStep ==
  /\ n_wr = 0 /\ n_wr' = 0 => UNCHANGED <<address, data, n_mreq, n_ioreq>>
  /\ n_rd = 0 /\ n_rd' = 0 => UNCHANGED <<address, n_mreq, n_ioreq>>

\* A fetch moves its strobe only with its request.
LEMMA FetchHolds == ASSUME IInv, M1Cycle PROVE StrobeStep
<1> USE DEF IInv, PinsFollowCycle, FetchPins, FetchRead, AllHigh, Low, StrobeStep
<1>1. CASE M1Start
  BY <1>1 DEF M1Start
<1>2. CASE M1Request
  BY <1>2 DEF M1Request
<1>3. CASE M1Idle \/ M1SampleWait
  BY <1>3 DEF M1Idle, M1SampleWait, control
<1>4. CASE M1Latch
  BY <1>4 DEF M1Latch
<1>5. CASE M1Refresh
  BY <1>5 DEF M1Refresh
<1>6. CASE M1Decode \/ M1DropPrefix
  BY <1>6 DEF M1Decode, M1DropPrefix, OpcodeLatched
<1> QED
  BY <1>1, <1>2, <1>3, <1>4, <1>5, <1>6 DEF M1Cycle

\* A read does too.
LEMMA ReadHolds == ASSUME IInv, M2Cycle PROVE StrobeStep
<1> USE DEF IInv, PinsFollowCycle, ReadPins, Reading, AllHigh, Low, StrobeStep
<1>1. CASE M2Address
  BY <1>1 DEF M2Address, control
<1>2. CASE M2Request
  BY <1>2 DEF M2Request
<1>3. CASE M2Idle \/ M2SampleWait
  BY <1>3 DEF M2Idle, M2SampleWait, control
<1>4. CASE M2Done
  BY <1>4 DEF M2Done, EndRead
<1> QED
  BY <1>1, <1>2, <1>3, <1>4 DEF M2Cycle

\* A write does too.
LEMMA WriteHolds == ASSUME IInv, M3Cycle PROVE StrobeStep
<1> USE DEF IInv, PinsFollowCycle, WritePins, Writing, AllHigh, Low, StrobeStep
<1>1. CASE M3Address
  BY <1>1 DEF M3Address, control
<1>2. CASE M3Request
  BY <1>2 DEF M3Request
<1>3. CASE M3Idle
  BY <1>3 DEF M3Idle, control
<1>4. CASE M3SampleWait
  BY <1>4 DEF M3SampleWait
<1>5. CASE M3Done
  BY <1>5 DEF M3Done
<1> QED
  BY <1>1, <1>2, <1>3, <1>4, <1>5 DEF M3Cycle

\* So does an interrupt that stores PC; nothing else moves a pin while a strobe is low.
LEMMA OthersHold ==
  ASSUME IInv, Boundary \/ RefreshCycle \/ InterruptCycle \/ Board
  PROVE  StrobeStep
<1>1. CASE Boundary
  BY <1>1 DEF IInv, PinsFollowCycle, OtherPins, AllHigh, Low, StrobeStep, Boundary,
              AcceptNmi, AcceptInt, DropInt, BeginFetch, control
<1>2. CASE RefreshCycle
  BY <1>2 DEF IInv, PinsFollowCycle, OtherPins, AllHigh, Low, StrobeStep,
              RefreshCycle, RefreshStart, RefreshRequest, RefreshIdle,
              RefreshDone, control
<1>3. CASE InterruptCycle
  <2> USE DEF IInv, PinsFollowCycle, OtherPins, Storing, AllHigh, Low, StrobeStep,
              TicksInRange, PinsOf, control
  <2>1. CASE IntM1 \/ NmiM1
    BY <2>1 DEF IntM1, NmiM1
  <2>2. CASE IntM2 \/ IntM3
    BY <2>2 DEF IntM2, IntM3, IntStore
  <2>3. CASE NmiM2 \/ NmiM3
    BY <2>3 DEF NmiM2, NmiM3, NmiStore
  <2> QED
    BY <1>3, <2>1, <2>2, <2>3 DEF InterruptCycle
<1>4. CASE Board
  <2>1. CASE DriveData
    BY <2>1, StrobesQualified DEF DriveData, control, StrobeStep
  <2>2. CASE MoveLine
    BY <2>2 DEF MoveLine, control, StrobeStep
  <2> QED
    BY <1>4, <2>1, <2>2 DEF Board
<1> QED
  BY <1>1, <1>2, <1>3, <1>4

\* A device may act on any half-clock of a strobe: its address, its space and,
\* for a write, its byte do not move while it lasts.
THEOREM StrobesHold == Spec => StrobeHolds
<1>1. IInv /\ [Next]_vars => [StrobeStep]_vars
  BY FetchHolds, ReadHolds, WriteHolds, OthersHold DEF Next, Tick
<1> QED
  BY <1>1, Invariance, PTL DEF Spec, StrobeHolds, StrobeStep
=============================================================================
