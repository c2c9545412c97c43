--------------------------- MODULE Z80MemoryProofs ---------------------------
(***************************************************************************)
(* Module Z80Memory implements module Z80Isa, for every instruction set,   *)
(* every width of a byte, every map and every set of input lines: what a   *)
(* program sees of the half-clocks, the wait states and the devices that   *)
(* look at the pins is one step for each instruction and each interrupt.   *)
(*                                                                         *)
(* The inductive invariant is LoopInv: the invariant of the core, and how  *)
(* far the current instruction or interrupt has come.                      *)
(***************************************************************************)
EXTENDS Z80Memory, Z80CoreProofs

-----------------------------------------------------------------------------
(***************************************************************************)
(* Words and cells.                                                        *)
(***************************************************************************)

\* Both modules compute addresses alike.
LEMMA SameFunctions ==
  /\ ISA!WORD = WORD /\ ISA!Word = Word /\ ISA!Byte = Byte /\ ISA!Cells = Cells
  /\ \A w, n : ISA!Plus(w, n) = Plus(w, n)
  /\ \A w : ISA!Lo(w) = Lo(w) /\ ISA!Hi(w) = Hi(w)
  /\ \A a : ISA!Cell(a) = Cell(a)
BY DEF ISA!WORD, ISA!Word, ISA!Byte, ISA!Cells, ISA!Plus, ISA!Lo, ISA!Hi, ISA!Cell,
       WORD, Word, Byte, Cells, Plus, Lo, Hi, Cell

\* A word plus nothing is that word, and what is added adds up.
LEMMA PlusZero ==
  ASSUME NEW w \in Word
  PROVE  Plus(w, 0) = w
BY WordPositive DEF Plus, Word

\* No multiple of d but zero lies between -d and d.
LEMMA NoMultiple ==
  ASSUME NEW d \in Nat, NEW k \in Int, d * k < d, -d < d * k
  PROVE  k = 0
<1>1. CASE k >= 1
  <2>1. d * k = d + d * (k - 1) /\ d * (k - 1) >= 0
    BY <1>1
  <2> QED
    BY <2>1
<1>2. CASE k <= -1
  <2>1. d * k = d * (k + 1) - d /\ d * (k + 1) <= 0
    BY <1>2
  <2> QED
    BY <2>1
<1> QED
  BY <1>1, <1>2

\* Whole turns do not count.
LEMMA Turns ==
  ASSUME NEW x \in Int, NEW k \in Int
  PROVE  (x + WORD * k) % WORD = x % WORD
<1> DEFINE y == x + WORD * k
           d == WORD
<1>1. d \in Nat /\ d > 0 /\ d * k \in Int /\ y \in Int
  BY WordPositive
<1> HIDE DEF y, d
<1>2. \A z \in Int : \E q \in Int, r \in 0..(d - 1) : z = d * q + r /\ r = z % d
  <2> SUFFICES ASSUME NEW z \in Int
               PROVE  \E q \in Int, r \in 0..(d - 1) : z = d * q + r /\ r = z % d
    OBVIOUS
  <2>1. z \div d \in Int /\ z % d \in 0..(d - 1)
    BY <1>1
  <2>2. z = d * (z \div d) + (z % d)
    BY <1>1
  <2> QED
    BY <2>1, <2>2
<1>3. y = x + d * k
  BY DEF y, d
<1>4. PICK p \in Int, a \in 0..(d - 1) : x = d * p + a /\ a = x % d
  BY <1>2
<1>0. PICK q \in Int, b \in 0..(d - 1) : y = d * q + b /\ b = y % d
  BY <1>1, <1>2
<1>5. d * ((p + k) - q) = b - a
  <2>1. d * ((p + k) - q) = (d * p + d * k) - d * q
    BY <1>1
  <2> QED
    BY <1>1, <1>3, <1>4, <1>0, <2>1
<1>6. d * ((p + k) - q) < d /\ -d < d * ((p + k) - q)
  BY <1>1, <1>5
<1>7. (p + k) - q = 0
  BY <1>1, <1>6, NoMultiple
<1>8. a = b
  BY <1>1, <1>5, <1>7
<1> QED
  BY <1>4, <1>0, <1>8 DEF y, d

\* Sixteen-bit additions may be merged.
LEMMA PlusPlus ==
  ASSUME NEW w \in Int, NEW m \in Int, NEW n \in Int
  PROVE  Plus(Plus(w, m), n) = Plus(w, m + n)
<1> DEFINE q == (w + m) \div WORD
           r == (w + m) % WORD
<1>1. WORD \in Nat /\ WORD > 0
  BY WordPositive
<1>2. q \in Int /\ r \in Int /\ w + m = WORD * q + r
  BY <1>1
<1> HIDE DEF q, r
<1>3. w + (m + n) = (r + n) + WORD * q
  BY <1>1, <1>2
<1>4. ((r + n) + WORD * q) % WORD = (r + n) % WORD
  BY <1>2, Turns
<1> QED
  BY <1>3, <1>4 DEF Plus, r

\* A whole turn does not count.
LEMMA PlusWord ==
  ASSUME NEW w \in Int, NEW n \in Int
  PROVE  Plus(w, WORD + n) = Plus(w, n)
<1>1. WORD \in Nat
  BY WordPositive
<1>2. w + (WORD + n) = (w + n) + WORD * 1
  BY <1>1
<1>3. ((w + n) + WORD * 1) % WORD = (w + n) % WORD
  BY Turns
<1> QED
  BY <1>2, <1>3 DEF Plus

\* Every address has a cell.
LEMMA CellInCells ==
  ASSUME NEW a \in Word
  PROVE  Cell(a) \in Cells
<1>1. /\ BASE \in Nat /\ RAM_SIZE \in Nat /\ RAM_SIZE > 0 /\ a \in Nat
  BY MapAssumption, WordPositive DEF Word
<1>2. CASE a < BASE
  BY <1>1, <1>2 DEF Cell, Cells
<1>3. CASE ~(a < BASE)
  <2>1. a - BASE \in Nat
    BY <1>1, <1>3
  <2>2. (a - BASE) % RAM_SIZE \in 0..(RAM_SIZE - 1)
    BY <1>1, <2>1
  <2> QED
    BY <1>1, <1>3, <2>2 DEF Cell, Cells
<1> QED
  BY <1>2, <1>3

\* A store of a byte leaves bytes.
LEMMA StoreTyped ==
  ASSUME NEW m \in [Cells -> Byte], NEW a, NEW b \in Byte
  PROVE  ISA!Store(m, a, b) \in [Cells -> Byte]
BY DEF ISA!Store

\* A device that stores the same byte in every half-clock of a strobe stores it once.
LEMMA StoreTwice ==
  ASSUME NEW m \in [Cells -> Byte], NEW a, NEW b \in Byte
  PROVE  ISA!Store(ISA!Store(m, a, b), a, b) = ISA!Store(m, a, b)
BY DEF ISA!Store
-----------------------------------------------------------------------------
(***************************************************************************)
(* The devices.                                                            *)
(***************************************************************************)

\* What the devices do in a half-clock: a byte lands in memory while WR is low for
\* memory, memory answers while RD is low for it, and the bus is only driven then.
LEMMA DevicesEffect ==
  ASSUME IInv, DevicesTurn
  PROVE  /\ mem' = IF n_wr = 0 /\ n_mreq = 0 THEN ISA!Store(mem, address, data) ELSE mem
         /\ n_rd = 0 /\ n_mreq = 0 => data' = mem[Cell(address)]
         /\ n_rd # 0 => data' = data
<1> USE DEF DevicesTurn, Selected
<1>1. /\ n_rd = 0 => n_wr = 1 /\ n_mreq = 1 - n_ioreq
      /\ n_wr = 0 => n_mreq = 1 - n_ioreq
      /\ n_mreq = 0 => n_ioreq = 1
      /\ n_rd \in 0..1 /\ n_wr \in 0..1 /\ n_mreq \in 0..1 /\ n_ioreq \in 0..1
  BY StrobesQualified DEF IInv, TypeOK, Bit
<1>2. CASE ReadMemory
  BY <1>1, <1>2 DEF ReadMemory
<1>3. CASE WriteMemory
  <2>1. mem' = ISA!Store(mem, address, data)
    BY <1>3 DEF WriteMemory, ISA!Store, ISA!Cell, Cell
  <2>2. n_wr = 0 /\ n_mreq = 0 /\ n_rd = 1 /\ data' = data
    BY <1>1, <1>3 DEF WriteMemory
  <2> QED
    BY <2>1, <2>2
<1>4. CASE PortCycle
  BY <1>1, <1>4 DEF PortCycle
<1>5. CASE NobodySelected
  BY <1>1, <1>5 DEF NobodySelected
<1> QED
  BY <1>2, <1>3, <1>4, <1>5

\* To the core, the devices are a board that drives the data bus during a read.
LEMMA DevicesAreABoard ==
  ASSUME IInv, LoopTypeOK, DevicesTurn
  PROVE  DriveData \/ UNCHANGED vars
<1>1. CASE n_rd = 0
  <2>1. data \in Byte
    BY DEF IInv, TypeOK
  <2>2. ReadMemory => data' \in Byte
    <3>1. SUFFICES ASSUME ReadMemory PROVE data' \in Byte
      OBVIOUS
    <3>2. stage = "M1" \/ stage = "M2"
      BY <1>1, StrobesQualified
    <3>3. address \in Word
      <4>1. CASE stage = "M1"
        BY <1>1, <4>1 DEF IInv, TypeOK, TicksInRange, PinsFollowCycle, FetchPins,
                          FetchRead, AllHigh, Low
      <4>2. CASE stage = "M2"
        BY <1>1, <4>2 DEF IInv, TypeOK, TicksInRange, PinsFollowCycle, ReadPins,
                          Reading, AllHigh, Low
      <4> QED
        BY <3>2, <4>1, <4>2
    <3>4. Cell(address) \in Cells
      BY <3>3, CellInCells
    <3> QED
      BY <3>1, <3>4 DEF ReadMemory, LoopTypeOK
  <2>3. data' \in Byte
    BY <2>1, <2>2 DEF DevicesTurn, WriteMemory, PortCycle, NobodySelected
  <2> QED
    BY <1>1, <2>3 DEF DevicesTurn, DriveData
<1>2. CASE n_rd # 0
  BY <1>2, DevicesEffect DEF DevicesTurn, vars
<1> QED
  BY <1>1, <1>2

\* Every turn of the loop is a step of the core or of its board.
LEMMA LoopIsCore ==
  ASSUME IInv, LoopTypeOK, [LoopNext]_loopVars
  PROVE  [Next]_vars /\ IInv'
<1>1. [Next]_vars
  BY DevicesAreABoard DEF LoopNext, CpuTurn, LineMoves, Next, Board, loopVars
<1> QED
  BY <1>1, NextKeeps

\* The turn, the memory and the record of the last boundary keep their types.
LEMMA LoopTyped ==
  ASSUME IInv, LoopTypeOK, [LoopNext]_loopVars
  PROVE  LoopTypeOK'
<1>1. CASE CpuTurn
  BY <1>1 DEF CpuTurn, LoopTypeOK, Machine, IInv, TypeOK
<1>2. CASE DevicesTurn
  <2>1. data \in Byte
    BY DEF IInv, TypeOK
  <2>2. mem' \in [Cells -> Byte]
    BY <1>2, <2>1, DevicesEffect, StoreTyped DEF LoopTypeOK
  <2> QED
    BY <1>2, <2>2 DEF DevicesTurn, LoopTypeOK
<1>3. CASE LineMoves
  BY <1>3 DEF LineMoves, LoopTypeOK
<1>4. CASE UNCHANGED loopVars
  BY <1>4 DEF loopVars, LoopTypeOK
<1> QED
  BY <1>1, <1>2, <1>3, <1>4 DEF LoopNext
-----------------------------------------------------------------------------
(***************************************************************************)
(* The half-clocks that only count.                                        *)
(***************************************************************************)

\* A fetch that counts leaves what it has fetched.
LEMMA FetchCounts ==
  ASSUME Progress, stage = "M1", UNCHANGED <<stage, regs, opcode_index, ins, mem, start>>
  PROVE  Progress'
BY DEF Progress, FetchProgress, ReadProgress, WriteProgress, RefreshProgress,
       IntProgress, NmiProgress, Untouched, Fetched, regs

\* A refresh that counts does not undo its instruction.
LEMMA RefreshCounts ==
  ASSUME Progress, stage = "REFRESH", UNCHANGED <<stage, regs, mem, start>>
  PROVE  Progress'
<1>1. Machine' = Machine
  BY DEF Machine, regs
<1> QED
  BY <1>1 DEF Progress, FetchProgress, ReadProgress, WriteProgress, RefreshProgress,
              IntProgress, NmiProgress

\* A read that counts leaves what it has read, as long as the byte of a memory cycle
\* is on the bus when the core looks at it.
LEMMA ReadCounts ==
  ASSUME Progress, stage = "M2",
         UNCHANGED <<stage, regs, opcode_index, read_index, read_address, read_buffer,
                     ins, mem, start>>,
         turn' = "z80" /\ m2_tick_count' \in 2..7 /\ ins.rio = 0 =>
           data' = mem[Cell(read_address)]
  PROVE  Progress'
<1>1. ReadProgress'
  BY DEF Progress, ReadProgress, Untouched, Fetched, ReadFrom, regs
<1> QED
  BY <1>1 DEF Progress, FetchProgress, WriteProgress, RefreshProgress,
              IntProgress, NmiProgress

\* A write that counts leaves what it has written.
LEMMA WriteCounts ==
  ASSUME Progress, stage = "M3",
         UNCHANGED <<stage, regs, read_buffer, write_buffer, write_address, write_is_io,
                     ins, mem, start>>,
         UNCHANGED Current, UNCHANGED InMemory
  PROVE  Progress'
<1>1. WriteProgress'
  BY DEF Progress, WriteProgress, Untouched, Fetched, Prepared, InputOf, ReadFrom,
         Stored, regs
<1> QED
  BY <1>1 DEF Progress, FetchProgress, ReadProgress, RefreshProgress,
              IntProgress, NmiProgress

\* What a step of the loop does for the program: it gets on with the current
\* instruction or interrupt, or it is a step of the instruction set.
Implemented == Progress' /\ (Seen' = Seen \/ ISA!Next)

\* Within an instruction the program sees nothing of a step that only counts.
LEMMA NothingSeen ==
  ASSUME start' = start, stage' = stage, stage \notin {"RESET", "ABORTED"}
  PROVE  Seen' = Seen
BY DEF Seen

\* A half-clock of the core that counts, and decodes nothing.
LEMMA CountsImplemented ==
  ASSUME LoopInv, CpuTurn,
         \/ M1Start \/ M1Request \/ M1Idle \/ M1SampleWait \/ M1Latch \/ M1Refresh
         \/ M2Address \/ M2Request \/ M2Idle \/ M2SampleWait
         \/ M3Address \/ M3Request \/ M3Idle \/ M3SampleWait
         \/ RefreshStart \/ RefreshRequest \/ RefreshIdle
  PROVE  Implemented
<1>0. TypeOK /\ TicksInRange /\ CycleOrder /\ Progress /\ mem' = mem
      /\ turn = "z80" /\ turn' = "devices"
  BY DEF LoopInv, IInv, CpuTurn
<1>1. CASE M1Start \/ M1Request \/ M1Idle \/ M1SampleWait \/ M1Latch \/ M1Refresh
  <2>1. stage = "M1" /\ stage' = "M1" /\ UNCHANGED <<regs, pipe>>
    BY <1>1 DEF M1Start, M1Request, M1Idle, M1SampleWait, M1Latch, M1Refresh
  <2>2. start' = start
    BY <2>1 DEF CpuTurn
  <2>3. Progress'
    BY <1>0, <2>1, <2>2, FetchCounts DEF pipe, indices
  <2> QED
    BY <2>1, <2>2, <2>3, NothingSeen DEF Implemented
<1>2. CASE M2Address \/ M2Request \/ M2Idle \/ M2SampleWait
  <2>1. /\ stage = "M2" /\ stage' = "M2"
        /\ UNCHANGED <<regs, indices, read_address, read_buffer, ins>>
    BY <1>2 DEF M2Address, M2Request, M2Idle, M2SampleWait, pipe, operand
  <2>2. start' = start
    BY <2>1 DEF CpuTurn
  <2>3. Progress'
    BY <1>0, <2>1, <2>2, ReadCounts DEF indices
  <2> QED
    BY <2>1, <2>2, <2>3, NothingSeen DEF Implemented
<1>3. CASE M3Address \/ M3Request \/ M3Idle \/ M3SampleWait
  <2>1. /\ stage = "M3" /\ stage' = "M3"
        /\ UNCHANGED <<regs, ins, read_buffer, write_buffer, write_address, write_is_io>>
    BY <1>3 DEF M3Address, M3Request, M3Idle, M3SampleWait, pipe, operand
  <2>2. start' = start
    BY <2>1 DEF CpuTurn
  <2>3. m3_tick_count \in 0..7 /\ write_index \in 0..2
    BY <1>0 DEF TypeOK
  <2>4. Current' = Current /\ InMemory' = InMemory
    <3>1. CASE M3Address
      BY <1>0, <2>3, <3>1 DEF M3Address, pipe, indices, Current, InMemory
    <3>2. CASE M3Request
      BY <1>0, <2>3, <3>2 DEF M3Request, Current, InMemory
    <3>3. CASE M3Idle
      BY <1>0, <2>3, <3>3 DEF M3Idle, pipe, indices, Current, InMemory
    <3>4. CASE M3SampleWait
      BY <1>0, <2>3, <3>4 DEF M3SampleWait, pipe, indices, Current, InMemory
    <3> QED
      BY <1>3, <3>1, <3>2, <3>3, <3>4
  <2>5. Progress'
    BY <1>0, <2>1, <2>2, <2>4, WriteCounts
  <2> QED
    BY <2>1, <2>2, <2>5, NothingSeen DEF Implemented
<1>4. CASE RefreshStart \/ RefreshRequest \/ RefreshIdle
  <2>1. stage = "REFRESH" /\ stage' = "REFRESH" /\ UNCHANGED regs
    BY <1>4 DEF RefreshStart, RefreshRequest, RefreshIdle
  <2>2. start' = start
    BY <2>1 DEF CpuTurn
  <2>3. Progress'
    BY <1>0, <2>1, <2>2, RefreshCounts
  <2> QED
    BY <2>1, <2>2, <2>3, NothingSeen DEF Implemented
<1> QED
  BY <1>1, <1>2, <1>3, <1>4
-----------------------------------------------------------------------------
(***************************************************************************)
(* The turn of the devices.                                                *)
(***************************************************************************)

\* The byte that lands adds itself to the bytes written so far, once.
LEMMA StoredNext ==
  ASSUME LoopTypeOK, NEW op, op.wio = 0, NEW to, to \in Word, NEW out \in Buffer,
         NEW n \in 0..1
  PROVE  /\ ISA!Store(Stored(op, to, out, n), Plus(to, n), out[n]) = Stored(op, to, out, n + 1)
         /\ ISA!Store(Stored(op, to, out, n + 1), Plus(to, n), out[n])
              = Stored(op, to, out, n + 1)
<1>1. start.mem \in [Cells -> Byte] /\ out[0] \in Byte /\ out[1] \in Byte
  BY DEF LoopTypeOK, Buffer
<1>2. Plus(to, 0) = to
  BY PlusZero
<1>3. ISA!Store(start.mem, to, out[0]) \in [Cells -> Byte]
  BY <1>1, StoreTyped
<1>4. CASE n = 0
  BY <1>1, <1>2, <1>4, StoreTwice DEF Stored
<1>5. CASE n = 1
  BY <1>1, <1>3, <1>5, StoreTwice DEF Stored
<1> QED
  BY <1>4, <1>5

\* So do the halves of a return address.
LEMMA PushedNext ==
  ASSUME LoopTypeOK
  PROVE  /\ ISA!Store(Pushed(0), Plus(start.sp, WORD - 1), Hi(start.pc)) = Pushed(1)
         /\ ISA!Store(Pushed(1), Plus(start.sp, WORD - 1), Hi(start.pc)) = Pushed(1)
         /\ ISA!Store(Pushed(1), Plus(start.sp, WORD - 2), Lo(start.pc)) = Pushed(2)
         /\ ISA!Store(Pushed(2), Plus(start.sp, WORD - 2), Lo(start.pc)) = Pushed(2)
<1>1. start.mem \in [Cells -> Byte] /\ Hi(start.pc) \in Byte /\ Lo(start.pc) \in Byte
  BY HalvesAreBytes DEF LoopTypeOK
<1>2. Pushed(1) \in [Cells -> Byte]
  BY <1>1, StoreTyped DEF Pushed
<1>3. Pushed(2) = ISA!Store(Pushed(1), Plus(start.sp, WORD - 2), Lo(start.pc))
  BY SameFunctions DEF Pushed, ISA!PushPc
<1>4. Pushed(1) = ISA!Store(start.mem, Plus(start.sp, WORD - 1), Hi(start.pc))
  BY DEF Pushed
<1>5. Pushed(0) = start.mem
  BY DEF Pushed
<1> HIDE DEF Pushed
<1> QED
  BY <1>1, <1>2, <1>3, <1>4, <1>5, StoreTwice

\* What an instruction reads and writes in memory lies in the address space.
LEMMA OperandsAreWords ==
  ASSUME LoopTypeOK, NEW op
  PROVE  /\ ISA!Source(start, op) \subseteq Word
         /\ \A from \in ISA!Source(start, op) :
              ISA!Target(start, op, from) \subseteq Word
<1>1. 0 \in Word
  BY WordPositive DEF Word
<1>2. start.sp \in Word /\ start.sp \in Int
  BY WordPositive DEF LoopTypeOK, Word
<1>3. Plus(start.sp, WORD - 2) \in Word
  BY <1>2, WordPositive, PlusInWord
<1>4. ISA!Source(start, op) \subseteq Word
  BY <1>1, <1>2, SameFunctions DEF ISA!Source
<1>5. ASSUME NEW from \in Word
      PROVE  ISA!Target(start, op, from) \subseteq Word
  BY <1>1, <1>2, <1>3, SameFunctions DEF ISA!Target
<1> QED
  BY <1>4, <1>5

\* While WR is low in M3, the devices store the byte in progress.
LEMMA WriteLands ==
  ASSUME LoopInv, DevicesTurn, stage = "M3"
  PROVE  WriteProgress'
<1>1. /\ TypeOK /\ TicksInRange /\ CycleOrder /\ WritePins /\ LoopTypeOK /\ WriteProgress
      /\ turn = "devices" /\ turn' = "z80"
      /\ UNCHANGED <<stage, regs, m3_tick_count, write_index, read_buffer, write_buffer,
                     write_address, write_is_io, ins, start>>
  BY DEF LoopInv, IInv, PinsFollowCycle, Progress, DevicesTurn, ticks, pipe, indices,
         operand
<1>2. m3_tick_count \in 0..7 /\ ins \in Ops /\ ins.wio \in 0..1
  BY <1>1, OpsAssumption DEF TicksInRange, CycleOrder, Template
<1>3. write_is_io = ins.wio
  BY <1>1 DEF WriteProgress
<1>4. mem' = IF n_wr = 0 /\ n_mreq = 0 THEN ISA!Store(mem, address, data) ELSE mem
  BY DevicesEffect DEF LoopInv
<1>5. Current' = Current
  BY <1>1 DEF Current
<1>6. CASE m3_tick_count \in 0..5
  <2>1. n_wr = 1
    BY <1>1, <1>6 DEF WritePins, AllHigh, Writing, Low
  <2>2. mem' = mem
    BY <1>4, <2>1
  <2>3. InMemory' = InMemory
    BY <1>1, <1>5, <1>6 DEF InMemory
  <2>4. Progress'
    BY <1>1, <1>5, <2>2, <2>3, WriteCounts DEF LoopInv
  <2> QED
    BY <2>4 DEF Progress
<1>7. CASE m3_tick_count \in 6..7
  <2>1. Writing(write_is_io, 1)
    BY <1>1, <1>7 DEF WritePins
  <2>2. /\ n_wr = 0 /\ n_mreq = ins.wio
        /\ address = write_address /\ data = write_buffer[write_index - 1]
    BY <1>2, <1>3, <2>1 DEF Writing, Low
  <2>3. Current = write_index - 1 /\ Current \in 0..1
    BY <1>1, <1>2, <1>7, OpsAssumption DEF Current, CycleOrder, Template
  <2>4. InMemory \in {Current, Current + 1} /\ InMemory' = Current + 1
    BY <1>1, <1>5, <1>7 DEF InMemory
  <2>5. PICK from \in ISA!Source(start, ins) :
          /\ ReadFrom(ins, from, ins.reads, read_buffer)
          /\ \E to \in ISA!Target(start, ins, from) :
               /\ ins.wio = 0 => write_address = Plus(to, Current)
               /\ mem = Stored(ins, to, write_buffer, InMemory)
    BY <1>1 DEF WriteProgress
  <2>6. PICK to \in ISA!Target(start, ins, from) :
          /\ ins.wio = 0 => write_address = Plus(to, Current)
          /\ mem = Stored(ins, to, write_buffer, InMemory)
    BY <2>5
  <2>7. mem' = Stored(ins, to, write_buffer, Current + 1)
    <3>1. CASE ins.wio = 0
      <4>1. mem' = ISA!Store(mem, Plus(to, Current), write_buffer[Current])
        BY <1>4, <2>2, <2>3, <2>6, <3>1
      <4>2. to \in Word /\ write_buffer \in Buffer
        BY <1>1, <2>5, <2>6, OperandsAreWords DEF TypeOK
      <4> QED
        BY <1>1, <2>3, <2>4, <2>6, <3>1, <4>1, <4>2, StoredNext
    <3>2. CASE ins.wio = 1
      BY <1>4, <2>2, <2>6, <3>2 DEF Stored
    <3> QED
      BY <1>2, <3>1, <3>2
  <2>8. /\ Untouched' /\ Fetched(ins, ins.size, pc)'
        /\ Prepared(ins, pc, read_buffer, write_buffer)'
    BY <1>1 DEF WriteProgress, Untouched, Fetched, Prepared, InputOf, regs
  <2>9. (write_is_io = ins.wio)'
    BY <1>1, <1>3
  <2>10. (\E from1 \in ISA!Source(start, ins) :
            /\ ReadFrom(ins, from1, ins.reads, read_buffer)
            /\ \E to1 \in ISA!Target(start, ins, from1) :
                 /\ ins.wio = 0 => write_address = Plus(to1, Current)
                 /\ mem = Stored(ins, to1, write_buffer, InMemory))'
    <3>1. ReadFrom(ins, from, ins.reads, read_buffer)'
      BY <1>1, <2>5 DEF ReadFrom
    <3>2. (ins.wio = 0 => write_address = Plus(to, Current))'
      BY <1>1, <1>5, <2>6
    <3>3. (mem = Stored(ins, to, write_buffer, InMemory))'
      BY <1>1, <2>4, <2>7 DEF Stored
    <3> QED
      BY <1>1, <2>5, <2>6, <3>1, <3>2, <3>3
  <2> QED
    BY <2>8, <2>9, <2>10 DEF WriteProgress
<1> QED
  BY <1>2, <1>6, <1>7

\* While WR is low in an interrupt cycle, the devices store half of PC.
LEMMA PushLands ==
  ASSUME LoopInv, DevicesTurn, NEW n \in 0..1, NEW low \in 2..3, NEW t \in 0..7, NEW byte,
         byte = IF n = 0 THEN Hi(start.pc) ELSE Lo(start.pc),
         Pushing(t, low, byte, n), Storing(t - (low - 2))
  PROVE  /\ sp' = Plus(start.sp, WORD - 1 - n)
         /\ t \in 1..low => address' = sp' /\ data' = byte
         /\ mem' = Pushed(n + (IF t >= low THEN 1 ELSE 0))
<1>1. /\ LoopTypeOK /\ turn = "devices"
      /\ UNCHANGED <<sp, address>>
  BY DEF LoopInv, DevicesTurn, regs
<1>2. /\ mem' = IF n_wr = 0 /\ n_mreq = 0 THEN ISA!Store(mem, address, data) ELSE mem
      /\ n_rd # 0 => data' = data
  BY DevicesEffect DEF LoopInv
<1>3. n_rd = 1 /\ IF t = low THEN n_wr = 0 /\ n_mreq = 0 ELSE n_wr = 1
  BY DEF Storing, AllHigh, Low
<1>4. /\ sp = Plus(start.sp, WORD - 1 - n)
      /\ t \in 1..low => address = sp /\ data = byte
  BY DEF Pushing
<1>5. mem = Pushed(n + (IF t > low THEN 1 ELSE 0))
  BY <1>1 DEF Pushing, Landed
<1>6. CASE t = low
  <2>1. mem = Pushed(n) /\ mem' = ISA!Store(Pushed(n), sp, byte)
    BY <1>2, <1>3, <1>4, <1>5, <1>6
  <2>2. ISA!Store(Pushed(n), sp, byte) = Pushed(n + 1)
    <3>1. CASE n = 0
      <4>1. WORD - 1 - n = WORD - 1
        BY <3>1, WordPositive
      <4> QED
        BY <1>1, <1>4, <3>1, <4>1, PushedNext
    <3>2. CASE n = 1
      <4>1. WORD - 1 - n = WORD - 2
        BY <3>2, WordPositive
      <4> QED
        BY <1>1, <1>4, <3>2, <4>1, PushedNext
    <3> QED
      BY <3>1, <3>2
  <2> QED
    BY <1>1, <1>2, <1>3, <1>4, <1>6, <2>1, <2>2
<1>7. CASE t # low
  <2>1. mem' = mem
    BY <1>2, <1>3, <1>7
  <2>2. (IF t > low THEN 1 ELSE 0) = (IF t >= low THEN 1 ELSE 0)
    BY <1>7
  <2> QED
    BY <1>1, <1>2, <1>3, <1>4, <1>5, <2>1, <2>2
<1> QED
  BY <1>6, <1>7

\* The devices get on with an interrupt.
LEMMA InterruptLands ==
  ASSUME LoopInv, DevicesTurn,
         stage \in {"M1_INT", "M2_INT", "M3_INT", "M1_NMI", "M2_NMI", "M3_NMI"}
  PROVE  IntProgress' /\ NmiProgress'
<1>1. /\ TypeOK /\ TicksInRange /\ OtherPins /\ LoopTypeOK /\ IntProgress /\ NmiProgress
      /\ turn = "devices" /\ turn' = "z80"
      /\ UNCHANGED <<stage, regs, m2_tick_count, m3_tick_count, start>>
  BY DEF LoopInv, IInv, PinsFollowCycle, Progress, DevicesTurn, ticks
<1>2. mem' = IF n_wr = 0 /\ n_mreq = 0 THEN ISA!Store(mem, address, data) ELSE mem
  BY DevicesEffect DEF LoopInv
<1>3. \A n \in 0..2 : Pushed(n)' = Pushed(n)
  BY <1>1 DEF Pushed
<1>4. CASE stage \in {"M1_INT", "M1_NMI"}
  <2>1. mem' = mem
    BY <1>1, <1>2, <1>4 DEF OtherPins, AllHigh, Low
  <2> QED
    BY <1>1, <1>4, <2>1 DEF IntProgress, NmiProgress, regs
<1>5. CASE stage = "M2_INT"
  <2>1. PICK t \in 0..3 : t = m2_tick_count
    BY <1>1, <1>5 DEF TicksInRange
  <2>2. /\ sp' = Plus(start.sp, WORD - 1 - 0)
        /\ t \in 1..2 => address' = sp' /\ data' = Hi(start.pc)
        /\ mem' = Pushed(0 + (IF t >= 2 THEN 1 ELSE 0))
    BY <1>1, <1>5, <2>1, PushLands DEF IntProgress, OtherPins
  <2>3. Pushing(m2_tick_count, 2, Hi(start.pc), 0)'
    BY <1>1, <1>3, <2>1, <2>2 DEF Pushing, Landed
  <2> QED
    BY <1>1, <1>5, <2>3 DEF IntProgress, NmiProgress, regs
<1>6. CASE stage = "M3_INT"
  <2>1. PICK t \in 0..3 : t = m3_tick_count
    BY <1>1, <1>6 DEF TicksInRange
  <2>2. /\ sp' = Plus(start.sp, WORD - 1 - 1)
        /\ t \in 1..2 => address' = sp' /\ data' = Lo(start.pc)
        /\ mem' = Pushed(1 + (IF t >= 2 THEN 1 ELSE 0))
    BY <1>1, <1>6, <2>1, PushLands DEF IntProgress, OtherPins
  <2>3. Pushing(m3_tick_count, 2, Lo(start.pc), 1)'
    BY <1>1, <1>3, <2>1, <2>2 DEF Pushing, Landed
  <2> QED
    BY <1>1, <1>6, <2>3 DEF IntProgress, NmiProgress, regs
<1>7. CASE stage = "M2_NMI" /\ m2_tick_count # 5
  <2>1. PICK t \in 0..5 : t = m2_tick_count
    BY <1>1, <1>7 DEF TicksInRange
  <2>2. /\ sp' = Plus(start.sp, WORD - 1 - 0)
        /\ t \in 1..3 => address' = sp' /\ data' = Hi(start.pc)
        /\ mem' = Pushed(0 + (IF t >= 3 THEN 1 ELSE 0))
    BY <1>1, <1>7, <2>1, PushLands DEF NmiProgress, OtherPins
  <2>3. Pushing(m2_tick_count, 3, Hi(start.pc), 0)'
    BY <1>1, <1>3, <2>1, <2>2 DEF Pushing, Landed
  <2> QED
    BY <1>1, <1>7, <2>3 DEF IntProgress, NmiProgress, regs
<1>8. CASE stage = "M2_NMI" /\ m2_tick_count = 5
  <2>1. mem' = mem
    BY <1>1, <1>2, <1>8 DEF OtherPins, Storing, AllHigh, Low
  <2> QED
    BY <1>1, <1>3, <1>8, <2>1 DEF IntProgress, NmiProgress, regs
<1>9. CASE stage = "M3_NMI"
  <2>1. PICK t \in 0..5 : t = m3_tick_count
    BY <1>1, <1>9 DEF TicksInRange
  <2>2. /\ sp' = Plus(start.sp, WORD - 1 - 1)
        /\ t \in 1..3 => address' = sp' /\ data' = Lo(start.pc)
        /\ mem' = Pushed(1 + (IF t >= 3 THEN 1 ELSE 0))
    BY <1>1, <1>9, <2>1, PushLands DEF NmiProgress, OtherPins
  <2>3. Pushing(m3_tick_count, 3, Lo(start.pc), 1)'
    BY <1>1, <1>3, <2>1, <2>2 DEF Pushing, Landed
  <2> QED
    BY <1>1, <1>9, <2>3 DEF IntProgress, NmiProgress, regs
<1> QED
  BY <1>4, <1>5, <1>6, <1>7, <1>8, <1>9

\* The program sees nothing of a turn of the devices.
LEMMA DevicesImplemented ==
  ASSUME LoopInv, DevicesTurn
  PROVE  Implemented
<1>1. /\ TypeOK /\ PinsFollowCycle /\ TicksInRange /\ Progress /\ LoopTypeOK /\ IInv
      /\ stage \in Stages /\ turn' = "z80"
      /\ UNCHANGED <<stage, ticks, pipe, regs, start>>
  BY DEF LoopInv, IInv, DevicesTurn, TypeOK
<1>2. mem' = IF n_wr = 0 /\ n_mreq = 0 THEN ISA!Store(mem, address, data) ELSE mem
  BY <1>1, DevicesEffect
<1>3. stage \notin {"M3", "M2_INT", "M3_INT", "M2_NMI", "M3_NMI"} => mem' = mem
  BY <1>1, <1>2, StrobesQualified
<1>4. Seen' = Seen
  BY <1>1, <1>3 DEF Seen, Machine, regs
<1>5. CASE stage = "M1"
  BY <1>1, <1>3, <1>4, <1>5, FetchCounts DEF Implemented, pipe, indices
<1>6. CASE stage = "M2"
  <2>1. m2_tick_count' \in 2..7 /\ ins.rio = 0 => data' = mem[Cell(read_address)]
    <3>1. SUFFICES ASSUME m2_tick_count' \in 2..7, ins.rio = 0
                   PROVE  data' = mem[Cell(read_address)]
      OBVIOUS
    <3>2. Reading(0)
      BY <1>1, <1>6, <3>1 DEF PinsFollowCycle, ReadPins, ticks
    <3>3. n_rd = 0 /\ n_mreq = 0 /\ address = read_address
      BY <3>2 DEF Reading, Low, TypeOK, Bit
    <3> QED
      BY <1>1, <3>3, DevicesEffect
  <2>2. Progress'
    BY <1>1, <1>3, <1>6, <2>1, ReadCounts DEF pipe, indices, operand
  <2> QED
    BY <1>4, <2>2 DEF Implemented
<1>7. CASE stage = "M3"
  <2>1. WriteProgress'
    BY <1>7, WriteLands
  <2>2. Progress'
    BY <1>1, <1>7, <2>1 DEF Progress, FetchProgress, ReadProgress, RefreshProgress,
                            IntProgress, NmiProgress
  <2> QED
    BY <1>4, <2>2 DEF Implemented
<1>8. CASE stage = "REFRESH"
  BY <1>1, <1>3, <1>4, <1>8, RefreshCounts DEF Implemented
<1>9. CASE stage \in {"M1_INT", "M2_INT", "M3_INT", "M1_NMI", "M2_NMI", "M3_NMI"}
  <2>1. IntProgress' /\ NmiProgress'
    BY <1>9, InterruptLands
  <2>2. Progress'
    BY <1>1, <1>9, <2>1 DEF Progress, FetchProgress, ReadProgress, WriteProgress,
                            RefreshProgress
  <2> QED
    BY <1>4, <2>2 DEF Implemented
<1>10. CASE stage \in {"RESET", "ABORTED"}
  BY <1>1, <1>4, <1>10 DEF Implemented, Progress, FetchProgress, ReadProgress,
         WriteProgress, RefreshProgress, IntProgress, NmiProgress
<1> QED
  BY <1>1, <1>5, <1>6, <1>7, <1>8, <1>9, <1>10 DEF Stages

\* It sees nothing of a line that moves.
LEMMA LinesImplemented ==
  ASSUME LoopInv, UNCHANGED <<stage, ticks, pipe, regs, address, data, turn, mem, start>>
  PROVE  Implemented
<1>1. Progress
  BY DEF LoopInv
<1>2. Seen' = Seen /\ Machine' = Machine
  BY <1>1 DEF Seen, Machine, regs
<1>3. Current' = Current /\ InMemory' = InMemory
  BY <1>1 DEF Current, InMemory, ticks, pipe, indices
<1>4. FetchProgress'
  BY <1>1 DEF Progress, FetchProgress, Untouched, Fetched, regs, pipe, indices
<1>5. ReadProgress'
  BY <1>1 DEF Progress, ReadProgress, Untouched, Fetched, ReadFrom, regs, pipe, indices,
              operand, ticks
<1>6. WriteProgress'
  BY <1>1, <1>3 DEF Progress, WriteProgress, Untouched, Fetched, Prepared, InputOf,
              ReadFrom, Stored, regs, pipe, indices, operand
<1>7. RefreshProgress'
  BY <1>1, <1>2 DEF Progress, RefreshProgress
<1>8. IntProgress' /\ NmiProgress'
  BY <1>1 DEF Progress, IntProgress, NmiProgress, Pushing, Pushed, Landed, regs, ticks
<1> QED
  BY <1>2, <1>4, <1>5, <1>6, <1>7, <1>8 DEF Implemented, Progress
-----------------------------------------------------------------------------
(***************************************************************************)
(* The boundary and the interrupts.                                        *)
(***************************************************************************)

\* At the boundary the next instruction or interrupt starts from what the last one
\* left, and an interrupt the core cannot serve is lost.
LEMMA BoundaryImplemented ==
  ASSUME LoopInv, CpuTurn, Boundary
  PROVE  Implemented
<1>1. /\ TypeOK /\ LoopTypeOK /\ stage = "RESET" /\ start' = Machine /\ Seen = Machine
      /\ UNCHANGED <<pc, sp, int_mode, mem>> /\ turn' = "devices"
  BY DEF LoopInv, IInv, CpuTurn, Boundary, AcceptNmi, AcceptInt, DropInt, BeginFetch,
         Seen, regs
<1>2. /\ Machine.pc = pc /\ Machine.sp = sp /\ Machine.iff1 = iff1 /\ Machine.iff2 = iff2
      /\ Machine.int_mode = int_mode /\ Machine.mem = mem
  BY DEF Machine
<1>3. CASE AcceptNmi
  <2>1. stage' = "M1_NMI" /\ iff1' = 0 /\ iff2' = iff1
    BY <1>3 DEF AcceptNmi
  <2>2. NmiProgress'
    BY <1>1, <1>2, <2>1 DEF NmiProgress
  <2>3. Progress'
    BY <2>1, <2>2 DEF Progress, FetchProgress, ReadProgress, WriteProgress,
                      RefreshProgress, IntProgress
  <2> QED
    BY <1>1, <2>1, <2>3 DEF Implemented, Seen
<1>4. CASE AcceptInt
  <2>1. stage' = "M1_INT" /\ iff1 = 1 /\ int_mode = 1 /\ iff1' = 0 /\ iff2' = 0
    BY <1>4 DEF AcceptInt, IntPending
  <2>2. Progress'
    BY <1>1, <1>2, <2>1 DEF Progress, FetchProgress, ReadProgress, WriteProgress,
                            RefreshProgress, IntProgress, NmiProgress
  <2> QED
    BY <1>1, <2>1, <2>2 DEF Implemented, Seen
<1>5. CASE DropInt
  <2>1. /\ stage' \in {"RESET", "ABORTED"} /\ iff1 = 1 /\ int_mode # 1
        /\ iff1' = 0 /\ iff2' = 0
    BY <1>5 DEF DropInt, IntPending
  <2>2. Progress'
    BY <2>1 DEF Progress, FetchProgress, ReadProgress, WriteProgress,
                RefreshProgress, IntProgress, NmiProgress
  <2>3. Seen' = Machine'
    BY <2>1 DEF Seen
  <2>4. Machine' = [pc |-> pc, sp |-> sp, iff1 |-> 0, iff2 |-> 0,
                    int_mode |-> int_mode, mem |-> mem]
    BY <1>1, <2>1 DEF Machine
  <2>5. ISA!LoseInt
    <3>1. Seen' = [pc |-> Seen.pc, sp |-> Seen.sp, iff1 |-> 0, iff2 |-> 0,
                   int_mode |-> Seen.int_mode, mem |-> Seen.mem]
      BY <1>1, <1>2, <2>3, <2>4
    <3>2. Seen.iff1 = 1 /\ Seen.int_mode # 1
      BY <1>1, <1>2, <2>1
    <3> QED
      BY <3>1, <3>2 DEF ISA!LoseInt
  <2> QED
    BY <2>2, <2>5 DEF Implemented, ISA!Next
<1>6. CASE BeginFetch
  <2>1. /\ stage' = "M1" /\ opcode_index' = 0 /\ UNCHANGED regs
    BY <1>6 DEF BeginFetch, ResetPipeline
  <2>2. Progress'
    BY <1>1, <1>2, <2>1 DEF Progress, FetchProgress, ReadProgress, WriteProgress,
                            RefreshProgress, IntProgress, NmiProgress, Untouched, regs
  <2> QED
    BY <1>1, <2>1, <2>2 DEF Implemented, Seen
<1> QED
  BY <1>3, <1>4, <1>5, <1>6 DEF Boundary

\* SP comes down by one for each half of PC that is stored.
LEMMA StackDown ==
  ASSUME LoopTypeOK
  PROVE  /\ Plus(start.sp, WORD - 1 - 0) = Plus(start.sp, WORD - 1)
         /\ Plus(Plus(start.sp, WORD - 1 - 0), WORD - 1) = Plus(start.sp, WORD - 1 - 1)
         /\ Plus(start.sp, WORD - 1 - 1) = Plus(start.sp, WORD - 2)
<1>1. /\ start.sp \in Int /\ WORD \in Int
      /\ WORD - 1 \in Int /\ WORD - 2 \in Int
  BY WordPositive DEF LoopTypeOK, Word
<1>2. WORD - 1 - 0 = WORD - 1 /\ WORD - 1 - 1 = WORD - 2
  BY <1>1
<1>3. Plus(Plus(start.sp, WORD - 1), WORD - 1) = Plus(start.sp, (WORD - 1) + (WORD - 1))
  BY <1>1, PlusPlus
<1>4. (WORD - 1) + (WORD - 1) = WORD + (WORD - 2)
  BY <1>1
<1>5. Plus(start.sp, WORD + (WORD - 2)) = Plus(start.sp, WORD - 2)
  BY <1>1, PlusWord
<1> QED
  BY <1>2, <1>3, <1>4, <1>5

\* The cycles of an INT make one step of the instruction set.
LEMMA IntImplemented ==
  ASSUME LoopInv, CpuTurn, IntM1 \/ IntM2 \/ IntM3
  PROVE  Implemented
<1>1. /\ LoopTypeOK /\ TypeOK /\ TicksInRange /\ Progress /\ IntProgress
      /\ mem' = mem /\ turn = "z80" /\ turn' = "devices"
      /\ stage \in {"M1_INT", "M2_INT", "M3_INT"}
  BY DEF LoopInv, IInv, Progress, CpuTurn, IntM1, IntM2, IntM3
<1>2. start' = start
  BY <1>1 DEF CpuTurn
<1>3. \A n \in 0..2 : Pushed(n)' = Pushed(n)
  BY <1>2 DEF Pushed
<1>4. /\ start.iff1 = 1 /\ start.int_mode = 1
      /\ iff1 = 0 /\ iff2 = 0 /\ int_mode = 1 /\ pc = start.pc
  BY <1>1 DEF IntProgress
<1>5. CASE IntM1
  <2>1. /\ stage = "M1_INT" /\ sp = start.sp /\ mem = Pushed(0)
        /\ UNCHANGED <<pc, iff1, iff2, int_mode>>
    BY <1>1, <1>5 DEF IntM1, IntProgress, Pushed
  <2>2. CASE m1_tick_count < 7
    <3>1. stage' = "M1_INT" /\ sp' = sp
      BY <1>5, <2>2 DEF IntM1
    <3>2. Progress'
      BY <1>1, <1>2, <1>4, <2>1, <3>1 DEF Progress, FetchProgress, ReadProgress,
         WriteProgress, RefreshProgress, IntProgress, NmiProgress, Pushed
    <3> QED
      BY <1>2, <2>1, <3>1, <3>2, NothingSeen DEF Implemented
  <2>3. CASE ~(m1_tick_count < 7)
    <3>1. stage' = "M2_INT" /\ sp' = Plus(sp, WORD - 1) /\ m2_tick_count' = 0
      BY <1>1, <1>5, <2>1, <2>3 DEF IntM1, TicksInRange
    <3>2. Pushing(m2_tick_count, 2, Hi(start.pc), 0)'
      BY <1>1, <1>2, <1>3, <2>1, <3>1, StackDown DEF Pushing, Landed
    <3>3. Progress'
      BY <1>2, <1>4, <2>1, <3>1, <3>2 DEF Progress, FetchProgress, ReadProgress,
         WriteProgress, RefreshProgress, IntProgress, NmiProgress
    <3> QED
      BY <1>2, <2>1, <3>1, <3>3 DEF Implemented, Seen
  <2> QED
    BY <2>2, <2>3
<1>6. CASE IntM2
  <2>1. /\ stage = "M2_INT" /\ Pushing(m2_tick_count, 2, Hi(start.pc), 0)
        /\ UNCHANGED <<pc, iff1, iff2, int_mode>> /\ m2_tick_count \in 0..3
        /\ m3_tick_count = 0 /\ m3_tick_count' = 0
        /\ m2_tick_count' = m2_tick_count + 1
    BY <1>1, <1>6 DEF IntM2, IntProgress, TicksInRange
  <2>2. CASE IntStore(m2_tick_count, Hi(pc)) /\ UNCHANGED <<stage, sp>>
    <3>1. m2_tick_count \in 0..2
      BY <2>2 DEF IntStore
    <3>2. /\ mem = Pushed(IF m2_tick_count >= 2 THEN 1 ELSE 0)
          /\ sp = Plus(start.sp, WORD - 1 - 0)
      BY <1>1, <2>1, <3>1 DEF Pushing, Landed
    <3>3. m2_tick_count' \in 1..2 => address' = sp' /\ data' = Hi(start.pc)
      BY <1>4, <2>1, <2>2, <3>1 DEF Pushing, IntStore, PinsOf
    <3>4. Pushing(m2_tick_count, 2, Hi(start.pc), 0)'
      BY <1>1, <1>2, <1>3, <2>1, <2>2, <3>1, <3>2, <3>3 DEF Pushing, Landed
    <3>5. Progress'
      BY <1>2, <1>4, <2>1, <2>2, <3>4 DEF Progress, FetchProgress, ReadProgress,
         WriteProgress, RefreshProgress, IntProgress, NmiProgress
    <3> QED
      BY <1>2, <2>1, <2>2, <3>5, NothingSeen DEF Implemented
  <2>3. CASE m2_tick_count = 3 /\ stage' = "M3_INT" /\ sp' = Plus(sp, WORD - 1)
    <3>1. mem = Pushed(1) /\ sp = Plus(start.sp, WORD - 1 - 0)
      BY <1>1, <2>1, <2>3 DEF Pushing, Landed
    <3>2. sp' = Plus(start.sp, WORD - 1 - 1)
      BY <1>1, <2>3, <3>1, StackDown
    <3>3. Pushing(m3_tick_count, 2, Lo(start.pc), 1)'
      BY <1>1, <1>2, <1>3, <2>1, <3>1, <3>2 DEF Pushing, Landed
    <3>4. Progress'
      BY <1>2, <1>4, <2>1, <2>3, <3>3 DEF Progress, FetchProgress, ReadProgress,
         WriteProgress, RefreshProgress, IntProgress, NmiProgress
    <3> QED
      BY <1>2, <2>1, <2>3, <3>4 DEF Implemented, Seen
  <2> QED
    BY <1>6, <2>2, <2>3 DEF IntM2
<1>7. CASE IntM3
  <2>1. /\ stage = "M3_INT" /\ Pushing(m3_tick_count, 2, Lo(start.pc), 1)
        /\ UNCHANGED <<sp, iff1, iff2, int_mode>> /\ m3_tick_count \in 0..3
    BY <1>1, <1>7 DEF IntM3, IntProgress, TicksInRange
  <2>2. CASE /\ IntStore(m3_tick_count, Lo(pc)) /\ UNCHANGED <<stage, pc>>
             /\ m3_tick_count' = m3_tick_count + 1
    <3>1. m3_tick_count \in 0..2
      BY <2>2 DEF IntStore
    <3>2. /\ mem = Pushed(IF m3_tick_count >= 2 THEN 2 ELSE 1)
          /\ sp = Plus(start.sp, WORD - 1 - 1)
      BY <1>1, <2>1, <3>1 DEF Pushing, Landed
    <3>3. m3_tick_count' \in 1..2 => address' = sp' /\ data' = Lo(start.pc)
      BY <1>4, <2>1, <2>2, <3>1 DEF Pushing, IntStore, PinsOf
    <3>4. Pushing(m3_tick_count, 2, Lo(start.pc), 1)'
      BY <1>1, <1>2, <1>3, <2>1, <2>2, <3>1, <3>2, <3>3 DEF Pushing, Landed
    <3>5. Progress'
      BY <1>2, <1>4, <2>1, <2>2, <3>4 DEF Progress, FetchProgress, ReadProgress,
         WriteProgress, RefreshProgress, IntProgress, NmiProgress
    <3> QED
      BY <1>2, <2>1, <2>2, <3>5, NothingSeen DEF Implemented
  <2>3. CASE m3_tick_count = 3 /\ stage' = "RESET" /\ pc' = IntVector
    <3>1. mem = Pushed(2) /\ sp = Plus(start.sp, WORD - 1 - 1)
      BY <1>1, <2>1, <2>3 DEF Pushing, Landed
    <3>2. mem' = ISA!PushPc(start) /\ sp' = ISA!Plus(start.sp, WORD - 2)
      BY <1>1, <2>1, <3>1, StackDown, SameFunctions DEF Pushed
    <3>3. Seen = start /\ Seen' = Machine'
      BY <2>1, <2>3 DEF Seen
    <3>4. ISA!TakeInt
      BY <1>4, <2>1, <2>3, <3>2, <3>3, SameFunctions DEF ISA!TakeInt, Machine
    <3>5. Progress'
      BY <2>3 DEF Progress, FetchProgress, ReadProgress,
         WriteProgress, RefreshProgress, IntProgress, NmiProgress
    <3> QED
      BY <3>4, <3>5 DEF Implemented, ISA!Next
  <2> QED
    BY <1>7, <2>2, <2>3 DEF IntM3
<1> QED
  BY <1>5, <1>6, <1>7

\* So do the cycles of an NMI.
LEMMA NmiImplemented ==
  ASSUME LoopInv, CpuTurn, NmiM1 \/ NmiM2 \/ NmiM3
  PROVE  Implemented
<1>1. /\ LoopTypeOK /\ TypeOK /\ TicksInRange /\ Progress /\ NmiProgress
      /\ mem' = mem /\ turn = "z80" /\ turn' = "devices"
      /\ stage \in {"M1_NMI", "M2_NMI", "M3_NMI"}
  BY DEF LoopInv, IInv, Progress, CpuTurn, NmiM1, NmiM2, NmiM3
<1>2. start' = start
  BY <1>1 DEF CpuTurn
<1>3. \A n \in 0..2 : Pushed(n)' = Pushed(n)
  BY <1>2 DEF Pushed
<1>4. iff1 = 0 /\ iff2 = start.iff1 /\ int_mode = start.int_mode
  BY <1>1 DEF NmiProgress
<1>5. CASE NmiM1
  <2>1. /\ stage = "M1_NMI" /\ pc = start.pc /\ sp = start.sp /\ mem = Pushed(0)
        /\ UNCHANGED <<pc, iff1, iff2, int_mode>>
    BY <1>1, <1>5 DEF NmiM1, NmiProgress, Pushed
  <2>2. CASE m1_tick_count < 9
    <3>1. stage' = "M1_NMI" /\ sp' = sp
      BY <1>5, <2>2 DEF NmiM1
    <3>2. NmiProgress'
      BY <1>1, <1>2, <1>4, <2>1, <3>1 DEF NmiProgress, Pushed
    <3>3. Progress'
      BY <3>1, <3>2 DEF Progress, FetchProgress, ReadProgress, WriteProgress,
                        RefreshProgress, IntProgress
    <3> QED
      BY <1>2, <2>1, <3>1, <3>3, NothingSeen DEF Implemented
  <2>3. CASE ~(m1_tick_count < 9)
    <3>1. stage' = "M2_NMI" /\ sp' = Plus(sp, WORD - 1) /\ m2_tick_count' = 0
      BY <1>1, <1>5, <2>1, <2>3 DEF NmiM1, TicksInRange
    <3>2. Pushing(m2_tick_count, 3, Hi(start.pc), 0)'
      BY <1>1, <1>2, <1>3, <2>1, <3>1, StackDown DEF Pushing, Landed
    <3>3. NmiProgress'
      BY <1>2, <1>4, <2>1, <3>1, <3>2 DEF NmiProgress
    <3>4. Progress'
      BY <3>1, <3>3 DEF Progress, FetchProgress, ReadProgress, WriteProgress,
                        RefreshProgress, IntProgress
    <3> QED
      BY <1>2, <2>1, <3>1, <3>4 DEF Implemented, Seen
  <2> QED
    BY <2>2, <2>3
<1>6. CASE NmiM2
  <2>1. /\ stage = "M2_NMI" /\ pc = start.pc /\ m2_tick_count \in 0..5
        /\ UNCHANGED <<pc, iff1, iff2, int_mode>>
        /\ m3_tick_count = 0 /\ m3_tick_count' = 0
        /\ m2_tick_count # 5 => Pushing(m2_tick_count, 3, Hi(start.pc), 0)
    BY <1>1, <1>6 DEF NmiM2, NmiProgress, TicksInRange
  <2>2. CASE m2_tick_count \in 0..3
    <3>1. stage' = "M2_NMI" /\ sp' = sp /\ m2_tick_count' = m2_tick_count + 1
      BY <1>6, <2>1, <2>2 DEF NmiM2
    <3>2. /\ mem = Pushed(IF m2_tick_count >= 3 THEN 1 ELSE 0)
          /\ sp = Plus(start.sp, WORD - 1 - 0)
      BY <1>1, <2>1, <2>2 DEF Pushing, Landed
    <3>3. m2_tick_count' \in 1..3 => address' = sp' /\ data' = Hi(start.pc)
      BY <1>6, <2>1, <2>2, <3>1 DEF NmiM2, Pushing, NmiStore, PinsOf
    <3>4. Pushing(m2_tick_count, 3, Hi(start.pc), 0)'
      BY <1>1, <1>2, <1>3, <2>1, <2>2, <3>1, <3>2, <3>3 DEF Pushing, Landed
    <3>5. NmiProgress'
      BY <1>2, <1>4, <2>1, <2>2, <3>1, <3>4 DEF NmiProgress
    <3>6. Progress'
      BY <3>1, <3>5 DEF Progress, FetchProgress, ReadProgress, WriteProgress,
                        RefreshProgress, IntProgress
    <3> QED
      BY <1>2, <2>1, <3>1, <3>6, NothingSeen DEF Implemented
  <2>3. CASE m2_tick_count = 4
    <3>1. stage' = "M2_NMI" /\ sp' = Plus(sp, WORD - 1) /\ m2_tick_count' = 5
      BY <1>6, <2>1, <2>3 DEF NmiM2
    <3>2. mem = Pushed(1) /\ sp = Plus(start.sp, WORD - 1 - 0)
      BY <1>1, <2>1, <2>3 DEF Pushing, Landed
    <3>3. sp' = Plus(start.sp, WORD - 2)
      BY <1>1, <3>1, <3>2, StackDown
    <3>4. NmiProgress'
      BY <1>1, <1>2, <1>3, <1>4, <2>1, <3>1, <3>2, <3>3 DEF NmiProgress
    <3>5. Progress'
      BY <3>1, <3>4 DEF Progress, FetchProgress, ReadProgress, WriteProgress,
                        RefreshProgress, IntProgress
    <3> QED
      BY <1>2, <2>1, <3>1, <3>5, NothingSeen DEF Implemented
  <2>4. CASE m2_tick_count = 5
    <3>1. stage' = "M3_NMI" /\ sp' = sp
      BY <1>6, <2>1, <2>4 DEF NmiM2
    <3>2. mem = Pushed(1) /\ sp = Plus(start.sp, WORD - 2)
      BY <1>1, <2>1, <2>4 DEF NmiProgress
    <3>3. Pushing(m3_tick_count, 3, Lo(start.pc), 1)'
      BY <1>1, <1>2, <1>3, <2>1, <3>1, <3>2, StackDown DEF Pushing, Landed
    <3>4. NmiProgress'
      BY <1>2, <1>4, <2>1, <3>1, <3>3 DEF NmiProgress
    <3>5. Progress'
      BY <3>1, <3>4 DEF Progress, FetchProgress, ReadProgress, WriteProgress,
                        RefreshProgress, IntProgress
    <3> QED
      BY <1>2, <2>1, <3>1, <3>5 DEF Implemented, Seen
  <2> QED
    BY <2>1, <2>2, <2>3, <2>4
<1>7. CASE NmiM3
  <2>1. /\ stage = "M3_NMI" /\ Pushing(m3_tick_count, 3, Lo(start.pc), 1)
        /\ UNCHANGED <<sp, iff1, iff2, int_mode>> /\ m3_tick_count \in 0..5
        /\ pc = IF m3_tick_count = 5 THEN NmiVector ELSE start.pc
    BY <1>1, <1>7 DEF NmiM3, NmiProgress, TicksInRange
  <2>2. sp = Plus(start.sp, WORD - 1 - 1)
    BY <2>1 DEF Pushing
  <2>3. CASE m3_tick_count \in 0..4
    <3>1. /\ stage' = "M3_NMI" /\ m3_tick_count' = m3_tick_count + 1
          /\ pc' = IF m3_tick_count' = 5 THEN NmiVector ELSE start.pc
      BY <1>7, <2>1, <2>3 DEF NmiM3
    <3>2. mem = Pushed(IF m3_tick_count >= 3 THEN 2 ELSE 1)
      BY <1>1, <2>1, <2>3 DEF Pushing, Landed
    <3>3. m3_tick_count' \in 1..3 => address' = sp' /\ data' = Lo(start.pc)
      BY <1>7, <2>1, <2>3, <3>1 DEF NmiM3, Pushing, NmiStore, PinsOf
    <3>4. Pushing(m3_tick_count, 3, Lo(start.pc), 1)'
      BY <1>1, <1>2, <1>3, <2>1, <2>2, <2>3, <3>1, <3>2, <3>3 DEF Pushing, Landed
    <3>5. NmiProgress'
      BY <1>2, <1>4, <2>1, <3>1, <3>4 DEF NmiProgress
    <3>6. Progress'
      BY <3>1, <3>5 DEF Progress, FetchProgress, ReadProgress, WriteProgress,
                        RefreshProgress, IntProgress
    <3> QED
      BY <1>2, <2>1, <3>1, <3>6, NothingSeen DEF Implemented
  <2>4. CASE m3_tick_count = 5
    <3>1. stage' = "RESET" /\ pc' = NmiVector
      BY <1>7, <2>1, <2>4 DEF NmiM3
    <3>2. mem = Pushed(2)
      BY <1>1, <2>1, <2>4 DEF Pushing, Landed
    <3>3. mem' = ISA!PushPc(start) /\ sp' = ISA!Plus(start.sp, WORD - 2)
      BY <1>1, <2>1, <2>2, <3>2, StackDown, SameFunctions DEF Pushed
    <3>4. Seen = start /\ Seen' = Machine'
      BY <2>1, <3>1 DEF Seen
    <3>5. ISA!TakeNmi
      BY <1>4, <2>1, <3>1, <3>3, <3>4, SameFunctions DEF ISA!TakeNmi, Machine
    <3>6. Progress'
      BY <3>1 DEF Progress, FetchProgress, ReadProgress,
         WriteProgress, RefreshProgress, IntProgress, NmiProgress
    <3> QED
      BY <3>5, <3>6 DEF Implemented, ISA!Next
  <2> QED
    BY <2>1, <2>3, <2>4
<1> QED
  BY <1>5, <1>6, <1>7
-----------------------------------------------------------------------------
(***************************************************************************)
(* The decoder ends a machine cycle, as in Z80CoreProofs: op is the        *)
(* operation it calls, with n opcode bytes, r bytes read and w written.    *)
(***************************************************************************)

\* What the instruction has done so far.
Gathered(op, n, r, w, pc1, buf) ==
  /\ Untouched /\ Fetched(op, n, pc1)
  /\ w = 0 => mem = start.mem
  /\ r # 0 \/ op.reads = 0 =>
       \E from \in ISA!Source(start, op) :
         /\ ReadFrom(op, from, r, buf)
         /\ w = 0 /\ r # 0 => read_address = Plus(from, r - 1)
         /\ w # 0 => /\ write_is_io = op.wio
                     /\ Prepared(op, pc1, buf, write_buffer)
                     /\ \E to \in ISA!Target(start, op, from) :
                          /\ op.wio = 0 => write_address = Plus(to, w - 1)
                          /\ mem = Stored(op, to, write_buffer, w)

\* What the cycle that calls the decoder leaves.
HandsOver(n, r, w, buf) ==
  /\ opcode_index' = n /\ read_index' = r /\ write_index' = w /\ read_buffer' = buf
  /\ m2_tick_count' = 0 /\ m3_tick_count' = 0
  /\ turn' = "devices" /\ mem' = mem /\ start' = start

\* An opcode that needs another byte goes on being fetched.
LEMMA FetchGoesOn ==
  ASSUME NEW op \in Ops, NEW n, NEW r, NEW w, NEW pc1, NEW buf, w = 0,
         n \in 1..4, Gathered(op, n, r, w, pc1, buf), HandsOver(n, r, w, buf),
         NeedOpcode(op, n, pc1)
  PROVE  Progress' /\ stage' = "M1"
<1>1. stage' = "M1"
  BY DEF NeedOpcode
<1>2. FetchProgress'
  BY DEF Gathered, HandsOver, NeedOpcode, FetchProgress, Untouched, Fetched
<1> QED
  BY <1>1, <1>2 DEF Progress, ReadProgress, WriteProgress, RefreshProgress,
                    IntProgress, NmiProgress

\* A read starts or goes on at the address the operation computes.
LEMMA ReadGoesOn ==
  ASSUME TypeOK, LoopTypeOK,
         NEW op \in Ops, NEW n, NEW r, NEW w, NEW pc1, NEW buf,
         InOrder(op, n, r, w), Gathered(op, n, r, w, pc1, buf), HandsOver(n, r, w, buf),
         NeedRead(op, n, r, pc1)
  PROVE  Progress' /\ stage' = "M2"
<1>1. stage' = "M2"
  BY DEF NeedRead
<1>2. /\ n = op.size /\ r < op.reads /\ pc' = pc1 /\ ins' = op /\ w = 0
      /\ op.reads \in 0..2 /\ r \in 0..1
      /\ UNCHANGED <<sp, iff1, iff2, int_mode>>
  BY OpsAssumption DEF NeedRead, InOrder, Template
<1>3. Untouched /\ Fetched(op, n, pc1) /\ mem = start.mem
  BY <1>2 DEF Gathered
<1>4. \E from \in ISA!Source(start, op) :
        read_address' = Plus(from, r) /\ ReadFrom(op, from, r, buf)
  <2>1. CASE r = 0
    <3>1. read_address' \in ReadOperand(op)
      BY <2>1 DEF NeedRead
    <3>2. read_address' \in ISA!Source(start, op)
      BY <1>2, <1>3, <3>1, SameFunctions DEF ReadOperand, ISA!Source, Untouched
    <3>3. Plus(read_address', 0) = read_address'
      BY <3>2, OperandsAreWords, PlusZero
    <3>4. ReadFrom(op, read_address', r, buf)
      BY <2>1 DEF ReadFrom
    <3> QED
      BY <2>1, <3>2, <3>3, <3>4
  <2>2. CASE r # 0
    <3>1. PICK from \in ISA!Source(start, op) :
            ReadFrom(op, from, r, buf) /\ read_address = Plus(from, r - 1)
      BY <1>2, <2>2 DEF Gathered
    <3>2. from \in Int /\ r - 1 \in Int /\ (r - 1) + 1 = r
      BY <1>2, OperandsAreWords, WordPositive DEF Word
    <3>3. Plus(Plus(from, r - 1), 1) = Plus(from, (r - 1) + 1)
      BY <3>2, PlusPlus
    <3>4. read_address' = Plus(read_address, 1)
      BY <2>2 DEF NeedRead
    <3> QED
      BY <3>1, <3>2, <3>3, <3>4
  <2> QED
    BY <2>1, <2>2
<1>5. ReadProgress'
  <2>1. Untouched' /\ (mem = start.mem)' /\ Fetched(ins, ins.size, pc)'
    BY <1>2, <1>3 DEF HandsOver, Untouched, Fetched
  <2>2. (\E from \in ISA!Source(start, ins) :
           /\ read_address = Plus(from, read_index)
           /\ ReadFrom(ins, from, read_index, read_buffer))'
    BY <1>2, <1>4 DEF HandsOver, ReadFrom
  <2> QED
    BY <2>1, <2>2 DEF ReadProgress, HandsOver
<1> QED
  BY <1>1, <1>5 DEF Progress, FetchProgress, WriteProgress, RefreshProgress,
                    IntProgress, NmiProgress

\* The write buffer is filled with what the operation puts out.
LEMMA BufferPrepared ==
  ASSUME TypeOK, NEW op \in Ops, NEW pc1 \in Word, NEW buf \in Buffer,
         NEW out \in WriteData(op, pc1, buf)
  PROVE  Prepared(op, pc1, buf, out)
<1>1. /\ op.writes \in 0..2 /\ op.reads \in 0..2
      /\ op.eff = "repeat" => op.reads = 1 /\ op.writes < 2
  BY OpsAssumption, EffectAssumption DEF Template
<1>2. out \in Buffer
  BY OperandsTyped
<1>3. CASE op.eff = "call"
  <2>1. out \in ISA!Output(op, pc1, InputOf(op, buf))
    BY <1>3, SameFunctions DEF WriteData, ISA!Output
  <2> QED
    BY <2>1 DEF Prepared
<1>4. CASE op.eff = "repeat"
  <2>1. InputOf(op, buf) \in ISA!Output(op, pc1, InputOf(op, buf))
    BY <1>4 DEF ISA!Output
  <2>2. out[0] = buf[0]
    BY <1>4 DEF WriteData, TypeOK, Buffer
  <2>3. InputOf(op, buf)[0] = buf[0]
    BY <1>1, <1>4 DEF InputOf
  <2>4. \A i \in 0..(op.writes - 1) : InputOf(op, buf)[i] = out[i]
    BY <1>1, <1>4, <2>2, <2>3
  <2> QED
    BY <2>1, <2>4 DEF Prepared
<1>5. CASE op.eff \notin {"call", "repeat"}
  <2> DEFINE o == [i \in 0..(op.writes - 1) |-> out[i]]
  <2>1. o \in [0..(op.writes - 1) -> Byte]
    BY <1>1, <1>2 DEF Buffer
  <2>2. o \in ISA!Output(op, pc1, InputOf(op, buf))
    BY <1>5, <2>1, SameFunctions DEF ISA!Output
  <2> QED
    BY <2>2 DEF Prepared
<1> QED
  BY <1>3, <1>4, <1>5

\* A write starts or goes on at the address the operation computes.
LEMMA WriteGoesOn ==
  ASSUME TypeOK, LoopTypeOK,
         NEW op \in Ops, NEW n, NEW r, NEW w, NEW pc1 \in Word, NEW buf \in Buffer,
         InOrder(op, n, r, w), Gathered(op, n, r, w, pc1, buf), HandsOver(n, r, w, buf),
         NeedWrite(op, n, r, w, pc1, buf)
  PROVE  Progress' /\ stage' = "M3"
<1>1. stage' = "M3"
  BY DEF NeedWrite
<1>2. /\ n = op.size /\ r = op.reads /\ pc' = pc1 /\ ins' = op /\ w < op.writes
      /\ op.reads \in 0..2 /\ op.writes \in 0..2 /\ w \in 0..1 /\ op.wio \in 0..1
      /\ UNCHANGED <<sp, iff1, iff2, int_mode>>
      /\ op.eff = "rmw" => op.reads = 1
  BY OpsAssumption, EffectAssumption DEF NeedWrite, InOrder, Template
<1>3. Untouched /\ Fetched(op, n, pc1)
  BY DEF Gathered
<1>4. PICK from \in ISA!Source(start, op) :
        /\ ReadFrom(op, from, r, buf)
        /\ w = 0 /\ r # 0 => read_address = Plus(from, r - 1)
        /\ w # 0 => /\ write_is_io = op.wio
                    /\ Prepared(op, pc1, buf, write_buffer)
                    /\ \E to \in ISA!Target(start, op, from) :
                         /\ op.wio = 0 => write_address = Plus(to, w - 1)
                         /\ mem = Stored(op, to, write_buffer, w)
  BY <1>2 DEF Gathered
<1>5. from \in Word /\ ISA!Target(start, op, from) \subseteq Word
  BY OperandsAreWords
<1>6. /\ write_is_io' = op.wio
      /\ Prepared(op, pc1, buf, write_buffer')
      /\ \E to \in ISA!Target(start, op, from) :
           /\ op.wio = 0 => write_address' = Plus(to, w)
           /\ mem = Stored(op, to, write_buffer', w)
  <2>1. CASE w = 0
    <3>1. /\ write_is_io' = op.wio /\ write_address' \in WriteOperand(op)
          /\ write_buffer' \in WriteData(op, pc1, buf) /\ mem = start.mem
      BY <2>1 DEF NeedWrite, Gathered
    <3>2. Prepared(op, pc1, buf, write_buffer')
      BY <3>1, BufferPrepared
    <3>3. \A to : mem = Stored(op, to, write_buffer', w)
      BY <2>1, <3>1 DEF Stored
    <3>4. CASE op.wio = 1
      <4>1. 0 \in ISA!Target(start, op, from)
        BY <3>4 DEF ISA!Target
      <4> QED
        BY <3>1, <3>2, <3>3, <3>4, <4>1
    <3>5. CASE op.wio = 0
      <4>1. op.eff = "rmw" => read_address = from
        BY <1>2, <1>4, <1>5, <2>1, PlusZero
      <4>2. write_address' \in ISA!Target(start, op, from)
        BY <1>2, <1>3, <3>1, <3>5, <4>1, SameFunctions
           DEF WriteOperand, ISA!Target, Untouched
      <4>3. Plus(write_address', 0) = write_address'
        BY <1>5, <4>2, PlusZero
      <4> QED
        BY <2>1, <3>1, <3>2, <3>3, <4>2, <4>3
    <3> QED
      BY <1>2, <3>4, <3>5
  <2>2. CASE w # 0
    <3>1. /\ write_address' = Plus(write_address, 1)
          /\ write_is_io' = write_is_io /\ write_buffer' = write_buffer
      BY <2>2 DEF NeedWrite
    <3>2. PICK to \in ISA!Target(start, op, from) :
            /\ op.wio = 0 => write_address = Plus(to, w - 1)
            /\ mem = Stored(op, to, write_buffer, w)
      BY <1>4, <2>2
    <3>3. to \in Int /\ w - 1 \in Int /\ (w - 1) + 1 = w
      BY <1>2, <1>5, WordPositive DEF Word
    <3>4. Plus(Plus(to, w - 1), 1) = Plus(to, (w - 1) + 1)
      BY <3>3, PlusPlus
    <3> QED
      BY <1>4, <2>2, <3>1, <3>2, <3>3, <3>4
  <2> QED
    BY <2>1, <2>2
<1>7. WriteProgress'
  <2>1. Current' = w /\ InMemory' = w
    BY DEF HandsOver, Current, InMemory
  <2>2. Untouched' /\ Fetched(ins, ins.size, pc)' /\ (write_is_io = ins.wio)'
    BY <1>2, <1>3, <1>6 DEF HandsOver, Untouched, Fetched
  <2>3. Prepared(ins, pc, read_buffer, write_buffer)'
    BY <1>2, <1>6 DEF HandsOver, Prepared, InputOf
  <2>4. PICK to \in ISA!Target(start, op, from) :
           /\ op.wio = 0 => write_address' = Plus(to, w)
           /\ mem = Stored(op, to, write_buffer', w)
    BY <1>6
  <2>5. ReadFrom(ins, from, ins.reads, read_buffer)'
    BY <1>2, <1>4 DEF HandsOver, ReadFrom
  <2>6. /\ (ins.wio = 0 => write_address = Plus(to, Current))'
        /\ (mem = Stored(ins, to, write_buffer, InMemory))'
    BY <1>2, <2>1, <2>4 DEF HandsOver, Stored
  <2>7. (\E from1 \in ISA!Source(start, ins) :
            /\ ReadFrom(ins, from1, ins.reads, read_buffer)
            /\ \E to1 \in ISA!Target(start, ins, from1) :
                 /\ ins.wio = 0 => write_address = Plus(to1, Current)
                 /\ mem = Stored(ins, to1, write_buffer, InMemory))'
    BY <1>2, <2>5, <2>6 DEF HandsOver
  <2> QED
    BY <2>2, <2>3, <2>7 DEF WriteProgress
<1> QED
  BY <1>1, <1>7 DEF Progress, FetchProgress, ReadProgress, RefreshProgress,
                    IntProgress, NmiProgress

\* When the operation is over, the machine is as one step of the instruction set
\* leaves it.
LEMMA RetireExecutes ==
  ASSUME TypeOK, LoopTypeOK,
         NEW op \in Ops, NEW n, NEW r, NEW w, NEW pc1 \in Word, NEW buf \in Buffer,
         InOrder(op, n, r, w), Gathered(op, n, r, w, pc1, buf), HandsOver(n, r, w, buf),
         Retire(op, n, r, w, pc1, buf)
  PROVE  ISA!Executed(start, op, Machine')
<1>1. /\ n = op.size /\ r = op.reads /\ w = op.writes /\ iff2' = iff2 /\ mem' = mem
      /\ op.reads \in 0..2 /\ op.writes \in 0..2 /\ op.wio \in 0..1 /\ op.rio \in 0..1
      /\ op.eff = "repeat" => op.reads = 1
      /\ op.eff \in {"ret", "retn"} => op.reads = 2
  BY OpsAssumption, EffectAssumption DEF Retire, Template, HandsOver
<1>2. Untouched
  BY DEF Gathered
<1>3. /\ Machine.pc' = pc' /\ Machine.sp' = sp' /\ Machine.iff1' = iff1'
      /\ Machine.iff2' = iff2' /\ Machine.int_mode' = int_mode' /\ Machine.mem' = mem'
  BY DEF Machine
<1>4. sp' \in ISA!Stack(start, op)
  BY <1>2, SameFunctions DEF Retire, NextSp, ISA!Stack, Untouched
<1>5. iff1' = ISA!Iff1(start, op) /\ iff2' = start.iff2
  BY <1>1, <1>2 DEF Retire, ISA!Iff1, Untouched
<1>6. int_mode' \in ISA!IntMode(start, op)
  BY <1>2 DEF Retire, ISA!IntMode, Untouched
<1>7. PICK d \in ISA!Dropped(op) : pc1 = Plus(start.pc, op.size + d)
  BY <1>1 DEF Gathered, Fetched
<1>8. PICK from \in ISA!Source(start, op) :
        /\ ReadFrom(op, from, r, buf)
        /\ w # 0 => /\ Prepared(op, pc1, buf, write_buffer)
                    /\ \E to \in ISA!Target(start, op, from) :
                         mem = Stored(op, to, write_buffer, w)
  BY <1>1 DEF Gathered
<1> DEFINE in == InputOf(op, buf)
<1>9. in \in ISA!Input(start, op, from)
  <2>1. CASE op.rio = 1
    BY <1>1, <2>1, SameFunctions DEF InputOf, ISA!Input, Buffer
  <2>2. CASE op.rio = 0
    <3>1. \A i \in 0..(op.reads - 1) : buf[i] = ISA!Load(start.mem, Plus(from, i))
      BY <1>1, <1>8, <2>2 DEF ReadFrom
    <3>2. in = [i \in 0..(op.reads - 1) |-> ISA!Load(start.mem, ISA!Plus(from, i))]
      BY <3>1, SameFunctions DEF InputOf
    <3> QED
      BY <2>2, <3>2 DEF ISA!Input
  <2> QED
    BY <1>1, <2>1, <2>2
<1>10. pc' \in ISA!Continue(op, pc1, in)
  <2>1. pc' \in NextPc(op, pc1, buf)
    BY DEF Retire
  <2>2. op.eff \in {"ret", "retn"} => in[0] = buf[0] /\ in[1] = buf[1]
    BY <1>1 DEF InputOf
  <2> HIDE DEF in
  <2> QED
    BY <2>1, <2>2, SameFunctions DEF NextPc, ISA!Continue, Pair
<1>11. \E to \in ISA!Target(start, op, from), out \in ISA!Output(op, pc1, in) :
         mem = ISA!Written(start, op, to, out)
  <2>1. CASE op.writes = 0
    <3>1. mem = start.mem /\ 0 \in ISA!Target(start, op, from)
      BY <1>1, <2>1 DEF Gathered, ISA!Target
    <3>2. [i \in 0..(op.writes - 1) |-> 0] \in [0..(op.writes - 1) -> ISA!Byte]
      BY <2>1
    <3>3. \E out : out \in ISA!Output(op, pc1, in)
      BY <3>2 DEF ISA!Output
    <3> QED
      BY <2>1, <3>1, <3>3 DEF ISA!Written
  <2>2. CASE op.writes # 0
    <3>1. PICK to \in ISA!Target(start, op, from) : mem = Stored(op, to, write_buffer, w)
      BY <1>1, <1>8, <2>2
    <3>2. PICK out \in ISA!Output(op, pc1, in) :
            \A i \in 0..(op.writes - 1) : out[i] = write_buffer[i]
      BY <1>1, <1>8, <2>2 DEF Prepared
    <3>3. out[0] = write_buffer[0] /\ (op.writes = 2 => out[1] = write_buffer[1])
      BY <1>1, <2>2, <3>2
    <3>4. mem = ISA!Written(start, op, to, out)
      BY <1>1, <2>2, <3>1, <3>3, SameFunctions DEF Stored, ISA!Written
    <3> QED
      BY <3>4
  <2> QED
    BY <2>1, <2>2
<1>12. pc1 = ISA!Plus(start.pc, op.size + d)
  BY <1>7, SameFunctions
<1>13. ISA!Moves(start, op, Machine')
  BY <1>1, <1>3, <1>9, <1>10, <1>11, <1>12 DEF ISA!Moves
<1> QED
  BY <1>3, <1>4, <1>5, <1>6, <1>13 DEF ISA!Executed

\* Whatever the decoder picks implements the instruction set.
LEMMA DecodeImplements ==
  ASSUME TypeOK, LoopTypeOK, stage \in {"M1", "M2", "M3"},
         NEW op \in Ops, NEW n, NEW r, NEW w, NEW pc1 \in Word, NEW buf \in Buffer,
         InOrder(op, n, r, w), Gathered(op, n, r, w, pc1, buf), HandsOver(n, r, w, buf),
         Decode(op, n, r, w, pc1, buf)
  PROVE  Implemented
<1>1. Seen = start /\ start' = start
  BY DEF Seen, HandsOver
<1>2. CASE NeedOpcode(op, n, pc1)
  <2>1. n \in 1..4 /\ w = 0
    BY <1>2, OpsAssumption DEF NeedOpcode, InOrder, Template
  <2> QED
    BY <1>1, <1>2, <2>1, FetchGoesOn DEF Implemented, Seen
<1>3. CASE NeedRead(op, n, r, pc1)
  BY <1>1, <1>3, ReadGoesOn DEF Implemented, Seen
<1>4. CASE NeedWrite(op, n, r, w, pc1, buf)
  BY <1>1, <1>4, WriteGoesOn DEF Implemented, Seen
<1>5. CASE Retire(op, n, r, w, pc1, buf)
  <2>1. ISA!Executed(start, op, Machine')
    BY <1>5, RetireExecutes
  <2>2. stage' \in {"RESET", "REFRESH"}
    BY <1>5, OpsAssumption DEF Retire, Template
  <2>3. CASE stage' = "RESET"
    <3>1. Seen' = Machine'
      BY <2>3 DEF Seen
    <3>2. ISA!Next
      BY <1>1, <2>1, <3>1 DEF ISA!Next, ISA!Execute
    <3>3. Progress'
      BY <2>3 DEF Progress, FetchProgress, ReadProgress, WriteProgress, RefreshProgress,
                  IntProgress, NmiProgress
    <3> QED
      BY <3>2, <3>3 DEF Implemented
  <2>4. CASE stage' = "REFRESH"
    <3>1. RefreshProgress'
      BY <1>1, <2>1 DEF RefreshProgress
    <3>2. Progress'
      BY <2>4, <3>1 DEF Progress, FetchProgress, ReadProgress, WriteProgress,
                        IntProgress, NmiProgress
    <3> QED
      BY <1>1, <2>4, <3>2 DEF Implemented, Seen
  <2> QED
    BY <2>2, <2>3, <2>4
<1> QED
  BY <1>2, <1>3, <1>4, <1>5 DEF Decode

\* A dropped prefix is one more byte that counts for nothing.
LEMMA PrefixDropped ==
  ASSUME LoopTypeOK, NEW op \in Ops, op.prefix = "ix", Fetched(op, 1, pc),
         NEW next \in Ops, next.prefix \in {"ix", "ed"}
  PROVE  Fetched(next, 1, Plus(pc, 1))
<1>1. ISA!Dropped(op) = Word /\ ISA!Dropped(next) = Word
  BY SameFunctions DEF ISA!Dropped, Word, ISA!WORD
<1>2. PICK d \in Word : pc = Plus(start.pc, 1 + d)
  BY <1>1 DEF Fetched
<1>3. /\ start.pc \in Int /\ WORD \in Nat /\ WORD > 0 /\ d \in 0..(WORD - 1)
      /\ 1 + d \in Int
  BY WordPositive DEF LoopTypeOK, Word
<1>4. Plus(pc, 1) = Plus(start.pc, (1 + d) + 1)
  <2> DEFINE m == 1 + d
  <2>1. m \in Int
    BY <1>3
  <2> HIDE DEF m
  <2>2. Plus(Plus(start.pc, m), 1) = Plus(start.pc, m + 1)
    <3>1. start.pc \in Int /\ 1 \in Int
      BY <1>3
    <3> QED
      BY <2>1, <3>1, PlusPlus, Zenon
  <2>3. pc = Plus(start.pc, m)
    BY <1>2 DEF m
  <2>4. Plus(pc, 1) = Plus(start.pc, m + 1)
    BY <2>2, <2>3, Zenon
  <2> QED
    BY <2>4, Zenon DEF m
<1>5. CASE d < WORD - 1
  <2>1. d + 1 \in Word /\ (1 + d) + 1 = 1 + (d + 1)
    BY <1>3, <1>5 DEF Word
  <2> QED
    BY <1>1, <1>4, <2>1 DEF Fetched
<1>6. CASE d = WORD - 1
  <2>1. 0 \in Word /\ (1 + d) + 1 = WORD + 1
    BY <1>3, <1>6 DEF Word
  <2>2. Plus(start.pc, WORD + 1) = Plus(start.pc, 1 + 0)
    BY <1>3, PlusWord
  <2>3. Plus(pc, 1) = Plus(start.pc, 1 + 0)
    BY <1>4, <2>1, <2>2
  <2> QED
    BY <1>1, <2>1, <2>3 DEF Fetched
<1> QED
  BY <1>3, <1>5, <1>6

\* The end of a fetch.
LEMMA FetchImplemented ==
  ASSUME LoopInv, CpuTurn, M1Decode \/ M1DropPrefix
  PROVE  Implemented
<1>1. /\ TypeOK /\ LoopTypeOK /\ FetchProgress /\ stage = "M1"
      /\ mem' = mem /\ turn' = "devices"
  BY DEF LoopInv, IInv, Progress, CpuTurn, M1Decode, M1DropPrefix, OpcodeLatched
<1>2. /\ read_index = 0 /\ write_index = 0 /\ m2_tick_count = 0 /\ m3_tick_count = 0
      /\ opcode_index > 0 => ins \in Ops /\ opcode_index < ins.size
      /\ opcode_index \in 0..4
  BY <1>1 DEF LoopInv, IInv, CycleOrder, TicksInRange, TypeOK
<1>3. start' = start
  BY <1>1 DEF CpuTurn
<1>4. pc \in Word /\ pc \in Int /\ start.pc \in Int /\ Plus(pc, 1) \in Word
  <2>1. pc \in Word /\ pc \in Int /\ start.pc \in Int
    BY <1>1, WordPositive DEF TypeOK, LoopTypeOK, Word
  <2> QED
    BY <2>1, PlusInWord
<1>5. Untouched /\ mem = start.mem
  BY <1>1 DEF FetchProgress
<1>6. CASE M1Decode
  <2>1. PICK op \in IF opcode_index = 0 THEN Ops ELSE {ins} :
          Decode(op, opcode_index + 1, read_index, write_index, Plus(pc, 1), read_buffer)
    BY <1>6 DEF M1Decode
  <2>2. op \in Ops /\ op.size \in 1..4 /\ op.reads \in 0..2 /\ op.writes \in 0..2
    BY <1>2, <2>1, OpsAssumption DEF Template
  <2>3. InOrder(op, opcode_index + 1, 0, 0)
    <3>1. CASE opcode_index = 0
      BY <1>2, <2>1, <2>2, <3>1 DEF InOrder
    <3>2. CASE opcode_index # 0
      BY <1>2, <2>1, <2>2, <3>2 DEF InOrder
    <3> QED
      BY <3>1, <3>2
  <2>4. Fetched(op, opcode_index + 1, Plus(pc, 1))
    <3>1. CASE opcode_index = 0
      <4>1. pc = start.pc /\ 0 \in ISA!Dropped(op)
        BY <1>1, <3>1, WordPositive, SameFunctions DEF FetchProgress, ISA!Dropped
      <4>2. Plus(pc, 1) = Plus(start.pc, (opcode_index + 1) + 0)
        BY <3>1, <4>1
      <4> QED
        BY <4>1, <4>2 DEF Fetched
    <3>2. CASE opcode_index # 0
      <4>1. op = ins
        BY <2>1, <3>2
      <4>2. PICK d \in ISA!Dropped(op) : pc = Plus(start.pc, opcode_index + d)
        BY <1>1, <3>2, <4>1 DEF FetchProgress, Fetched
      <4>3. d \in Int
        BY WordPositive, SameFunctions DEF ISA!Dropped
      <4>4. Plus(pc, 1) = Plus(start.pc, (opcode_index + d) + 1)
        <5> DEFINE m == opcode_index + d
        <5>1. m \in Int
          BY <1>2, <4>3
        <5> HIDE DEF m
        <5>2. Plus(Plus(start.pc, m), 1) = Plus(start.pc, m + 1)
          <6>1. start.pc \in Int /\ 1 \in Int
            BY <1>4
          <6> QED
            BY <5>1, <6>1, PlusPlus, Zenon
        <5>3. pc = Plus(start.pc, m)
          BY <4>2 DEF m
        <5>4. Plus(pc, 1) = Plus(start.pc, m + 1)
          BY <5>2, <5>3, Zenon
        <5> QED
          BY <5>4, Zenon DEF m
      <4>5. (opcode_index + d) + 1 = (opcode_index + 1) + d
        BY <1>2, <4>3
      <4> QED
        BY <4>4, <4>5 DEF Fetched
    <3> QED
      BY <3>1, <3>2
  <2>5. Gathered(op, opcode_index + 1, 0, 0, Plus(pc, 1), read_buffer)
    <3>1. op.reads = 0 => 0 \in ISA!Source(start, op)
      BY DEF ISA!Source
    <3>2. ReadFrom(op, 0, 0, read_buffer)
      BY DEF ReadFrom
    <3> QED
      BY <1>5, <2>4, <3>1, <3>2 DEF Gathered
  <2>6. HandsOver(opcode_index + 1, 0, 0, read_buffer)
    BY <1>1, <1>2, <1>3, <1>6 DEF HandsOver, M1Decode, OpcodeLatched
  <2>7. read_buffer \in Buffer
    BY <1>1 DEF TypeOK
  <2> QED
    BY <1>1, <1>2, <1>4, <2>1, <2>2, <2>3, <2>5, <2>6, <2>7, DecodeImplements
<1>7. CASE M1DropPrefix
  <2>1. /\ opcode_index = 1 /\ ins.prefix = "ix" /\ opcode_index' = 1
        /\ ins' \in Ops /\ ins'.prefix \in {"ix", "ed"} /\ pc' = Plus(pc, 1)
        /\ UNCHANGED <<stage, sp, iff1, iff2, int_mode>>
    BY <1>7 DEF M1DropPrefix
  <2>2. ins \in Ops /\ Fetched(ins, 1, pc)
    BY <1>1, <1>2, <2>1 DEF FetchProgress
  <2>3. Fetched(ins', 1, Plus(pc, 1))
    BY <1>1, <2>1, <2>2, PrefixDropped
  <2>4. FetchProgress'
    BY <1>1, <1>3, <1>5, <2>1, <2>3 DEF FetchProgress, Untouched, Fetched
  <2>5. Progress'
    BY <1>1, <2>1, <2>4 DEF Progress, ReadProgress, WriteProgress, RefreshProgress,
                            IntProgress, NmiProgress
  <2> QED
    BY <1>1, <1>3, <2>1, <2>5, NothingSeen DEF Implemented
<1> QED
  BY <1>6, <1>7

\* The end of a read.
LEMMA ReadImplemented ==
  ASSUME LoopInv, CpuTurn, M2Done
  PROVE  Implemented
<1>1. /\ TypeOK /\ LoopTypeOK /\ ReadProgress /\ stage = "M2" /\ m2_tick_count = 7
      /\ mem' = mem /\ turn = "z80" /\ turn' = "devices"
  BY DEF LoopInv, IInv, Progress, CpuTurn, M2Done
<1>2. /\ ins \in Ops /\ opcode_index = ins.size /\ read_index < ins.reads
      /\ write_index = 0 /\ m3_tick_count = 0
  BY <1>1 DEF LoopInv, IInv, CycleOrder, TicksInRange
<1>3. /\ ins.size \in 1..4 /\ ins.reads \in 0..2 /\ ins.writes \in 0..2
      /\ read_index \in 0..1 /\ start' = start
  BY <1>1, <1>2, OpsAssumption DEF Template, TypeOK, CpuTurn
<1> DEFINE buf == [read_buffer EXCEPT ![read_index] = data]
<1>4. buf \in Buffer /\ pc \in Word
  BY <1>1, <1>3 DEF TypeOK, Buffer
<1>5. InOrder(ins, opcode_index, read_index + 1, 0)
  BY <1>2, <1>3 DEF InOrder
<1>6. PICK from \in ISA!Source(start, ins) :
        /\ read_address = Plus(from, read_index)
        /\ ReadFrom(ins, from, read_index, read_buffer)
  BY <1>1 DEF ReadProgress
<1>7. ReadFrom(ins, from, read_index + 1, buf)
  <2>1. SUFFICES ASSUME ins.rio = 0, NEW i \in 0..((read_index + 1) - 1)
                 PROVE  buf[i] = ISA!Load(start.mem, Plus(from, i))
    BY DEF ReadFrom
  <2>2. CASE i = read_index
    <3>1. data = mem[Cell(read_address)] /\ mem = start.mem
      BY <1>1, <2>1 DEF ReadProgress
    <3>2. buf[i] = data
      BY <1>1, <1>3, <2>2 DEF TypeOK, Buffer
    <3> QED
      BY <1>6, <2>2, <3>1, <3>2, SameFunctions DEF ISA!Load
  <2>3. CASE i # read_index
    <3>1. i \in 0..(read_index - 1)
      BY <1>3, <2>3
    <3>2. buf[i] = read_buffer[i]
      BY <1>1, <1>3, <2>3, <3>1 DEF TypeOK, Buffer
    <3> QED
      BY <1>6, <2>1, <3>1, <3>2 DEF ReadFrom
  <2> QED
    BY <2>2, <2>3
<1>8. Gathered(ins, opcode_index, read_index + 1, 0, pc, buf)
  <2>1. (read_index + 1) - 1 = read_index
    BY <1>3
  <2>2. Untouched /\ Fetched(ins, opcode_index, pc) /\ mem = start.mem
    BY <1>1, <1>2 DEF ReadProgress
  <2> HIDE DEF buf
  <2> QED
    BY <1>6, <1>7, <2>1, <2>2 DEF Gathered
<1>9. HandsOver(opcode_index, read_index + 1, 0, buf)
  BY <1>1, <1>2, <1>3 DEF HandsOver, M2Done
<1>10. Decode(ins, opcode_index, read_index + 1, 0, pc, buf)
  BY <1>2 DEF M2Done
<1> HIDE DEF buf
<1> QED
  BY <1>1, <1>2, <1>4, <1>5, <1>8, <1>9, <1>10, DecodeImplements

\* The end of a write.
LEMMA WriteImplemented ==
  ASSUME LoopInv, CpuTurn, M3Done
  PROVE  Implemented
<1>1. /\ TypeOK /\ LoopTypeOK /\ WriteProgress /\ stage = "M3" /\ m3_tick_count = 7
      /\ mem' = mem /\ turn = "z80" /\ turn' = "devices"
  BY DEF LoopInv, IInv, Progress, CpuTurn, M3Done
<1>2. /\ ins \in Ops /\ opcode_index = ins.size /\ read_index = ins.reads
      /\ write_index \in 1..ins.writes /\ m2_tick_count = 0
  BY <1>1 DEF LoopInv, IInv, CycleOrder, TicksInRange
<1>3. /\ ins.size \in 1..4 /\ ins.reads \in 0..2 /\ ins.writes \in 0..2 /\ start' = start
      /\ read_buffer \in Buffer /\ pc \in Word
  BY <1>1, <1>2, OpsAssumption DEF Template, TypeOK, CpuTurn
<1>4. InOrder(ins, opcode_index, read_index, write_index)
  BY <1>2, <1>3 DEF InOrder
<1>5. Current = write_index - 1 /\ InMemory = write_index /\ write_index # 0
  BY <1>1, <1>2, <1>3 DEF Current, InMemory
<1>6. Gathered(ins, opcode_index, read_index, write_index, pc, read_buffer)
  BY <1>1, <1>2, <1>5 DEF WriteProgress, Gathered
<1>7. HandsOver(opcode_index, read_index, write_index, read_buffer)
  BY <1>1, <1>2, <1>3 DEF HandsOver, M3Done, indices
<1>8. Decode(ins, opcode_index, read_index, write_index, pc, read_buffer)
  BY DEF M3Done
<1> QED
  BY <1>1, <1>2, <1>3, <1>4, <1>6, <1>7, <1>8, DecodeImplements

\* The end of a refresh.
LEMMA RefreshImplemented ==
  ASSUME LoopInv, CpuTurn, RefreshDone
  PROVE  Implemented
<1>1. /\ stage = "REFRESH" /\ stage' = "RESET" /\ UNCHANGED regs /\ mem' = mem
      /\ RefreshProgress
  BY DEF LoopInv, Progress, CpuTurn, RefreshDone
<1>2. Seen = start /\ Seen' = Machine' /\ Machine' = Machine
  BY <1>1 DEF Seen, Machine, regs
<1>3. PICK op \in Ops : ISA!Executed(start, op, Machine)
  BY <1>1 DEF RefreshProgress
<1>4. ISA!Next
  BY <1>2, <1>3 DEF ISA!Next, ISA!Execute
<1>5. Progress'
  BY <1>1 DEF Progress, FetchProgress, ReadProgress, WriteProgress, RefreshProgress,
              IntProgress, NmiProgress
<1> QED
  BY <1>4, <1>5 DEF Implemented
-----------------------------------------------------------------------------
(***************************************************************************)
(* Z80Memory implements Z80Isa.                                            *)
(***************************************************************************)

\* The loop starts where the instruction set does.
LEMMA LoopInitEstablishes == LoopInit => LoopInv /\ ISA!Init
<1> SUFFICES ASSUME LoopInit PROVE LoopInv /\ ISA!Init
  OBVIOUS
<1>1. Init /\ IInv /\ stage = "RESET" /\ turn = "z80" /\ start = Machine
  BY InitEstablishes DEF LoopInit, Init
<1>2. mem \in [Cells -> Byte]
  <2>1. \A c \in Cells : c % BYTE \in Byte
    BY ByteAssumption, MapAssumption, WordPositive DEF Cells, Byte
  <2>2. 0 \in Byte
    BY ByteAssumption DEF Byte
  <2> QED
    BY <2>1, <2>2 DEF LoopInit
<1>3. LoopTypeOK
  BY <1>1, <1>2 DEF LoopTypeOK, Machine, IInv, TypeOK
<1>4. Progress
  BY <1>1 DEF Progress, FetchProgress, ReadProgress, WriteProgress, RefreshProgress,
              IntProgress, NmiProgress
<1>5. ISA!Init
  <2>1. Seen = [pc |-> 0, sp |-> WORD - 1, iff1 |-> 1, iff2 |-> 1, int_mode |-> 0,
                mem |-> mem]
    BY <1>1 DEF Seen, Machine, Init
  <2> QED
    BY <1>2, <2>1, SameFunctions DEF ISA!Init
<1> QED
  BY <1>1, <1>3, <1>4, <1>5 DEF LoopInv

\* A turn of the core implements the instruction set.
LEMMA CpuImplemented ==
  ASSUME LoopInv, CpuTurn
  PROVE  Implemented
<1>1. CASE Boundary
  BY <1>1, BoundaryImplemented
<1>2. CASE M1Cycle
  BY <1>2, CountsImplemented, FetchImplemented DEF M1Cycle
<1>3. CASE M2Cycle
  BY <1>3, CountsImplemented, ReadImplemented DEF M2Cycle
<1>4. CASE M3Cycle
  BY <1>4, CountsImplemented, WriteImplemented DEF M3Cycle
<1>5. CASE RefreshCycle
  BY <1>5, CountsImplemented, RefreshImplemented DEF RefreshCycle
<1>6. CASE InterruptCycle
  BY <1>6, IntImplemented, NmiImplemented DEF InterruptCycle
<1> QED
  BY <1>1, <1>2, <1>3, <1>4, <1>5, <1>6 DEF CpuTurn, Tick

\* Every turn of the loop keeps the invariant, and is one step of the instruction
\* set or nothing the program sees.
LEMMA LoopStep == LoopInv /\ [LoopNext]_loopVars => LoopInv' /\ [ISA!Next]_Seen
<1> SUFFICES ASSUME LoopInv, [LoopNext]_loopVars PROVE LoopInv' /\ [ISA!Next]_Seen
  OBVIOUS
<1>1. IInv' /\ LoopTypeOK'
  BY LoopIsCore, LoopTyped DEF LoopInv
<1>2. Implemented
  <2>1. CASE LineMoves \/ UNCHANGED loopVars
    <3>1. UNCHANGED <<stage, ticks, pipe, regs, address, data, turn, mem, start>>
      BY <2>1 DEF LineMoves, MoveLine, loopVars, vars
    <3> QED
      BY <3>1, LinesImplemented
  <2> QED
    BY <2>1, CpuImplemented, DevicesImplemented DEF LoopNext
<1> QED
  BY <1>1, <1>2 DEF LoopInv, Implemented

\* LoopInv holds in every reachable state.
THEOREM LoopInvariance == LoopSpec => []LoopInv
BY LoopInitEstablishes, LoopStep, PTL DEF LoopSpec

\* However its cycles, wait states and device answers interleave, every instruction
\* and every interrupt is one step of the instruction set.
THEOREM IsaImplemented == LoopSpec => ImplementsIsa
<1>1. LoopInv /\ [LoopNext]_loopVars => [ISA!Next]_Seen
  BY LoopStep
<1> QED
  BY <1>1, LoopInitEstablishes, LoopInvariance, PTL DEF LoopSpec, ImplementsIsa, ISA!Spec
=============================================================================
