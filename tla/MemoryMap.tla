----------------------------- MODULE MemoryMap -----------------------------
(***************************************************************************)
(* The IO chip, the cartridge and BIOS behind one mapper, and the RAM, as  *)
(* the main loop calls them (io/io.c, rom/rom.c, ram/ram.c): io_tick,      *)
(* rom_tick and ram_tick after every half-clock a memory access is on the  *)
(* pins, io_tick alone for a port. Each looks at the pins and at the chip  *)
(* enables io_tick has computed for this request.                          *)
(*                                                                         *)
(* The bytes the program writes are known; a byte of an image is named by  *)
(* its place.                                                              *)
(***************************************************************************)
EXTENDS Integers

CONSTANTS
  BYTE,          \* 256
  BANK,          \* bytes in a bank, 0x4000
  FIXED,         \* bytes the mapper leaves alone, 0x400
  RAM_SIZE,      \* 0x2000
  RESET_VALUE,   \* IO_RESET_VALUE_NOBIOS
  Disables,      \* the chips a byte in io_reg disables
  Addresses,     \* addresses the program accesses
  NDEBUG         \* whether assert is compiled out

Chips         == {"cartridge", "bios", "ram"}
Byte          == 0..(BYTE - 1)
Word          == 0..(4 * BANK - 1)
RAM_BASE      == 3 * BANK
MAPPER        == 4 * BANK - 4
ROM_MAX_SIZE  == BYTE * BANK

ASSUME MapAssumption ==
  /\ BANK \in Nat \ {0} /\ BANK >= 4 /\ FIXED \in 0..BANK
  /\ RAM_SIZE \in Nat \ {0} /\ BANK % RAM_SIZE = 0
  /\ BYTE \in Nat /\ BYTE >= 3
  /\ RESET_VALUE \in Byte /\ Disables \in [Byte -> SUBSET Chips]
  /\ Addresses \subseteq Word /\ NDEBUG \in BOOLEAN

VARIABLES
  access,                  \* what the CPU has put on the pins
  turn,                    \* who looks at them next
  data,                    \* the data bus
  io_stat, io_reg,
  mapper_slots, mapper_ram, ram_image,
  shown, last              \* history: the map at the end of the last access

chips == <<io_stat, io_reg, mapper_slots, mapper_ram, ram_image>>
vars  == <<access, turn, data, chips, shown, last>>

Known(b)     == [from |-> "program", at |-> b]
Cell(img, i) == [from |-> img, at |-> i]
Floating     == [from |-> "nobody", at |-> 0]    \* what earlier cycles left
BusValues    == { Known(b) : b \in Byte } \cup {Floating}
                \cup { Cell(img, i) : img \in {"rom", "bios"}, i \in 0..(ROM_MAX_SIZE - 1) }

Idle     == [kind |-> "none"]
Accesses == [kind : {"read", "write"}, address : Addresses]
            \cup [kind : {"in", "out"}, address : {0}]
InMemory == access.kind \in {"read", "write"}

Map == [io |-> io_reg, slots |-> mapper_slots, extra |-> mapper_ram, ram |-> ram_image]

Init ==
  /\ access = Idle /\ turn = "cpu" /\ data = Floating
  /\ io_stat = Chips /\ io_reg = RESET_VALUE
  /\ mapper_slots = [s \in 0..2 |-> s] /\ mapper_ram = 0
  /\ ram_image = [c \in 0..(RAM_SIZE - 1) |-> 0]
  /\ shown = Map /\ last = Idle
-----------------------------------------------------------------------------
(***************************************************************************)
(* The CPU: a strobe stays low for one half-clock or more.                 *)
(***************************************************************************)
Begin ==
  /\ turn = "cpu" /\ access = Idle
  /\ access' \in Accesses
  /\ data' \in (IF access'.kind \in {"write", "out"}
                THEN { Known(b) : b \in Byte } ELSE {Floating})
  /\ turn' = "io" /\ last' = Idle
  /\ UNCHANGED <<chips, shown>>

Hold ==
  /\ turn = "cpu" /\ access # Idle
  /\ turn' = "io"
  /\ UNCHANGED <<access, data, chips, shown, last>>

End ==
  /\ turn = "cpu" /\ access # Idle
  /\ access' = Idle /\ data' = Floating
  /\ shown' = Map
  /\ last' = [kind |-> access.kind, address |-> access.address, value |-> data]
  /\ UNCHANGED <<turn, chips>>
-----------------------------------------------------------------------------
StatFault(reg) == IF access.kind = "out" THEN Disables[reg] ELSE io_stat  \* only then
Stat(reg)      == IF InMemory THEN Disables[reg] ELSE {}

\* io_stat is recomputed for each request: memory chips for MREQ, none for IOREQ.
io_tick ==
  /\ turn = "io"
  /\ io_reg' = IF access.kind = "out" THEN data.at ELSE io_reg
  /\ data' = IF access.kind = "in" THEN Known(io_reg) ELSE data
  /\ io_stat' = Stat(io_reg')
  /\ turn' = IF InMemory THEN "rom" ELSE "cpu"
  /\ UNCHANGED <<access, mapper_slots, mapper_ram, ram_image, shown, last>>

Enabled(chip) == chip \notin io_stat
RomChip == IF Enabled("cartridge") THEN "rom" ELSE "bios"
RomAnswers == Enabled("cartridge") \/ Enabled("bios")

IndexFault(a) == IF a < FIXED THEN a ELSE BANK * mapper_slots[a \div BANK] + a  \* not masked
Index(a) == IF a < FIXED THEN a ELSE BANK * mapper_slots[a \div BANK] + (a % BANK)

RomRead ==
  /\ RomAnswers /\ access.kind = "read" /\ access.address < RAM_BASE
  /\ data' = Cell(RomChip, Index(access.address))
  /\ UNCHANGED <<mapper_slots, mapper_ram>>

MapperWrite ==
  /\ RomAnswers /\ access.kind = "write" /\ access.address >= MAPPER
  /\ IF access.address = MAPPER
       THEN mapper_ram' = data.at /\ UNCHANGED mapper_slots
       ELSE /\ mapper_slots' = [mapper_slots EXCEPT ![access.address - MAPPER - 1] = data.at]
            /\ UNCHANGED mapper_ram
  /\ UNCHANGED data

RomIgnores ==
  /\ \/ ~RomAnswers
     \/ access.kind = "read" /\ access.address >= RAM_BASE
     \/ access.kind = "write" /\ access.address < MAPPER
  /\ UNCHANGED <<data, mapper_slots, mapper_ram>>

Collision == Enabled("cartridge") /\ Enabled("bios")

AssertFails ==
  /\ turn' = "aborted"
  /\ UNCHANGED <<data, mapper_slots, mapper_ram>>

rom_tick ==
  /\ turn = "rom"
  /\ IF Collision /\ ~NDEBUG
       THEN AssertFails
       ELSE turn' = "ram" /\ (RomRead \/ MapperWrite \/ RomIgnores)
  /\ UNCHANGED <<access, io_stat, io_reg, ram_image, shown, last>>

RamCell(a) == (a - RAM_BASE) % RAM_SIZE
RamAnswers == Enabled("ram") /\ access.address >= RAM_BASE

RamRead ==
  /\ RamAnswers /\ access.kind = "read"
  /\ data' = Known(ram_image[RamCell(access.address)])
  /\ UNCHANGED ram_image

RamWrite ==
  /\ RamAnswers /\ access.kind = "write"
  /\ ram_image' = [ram_image EXCEPT ![RamCell(access.address)] = data.at]
  /\ UNCHANGED data

RamIgnores == ~RamAnswers /\ UNCHANGED <<data, ram_image>>

ram_tick ==
  /\ turn = "ram"
  /\ RamRead \/ RamWrite \/ RamIgnores
  /\ turn' = "cpu"
  /\ UNCHANGED <<access, io_stat, io_reg, mapper_slots, mapper_ram, shown, last>>

Next == Begin \/ Hold \/ End \/ io_tick \/ rom_tick \/ ram_tick

Spec == Init /\ [][Next]_vars
-----------------------------------------------------------------------------
\* Whatever is in the slots, a read stays inside the 4M image arrays, and the
\* mirror keeps RAM accesses inside the 8K of ram_image.
MapTypeOK ==
  /\ access \in Accesses \cup {Idle} /\ turn \in {"cpu", "io", "rom", "ram", "aborted"}
  /\ data \in BusValues
  /\ io_stat \subseteq Chips /\ io_reg \in Byte
  /\ mapper_slots \in [0..2 -> Byte] /\ mapper_ram \in Byte
  /\ ram_image \in [0..(RAM_SIZE - 1) -> Byte]

Mapped == INSTANCE MappedMemory WITH
  io <- shown.io, slots <- shown.slots, extra <- shown.extra, ram <- shown.ram

\* Each access to memory or to port 3E is one step of the memory map, however
\* many half-clocks it is looked at: reads show the cell the registers select
\* at that moment, mapper writes also land in the RAM below, RAM is mirrored.
ImplementsMap == Mapped!Spec

=============================================================================
