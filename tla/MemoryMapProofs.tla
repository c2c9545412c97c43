-------------------------- MODULE MemoryMapProofs --------------------------
(***************************************************************************)
(* MemoryMap implements MappedMemory, for every bank size, RAM size, set   *)
(* of addresses and table of chip enables.                                 *)
(*                                                                         *)
(* The three chips look at an access one after the other, and look again   *)
(* at every half-clock it lasts, so the registers are only known up to     *)
(* what the access writes to them. MapInv says how far the current pass    *)
(* has got; the refinement reads it off when the CPU releases the pins.    *)
(***************************************************************************)
EXTENDS MemoryMap, TLAPS

(***************************************************************************)
(* Arithmetic.                                                             *)
(***************************************************************************)

\* An address below 48K lies in one of the three slots.
LEMMA SlotOfAddress ==
  ASSUME NEW a \in 0..(3 * BANK - 1), BANK \in Nat \ {0}
  PROVE  a \div BANK \in 0..2 /\ a % BANK \in 0..(BANK - 1)
<1>1. a % BANK \in 0..(BANK - 1)  BY SMTT(20)
<1>2. a = BANK * (a \div BANK) + (a % BANK)  BY SMTT(20)
<1>3. a \div BANK \in Int  BY SMTT(20)
<1>4. ASSUME NEW q \in Int, NEW r \in 0..(BANK - 1), a = BANK * q + r
      PROVE  q \in 0..2
  <2>1. q < 0 => BANK * q <= -BANK  BY SMTT(20)
  <2>2. q > 2 => BANK * q >= 3 * BANK  BY SMTT(20)
  <2> QED  BY <1>4, <2>1, <2>2, SMTT(20)
<1> QED  BY <1>1, <1>2, <1>3, <1>4

\* A bank number and an offset name a byte of the image array.
LEMMA InImage ==
  ASSUME NEW s \in Byte, NEW r \in 0..(BANK - 1), BANK \in Nat \ {0}, BYTE \in Nat
  PROVE  BANK * s + r \in 0..(ROM_MAX_SIZE - 1)
BY SMTT(20) DEF Byte, ROM_MAX_SIZE

\* The remainder of a sum is the remainder it was built from.
LEMMA Remainder ==
  ASSUME NEW m \in Nat \ {0}, NEW q \in Int, NEW r \in 0..(m - 1)
  PROVE  (m * q + r) % m = r
BY SMTT(20)

\* RAM starts at a multiple of its size: the mirror may be taken from zero.
LEMMA Mirror ==
  ASSUME NEW a \in Nat, a >= RAM_BASE, BANK \in Nat, RAM_SIZE \in Nat \ {0},
         BANK % RAM_SIZE = 0
  PROVE  RamCell(a) = a % RAM_SIZE
<1> DEFINE k == BANK \div RAM_SIZE
           p == a \div RAM_SIZE
           r == a % RAM_SIZE
<1>1. k \in Int /\ p \in Int /\ r \in 0..(RAM_SIZE - 1)  BY SMTT(20)
<1>2. BANK = RAM_SIZE * k  BY SMTT(20)
<1>3. a = RAM_SIZE * p + r  BY SMTT(20)
<1> HIDE DEF k, p, r
<1>4. a - 3 * BANK = RAM_SIZE * (p - 3 * k) + r /\ p - 3 * k \in Int
  BY <1>1, <1>2, <1>3, SMTT(20)
<1>5. (a - 3 * BANK) % RAM_SIZE = r  BY <1>1, <1>4, Remainder
<1> QED  BY <1>5 DEF RamCell, RAM_BASE, r

\* The cell of RAM an address selects exists.
LEMMA CellExists ==
  ASSUME NEW a \in Nat, a >= RAM_BASE, BANK \in Nat, RAM_SIZE \in Nat \ {0}
  PROVE  RamCell(a) \in 0..(RAM_SIZE - 1)
BY SMTT(20) DEF RamCell, RAM_BASE

\* The place a read selects is inside the image, whatever is in the slots.
LEMMA IndexInImage ==
  ASSUME NEW a \in Word, a < RAM_BASE, MapTypeOK
  PROVE  Index(a) \in 0..(ROM_MAX_SIZE - 1)
<1> USE MapAssumption
<1>1. a \in 0..(3 * BANK - 1) /\ BANK \in Nat \ {0} /\ BYTE \in Nat
  BY DEF Word, RAM_BASE
<1>2. a \div BANK \in 0..2 /\ a % BANK \in 0..(BANK - 1)  BY <1>1, SlotOfAddress
<1>3. mapper_slots[a \div BANK] \in Byte  BY <1>2 DEF MapTypeOK
<1>4. BANK * mapper_slots[a \div BANK] + (a % BANK) \in 0..(ROM_MAX_SIZE - 1)
  BY <1>1, <1>2, <1>3, InImage
<1>5. 0 \in Byte  BY DEF Byte
<1>6. a < FIXED => a \in 0..(ROM_MAX_SIZE - 1)
  <2>1. a < FIXED => a \in 0..(BANK - 1)  BY <1>1
  <2>2. a < FIXED => BANK * 0 + a \in 0..(ROM_MAX_SIZE - 1)  BY <1>1, <1>5, <2>1, InImage
  <2> QED  BY <1>1, <2>2
<1> QED  BY <1>4, <1>6 DEF Index

\* Two contents of the RAM that agree on every cell are the same.
LEMMA SameCells ==
  ASSUME NEW S, NEW T, NEW f \in [S -> T], NEW g \in [S -> T], \A x \in S : f[x] = g[x]
  PROVE  f = g
OBVIOUS

\* An access to memory has a 16-bit address.
LEMMA AddressInWord ==
  ASSUME MapTypeOK, InMemory
  PROVE  access.address \in Word /\ access.address \in Nat
<1> USE MapAssumption
<1>1. access \in [kind : {"read", "write"}, address : Addresses]
  BY DEF MapTypeOK, InMemory, Accesses, Idle
<1>2. access.address \in Word  BY <1>1
<1> QED  BY <1>2 DEF Word
-----------------------------------------------------------------------------
(***************************************************************************)
(* Types. What the program writes stays on the bus for the whole access.   *)
(***************************************************************************)
MapRange == [io : Byte, slots : [0..2 -> Byte], extra : Byte,
             ram : [0..(RAM_SIZE - 1) -> Byte]]

Driven == access.kind \in {"write", "out"} => \E b \in Byte : data = Known(b)

TypeInv == MapTypeOK /\ Driven /\ shown \in MapRange

\* The program starts with typed registers and nothing driven.
LEMMA TypeInit == Init => TypeInv
<1> USE MapAssumption
<1> SUFFICES ASSUME Init PROVE TypeInv  OBVIOUS
<1>1. 0 \in Byte /\ 1 \in Byte /\ 2 \in Byte  BY DEF Byte
<1>2. MapTypeOK
  BY <1>1 DEF Init, MapTypeOK, BusValues
<1>3. shown \in MapRange  BY <1>2 DEF Init, Map, MapRange, MapTypeOK
<1>4. Driven  BY DEF Init, Driven, Idle
<1> QED  BY <1>2, <1>3, <1>4 DEF TypeInv

\* Every step keeps the registers, the bus and the history typed.
LEMMA TypeNext == TypeInv /\ [Next]_vars => TypeInv'
<1> USE MapAssumption
<1> SUFFICES ASSUME TypeInv, [Next]_vars PROVE TypeInv'  OBVIOUS
<1> USE DEF TypeInv
<1>1. CASE Begin
  <2>1. access' \in Accesses /\ turn' = "io" /\ UNCHANGED <<chips, shown>>  BY <1>1 DEF Begin
  <2>2. CASE access'.kind \in {"write", "out"}
    <3>1. PICK b \in Byte : data' = Known(b)  BY <1>1, <2>2 DEF Begin
    <3> QED  BY <2>1, <3>1 DEF MapTypeOK, Driven, chips, BusValues
  <2>3. CASE access'.kind \notin {"write", "out"}
    <3>1. data' = Floating  BY <1>1, <2>3 DEF Begin
    <3> QED  BY <2>1, <2>3, <3>1 DEF MapTypeOK, Driven, chips, BusValues
  <2> QED  BY <2>2, <2>3
<1>2. CASE Hold
  BY <1>2 DEF Hold, MapTypeOK, Driven, chips
<1>3. CASE End
  <2>1. MapTypeOK'  BY <1>3 DEF End, MapTypeOK, chips, BusValues
  <2>2. shown' \in MapRange  BY <1>3 DEF End, MapTypeOK, Map, MapRange
  <2>3. Driven'  BY <1>3 DEF End, Driven, Idle
  <2> QED  BY <2>1, <2>2, <2>3
<1>4. CASE io_tick
  <2>1. access.kind = "out" => data.at \in Byte  BY DEF Driven, Known
  <2>2. io_reg' \in Byte  BY <1>4, <2>1 DEF io_tick, MapTypeOK
  <2>3. io_stat' \subseteq Chips  BY <1>4, <2>2 DEF io_tick, Stat
  <2>4. data' \in BusValues  BY <1>4 DEF io_tick, MapTypeOK, BusValues
  <2>5. Driven'  BY <1>4 DEF io_tick, Driven
  <2> QED  BY <1>4, <2>2, <2>3, <2>4, <2>5 DEF io_tick, MapTypeOK
<1>5. CASE rom_tick
  <2>1. turn' \in {"ram", "aborted"} /\ UNCHANGED <<access, io_stat, io_reg, ram_image, shown, last>>
    BY <1>5 DEF rom_tick, AssertFails
  <2>2. CASE RomRead
    <3>1. access.address \in Word /\ access.address < RAM_BASE
      BY <2>2, AddressInWord DEF RomRead, InMemory
    <3>2. Index(access.address) \in 0..(ROM_MAX_SIZE - 1)  BY <3>1, IndexInImage
    <3>3. RomChip \in {"rom", "bios"}  BY DEF RomChip
    <3>4. data' \in BusValues  BY <2>2, <3>2, <3>3 DEF RomRead, BusValues
    <3> QED  BY <2>1, <2>2, <3>4 DEF RomRead, MapTypeOK, Driven
  <2>3. CASE MapperWrite
    <3>1. data.at \in Byte  BY <2>3 DEF MapperWrite, Driven, Known
    <3>2. mapper_ram' \in Byte /\ mapper_slots' \in [0..2 -> Byte] /\ data' = data
      BY <2>3, <3>1 DEF MapperWrite, MapTypeOK
    <3> QED  BY <2>1, <3>2 DEF MapTypeOK, Driven
  <2>4. CASE RomIgnores \/ AssertFails
    BY <2>1, <2>4 DEF RomIgnores, AssertFails, MapTypeOK, Driven
  <2> QED  BY <1>5, <2>2, <2>3, <2>4 DEF rom_tick
<1>6. CASE ram_tick
  <2>1. turn' = "cpu" /\ UNCHANGED <<access, io_stat, io_reg, mapper_slots, mapper_ram, shown, last>>
    BY <1>6 DEF ram_tick
  <2>2. CASE RamRead
    <3>1. access.address \in Nat /\ access.address >= RAM_BASE
      BY <2>2, AddressInWord DEF RamRead, RamAnswers, InMemory
    <3>2. ram_image[RamCell(access.address)] \in Byte  BY <3>1, CellExists DEF MapTypeOK
    <3>3. data' \in BusValues  BY <2>2, <3>2 DEF RamRead, BusValues
    <3> QED  BY <2>1, <2>2, <3>3 DEF RamRead, MapTypeOK, Driven
  <2>3. CASE RamWrite
    <3>1. data.at \in Byte  BY <2>3 DEF RamWrite, Driven, Known
    <3>2. ram_image' \in [0..(RAM_SIZE - 1) -> Byte] /\ data' = data
      BY <2>3, <3>1 DEF RamWrite, MapTypeOK
    <3> QED  BY <2>1, <3>2 DEF MapTypeOK, Driven
  <2>4. CASE RamIgnores
    BY <2>1, <2>4 DEF RamIgnores, MapTypeOK, Driven
  <2> QED  BY <1>6, <2>2, <2>3, <2>4 DEF ram_tick
<1>7. CASE UNCHANGED vars
  BY <1>7 DEF vars, chips, MapTypeOK, Driven
<1> QED  BY <1>1, <1>2, <1>3, <1>4, <1>5, <1>6, <1>7 DEF Next

\* No access, in any order, with any value in the mapper registers or in
\* port 3E, reads outside the images or the RAM.
THEOREM MapTypeCorrect == Spec => []MapTypeOK
<1>1. TypeInv => MapTypeOK  BY DEF TypeInv
<1> QED  BY <1>1, TypeInit, TypeNext, PTL DEF Spec
-----------------------------------------------------------------------------
(***************************************************************************)
(* How far the pass over the three chips has got. What io_tick decides     *)
(* holds from "rom" on, what rom_tick does from "ram" on, what ram_tick    *)
(* does once the CPU looks again. Before that, an earlier pass of the same *)
(* access may already have done it.                                        *)
(***************************************************************************)
ImageOn == "cartridge" \notin Disables[io_reg] \/ "bios" \notin Disables[io_reg]
Hits(a) == ImageOn /\ access.address = a
CellHit(c) == /\ "ram" \notin Disables[io_reg] /\ access.address >= RAM_BASE
              /\ c = RamCell(access.address)

Turns ==
  /\ access = Idle => turn = "cpu"
  /\ turn \in {"rom", "ram"} => InMemory
  /\ InMemory /\ turn \in {"rom", "ram", "cpu"} => io_stat = Disables[io_reg]

\* Only the registers an access writes may differ from what was shown.
Kept ==
  /\ access.kind # "out" => io_reg = shown.io
  /\ access.kind # "write" =>
       mapper_slots = shown.slots /\ mapper_ram = shown.extra /\ ram_image = shown.ram

Reading ==
  /\ access.kind = "read" /\ turn \in {"ram", "cpu"} /\ access.address < RAM_BASE /\ ImageOn =>
       data = Cell(RomChip, Index(access.address))
  /\ access.kind = "read" /\ turn = "cpu" /\ access.address >= RAM_BASE
       /\ "ram" \notin Disables[io_reg] =>
       data = Known(ram_image[RamCell(access.address)])
  /\ access.kind = "in" /\ turn = "cpu" => data = Known(io_reg)

WritingSlots == access.kind = "write" => \A s \in 0..2 :
  /\ mapper_slots[s] = shown.slots[s] \/ (Hits(MAPPER + 1 + s) /\ mapper_slots[s] = data.at)
  /\ turn \in {"ram", "cpu"} /\ Hits(MAPPER + 1 + s) => mapper_slots[s] = data.at

WritingExtra == access.kind = "write" =>
  /\ mapper_ram = shown.extra \/ (Hits(MAPPER) /\ mapper_ram = data.at)
  /\ turn \in {"ram", "cpu"} /\ Hits(MAPPER) => mapper_ram = data.at

WritingRam == access.kind = "write" => \A c \in 0..(RAM_SIZE - 1) :
  /\ ram_image[c] = shown.ram[c] \/ (CellHit(c) /\ ram_image[c] = data.at)
  /\ turn = "cpu" /\ CellHit(c) => ram_image[c] = data.at

WritingPort == access.kind = "out" /\ turn = "cpu" => io_reg = data.at

MapInv ==
  /\ TypeInv /\ Turns /\ Kept
  /\ Reading /\ WritingSlots /\ WritingExtra /\ WritingRam /\ WritingPort
\* At reset the map shown is the map there is.
LEMMA MapInit == Init => MapInv
<1> SUFFICES ASSUME Init PROVE MapInv  OBVIOUS
<1>1. TypeInv  BY TypeInit
<1> QED
  BY <1>1 DEF Init, Map, Idle, InMemory, MapInv, Turns, Kept, Reading, WritingSlots,
              WritingExtra, WritingRam, WritingPort

\* A new access starts from the map that was shown.
LEMMA BeginKeeps == MapInv /\ TypeInv' /\ Begin => MapInv'
<1> SUFFICES ASSUME MapInv, TypeInv', Begin PROVE MapInv'  OBVIOUS
<1>1. turn' = "io" /\ UNCHANGED <<chips, shown>> /\ access = Idle  BY DEF Begin
<1>2. access' # Idle
  BY DEF Begin, Accesses, Idle
<1>3. Kept'  BY <1>1 DEF MapInv, Kept, Idle, chips
<1>4. WritingSlots' /\ WritingExtra' /\ WritingRam'
  BY <1>1 DEF MapInv, Kept, Idle, chips, WritingSlots, WritingExtra, WritingRam
<1> QED  BY <1>1, <1>2, <1>3, <1>4 DEF MapInv, Turns, Reading, WritingPort

\* Looking again finds the registers as they are or as the access leaves them.
LEMMA HoldKeeps == MapInv /\ TypeInv' /\ Hold => MapInv'
<1> SUFFICES ASSUME MapInv, TypeInv', Hold PROVE MapInv'  OBVIOUS
<1>1. turn' = "io" /\ access # Idle /\ UNCHANGED <<access, data, chips, shown>>  BY DEF Hold
<1>2. WritingSlots'  BY <1>1 DEF MapInv, chips, WritingSlots, Hits, ImageOn
<1>3. WritingExtra'  BY <1>1 DEF MapInv, chips, WritingExtra, Hits, ImageOn
<1>4. WritingRam'  BY <1>1 DEF MapInv, chips, WritingRam, CellHit, RamCell
<1> QED  BY <1>1, <1>2, <1>3, <1>4 DEF MapInv, Turns, Kept, chips, Reading, WritingPort

\* Releasing the pins makes the registers the map that is shown.
LEMMA EndKeeps == MapInv /\ TypeInv' /\ End => MapInv'
<1> SUFFICES ASSUME MapInv, TypeInv', End PROVE MapInv'  OBVIOUS
<1>1. turn' = "cpu" /\ access' = Idle /\ shown' = Map /\ UNCHANGED chips  BY DEF End
<1>2. Kept'  BY <1>1 DEF Map, Kept, chips
<1> QED
  BY <1>1, <1>2 DEF MapInv, Turns, Idle, InMemory, Reading, WritingSlots, WritingExtra,
                    WritingRam, WritingPort

\* io_tick changes the port alone and computes the enables for this request.
LEMMA IoKeeps == MapInv /\ TypeInv' /\ io_tick => MapInv'
<1> SUFFICES ASSUME MapInv, TypeInv', io_tick PROVE MapInv'  OBVIOUS
<1>1. /\ turn = "io" /\ turn' = IF InMemory THEN "rom" ELSE "cpu"
      /\ UNCHANGED <<access, mapper_slots, mapper_ram, ram_image, shown>>
      /\ access.kind # "out" => io_reg' = io_reg
  BY DEF io_tick
<1>2. access # Idle  BY <1>1 DEF MapInv, Turns
<1>3. Turns'
  <2>1. InMemory => io_stat' = Disables[io_reg']  BY DEF io_tick, Stat
  <2> QED  BY <1>1, <1>2, <2>1 DEF Turns, InMemory
<1>4. Kept'  BY <1>1 DEF MapInv, Kept
<1>5. Reading'
  BY <1>1 DEF io_tick, Reading, InMemory
<1>6. access.kind = "write" => UNCHANGED <<data, io_reg>>  BY DEF io_tick
<1>7. WritingSlots'  BY <1>1, <1>6 DEF MapInv, WritingSlots, Hits, ImageOn, InMemory
<1>8. WritingExtra'  BY <1>1, <1>6 DEF MapInv, WritingExtra, Hits, ImageOn, InMemory
<1>9. WritingRam'  BY <1>1, <1>6 DEF MapInv, WritingRam, CellHit, RamCell, InMemory
<1>10. WritingPort'  BY DEF io_tick, WritingPort
<1> QED  BY <1>3, <1>4, <1>5, <1>7, <1>8, <1>9, <1>10 DEF MapInv

\* rom_tick reads the selected image, or writes at most the mapper register addressed.
LEMMA RomKeeps == MapInv /\ TypeInv' /\ rom_tick => MapInv'
<1> SUFFICES ASSUME MapInv, TypeInv', rom_tick PROVE MapInv'  OBVIOUS
<1>1. /\ turn = "rom" /\ turn' \in {"ram", "aborted"} /\ InMemory
      /\ UNCHANGED <<access, io_stat, io_reg, ram_image, shown>>
      /\ io_stat = Disables[io_reg]
  BY DEF rom_tick, AssertFails, MapInv, Turns
<1>2. RomAnswers <=> ImageOn  BY <1>1 DEF RomAnswers, Enabled, ImageOn
<1>3. Turns'  BY <1>1 DEF MapInv, Turns, InMemory
<1>4. WritingRam'  BY <1>1 DEF rom_tick, RomRead, MapperWrite, RomIgnores, AssertFails,
                               MapInv, WritingRam, CellHit, RamCell, InMemory
<1>5. WritingPort'  BY <1>1 DEF InMemory, WritingPort
<1>6. CASE RomRead
  <2>1. UNCHANGED <<mapper_slots, mapper_ram>> /\ access.kind = "read"  BY <1>6 DEF RomRead
  <2>2. Kept'  BY <1>1, <2>1 DEF MapInv, Kept
  <2>3. Reading'
    BY <1>1, <1>6, <2>1 DEF RomRead, Reading, RomChip, Enabled, Index
  <2> QED  BY <1>1, <1>3, <1>4, <1>5, <2>1, <2>2, <2>3 DEF MapInv, WritingSlots, WritingExtra
<1>7. CASE MapperWrite
  <2>1. access.kind = "write" /\ data' = data /\ RomAnswers  BY <1>7 DEF MapperWrite
  <2>2. access.address \in Word /\ BANK \in Nat  BY <1>1, AddressInWord, MapAssumption DEF MapInv, TypeInv
  <2>3. Kept' /\ Reading'  BY <1>1, <2>1 DEF MapInv, Kept, Reading
  <2>4. WritingSlots'
    <3> SUFFICES ASSUME NEW s \in 0..2
                 PROVE  /\ \/ mapper_slots'[s] = shown.slots[s]
                           \/ Hits(MAPPER + 1 + s) /\ mapper_slots'[s] = data.at
                        /\ Hits(MAPPER + 1 + s) => mapper_slots'[s] = data.at
      BY <1>1, <2>1 DEF WritingSlots, Hits, ImageOn
    <3>1. mapper_slots \in [0..2 -> Byte]  BY DEF MapInv, TypeInv, MapTypeOK
    <3>2. \/ mapper_slots[s] = shown.slots[s]
          \/ Hits(MAPPER + 1 + s) /\ mapper_slots[s] = data.at
      BY <2>1 DEF MapInv, WritingSlots
    <3>3. CASE access.address = MAPPER + 1 + s
      <4>1. access.address - MAPPER - 1 = s /\ access.address # MAPPER
        BY <2>2, <3>3 DEF MAPPER
      <4>2. mapper_slots'[s] = data.at  BY <1>7, <3>1, <4>1 DEF MapperWrite
      <4> QED  BY <1>2, <2>1, <3>3, <4>2 DEF Hits
    <3>4. CASE access.address # MAPPER + 1 + s
      <4>1. access.address - MAPPER - 1 # s  BY <2>2, <3>4 DEF MAPPER, Word
      <4>2. mapper_slots'[s] = mapper_slots[s]  BY <1>7, <3>1, <4>1 DEF MapperWrite
      <4> QED  BY <3>2, <3>4, <4>2 DEF Hits
    <3> QED  BY <3>3, <3>4
  <2>5. WritingExtra'
    <3>1. \/ mapper_ram = shown.extra
          \/ Hits(MAPPER) /\ mapper_ram = data.at
      BY <2>1 DEF MapInv, WritingExtra
    <3>2. mapper_ram' = IF access.address = MAPPER THEN data.at ELSE mapper_ram
      BY <1>7 DEF MapperWrite
    <3> QED  BY <1>1, <1>2, <2>1, <3>1, <3>2 DEF WritingExtra, Hits, ImageOn
  <2> QED  BY <1>3, <1>4, <1>5, <2>3, <2>4, <2>5 DEF MapInv
<1>8. CASE RomIgnores \/ AssertFails
  <2>1. UNCHANGED <<data, mapper_slots, mapper_ram>>
    BY <1>8 DEF RomIgnores, AssertFails
  <2>2. Kept'  BY <1>1, <2>1 DEF MapInv, Kept
  <2>3. access.address \in Word /\ BANK \in Nat
    BY <1>1, AddressInWord, MapAssumption DEF MapInv, TypeInv
  <2>4. CASE AssertFails
    <3>1. turn' = "aborted"  BY <2>4 DEF AssertFails
    <3>2. WritingSlots'  BY <1>1, <2>1, <3>1 DEF MapInv, WritingSlots, Hits, ImageOn
    <3>3. WritingExtra'  BY <1>1, <2>1, <3>1 DEF MapInv, WritingExtra, Hits, ImageOn
    <3> QED  BY <1>3, <1>4, <1>5, <2>2, <3>1, <3>2, <3>3 DEF MapInv, Reading
  <2>5. CASE RomIgnores
    <3>1. access.kind = "read" /\ access.address < RAM_BASE => ~ImageOn
      BY <1>2, <2>3, <2>5 DEF RomIgnores, RAM_BASE, Word
    <3>2. access.kind = "write" => ~Hits(MAPPER) /\ \A s \in 0..2 : ~Hits(MAPPER + 1 + s)
      BY <1>2, <2>3, <2>5 DEF RomIgnores, Hits, MAPPER, Word
    <3>3. Reading'  BY <1>1, <3>1 DEF Reading, ImageOn, InMemory
    <3>4. WritingSlots'  BY <1>1, <2>1, <3>2 DEF MapInv, WritingSlots, Hits, ImageOn
    <3>5. WritingExtra'  BY <1>1, <2>1, <3>2 DEF MapInv, WritingExtra, Hits, ImageOn
    <3> QED  BY <1>3, <1>4, <1>5, <2>2, <3>3, <3>4, <3>5 DEF MapInv
  <2> QED  BY <1>8, <2>4, <2>5
<1> QED  BY <1>6, <1>7, <1>8 DEF rom_tick

\* ram_tick reads or writes at most the cell addressed.
LEMMA RamKeeps == MapInv /\ TypeInv' /\ ram_tick => MapInv'
<1> SUFFICES ASSUME MapInv, TypeInv', ram_tick PROVE MapInv'  OBVIOUS
<1>1. /\ turn = "ram" /\ turn' = "cpu" /\ InMemory
      /\ UNCHANGED <<access, io_stat, io_reg, mapper_slots, mapper_ram, shown>>
      /\ io_stat = Disables[io_reg]
  BY DEF ram_tick, MapInv, Turns
<1>2. access.address \in Nat /\ BANK \in Nat /\ RAM_SIZE \in Nat \ {0}
  BY <1>1, AddressInWord, MapAssumption DEF MapInv, TypeInv
<1>3. Turns'  BY <1>1 DEF MapInv, Turns, InMemory, Idle
<1>4. access.kind = "write" => data' = data
  BY DEF ram_tick, RamRead, RamWrite, RamIgnores
<1>5. WritingSlots'  BY <1>1, <1>4 DEF MapInv, WritingSlots, Hits, ImageOn
<1>6. WritingExtra'  BY <1>1, <1>4 DEF MapInv, WritingExtra, Hits, ImageOn
<1>7. WritingPort'  BY <1>1 DEF InMemory, WritingPort
<1>8. access.kind = "read" /\ access.address < RAM_BASE /\ ImageOn =>
        data = Cell(RomChip, Index(access.address))
  BY <1>1 DEF MapInv, Reading
<1>9. CASE RamRead
  <2>1. /\ access.kind = "read" /\ ram_image' = ram_image /\ access.address >= RAM_BASE
        /\ data' = Known(ram_image[RamCell(access.address)])
    BY <1>9 DEF RamRead, RamAnswers
  <2>2. Kept'  BY <1>1, <2>1 DEF MapInv, Kept
  <2>3. Reading'  BY <1>1, <1>2, <2>1 DEF Reading, RamCell, RAM_BASE
  <2> QED  BY <1>1, <1>3, <1>5, <1>6, <1>7, <2>1, <2>2, <2>3 DEF MapInv, WritingRam
<1>10. CASE RamWrite
  <2>1. access.kind = "write" /\ RamAnswers
        /\ ram_image' = [ram_image EXCEPT ![RamCell(access.address)] = data.at]
    BY <1>10 DEF RamWrite
  <2>2. Kept' /\ Reading'  BY <1>1, <2>1 DEF MapInv, Kept, Reading
  <2>3. WritingRam'
    <3> SUFFICES ASSUME NEW c \in 0..(RAM_SIZE - 1)
                 PROVE  /\ \/ ram_image'[c] = shown.ram[c]
                           \/ CellHit(c) /\ ram_image'[c] = data.at
                        /\ CellHit(c) => ram_image'[c] = data.at
      BY <1>1, <1>4, <2>1 DEF WritingRam, CellHit, RamCell
    <3>1. ram_image \in [0..(RAM_SIZE - 1) -> Byte]  BY DEF MapInv, TypeInv, MapTypeOK
    <3>2. ram_image[c] = shown.ram[c] \/ (CellHit(c) /\ ram_image[c] = data.at)
      BY <2>1 DEF MapInv, WritingRam
    <3>3. CellHit(c) <=> c = RamCell(access.address)
      BY <1>1, <2>1 DEF CellHit, RamAnswers, Enabled
    <3>4. ram_image'[c] = IF c = RamCell(access.address) THEN data.at ELSE ram_image[c]
      BY <2>1, <3>1
    <3> QED  BY <3>2, <3>3, <3>4
  <2> QED  BY <1>3, <1>5, <1>6, <1>7, <2>2, <2>3 DEF MapInv
<1>11. CASE RamIgnores
  <2>1. ~RamAnswers /\ UNCHANGED <<data, ram_image>>  BY <1>11 DEF RamIgnores
  <2>2. Kept'  BY <1>1, <2>1 DEF MapInv, Kept
  <2>3. ~(access.address >= RAM_BASE /\ "ram" \notin Disables[io_reg])
    BY <1>1, <2>1 DEF RamAnswers, Enabled
  <2>4. Reading'
    BY <1>1, <1>8, <2>1, <2>3 DEF Reading, ImageOn, InMemory, RomChip, Enabled, Index
  <2>5. WritingRam'  BY <1>1, <2>1, <2>3 DEF MapInv, WritingRam, CellHit, RamCell
  <2> QED  BY <1>3, <1>5, <1>6, <1>7, <2>2, <2>4, <2>5 DEF MapInv
<1> QED  BY <1>9, <1>10, <1>11 DEF ram_tick

\* Every step keeps MapInv.
LEMMA MapNext == MapInv /\ [Next]_vars => MapInv'
<1> SUFFICES ASSUME MapInv, [Next]_vars PROVE MapInv'  OBVIOUS
<1>1. TypeInv'  BY TypeNext DEF MapInv
<1>2. CASE UNCHANGED vars
  BY <1>1, <1>2 DEF vars, chips, MapInv, Turns, Kept, Reading, WritingSlots, WritingExtra,
                    WritingRam, WritingPort, InMemory, ImageOn, Hits, CellHit, RamCell,
                    RomChip, Enabled, Index
<1> QED
  BY <1>1, <1>2, BeginKeeps, HoldKeeps, EndKeeps, IoKeeps, RomKeeps, RamKeeps DEF Next
-----------------------------------------------------------------------------
(***************************************************************************)
(* The refinement: an access reaches the map when the CPU releases the     *)
(* pins, and asks for it when it drives them; every other step stutters.   *)
(***************************************************************************)
\* The image the enables select is the one the map shows.
LEMMA ImageShown ==
  ASSUME io_stat = Disables[shown.io], io_reg = shown.io
  PROVE  /\ ImageOn <=> Mapped!Image # "none"
         /\ ImageOn => RomChip = Mapped!Image
BY DEF ImageOn, RomChip, Enabled, Mapped!Image, Mapped!Off

\* A read ends with the byte the map shows at its address on the bus.
LEMMA ReadShows ==
  MapInv /\ End /\ access.kind = "read" => Mapped!Read(access.address, data)
<1> SUFFICES ASSUME MapInv, End, access.kind = "read"
             PROVE  Mapped!Read(access.address, data)
  OBVIOUS
<1>1. /\ turn = "cpu" /\ shown' = Map /\ UNCHANGED chips /\ InMemory
      /\ last' = [kind |-> "read", address |-> access.address, value |-> data]
  BY DEF End, InMemory
<1>2. /\ io_stat = Disables[io_reg] /\ io_reg = shown.io /\ mapper_slots = shown.slots
      /\ mapper_ram = shown.extra /\ ram_image = shown.ram
  BY <1>1 DEF MapInv, Turns, Kept
<1>3. UNCHANGED <<shown.io, shown.slots, shown.extra, shown.ram>>
  BY <1>1, <1>2 DEF Map
<1>4. access.address \in Word /\ access.address \in Nat
  BY <1>1, AddressInWord DEF MapInv, TypeInv
<1>5. ASSUME access.address < Mapped!RAM_BASE, Mapped!Image # "none"
      PROVE  data = [from |-> Mapped!Image,
                     at |-> Mapped!Bank(access.address) * BANK + (access.address % BANK)]
  <2>1. access.address < RAM_BASE /\ ImageOn  BY <1>2, <1>5, ImageShown DEF RAM_BASE, Mapped!RAM_BASE
  <2>2. data = Cell(Mapped!Image, Index(access.address))
    BY <1>1, <1>2, <2>1, ImageShown DEF MapInv, Reading
  <2>3. Index(access.address) = Mapped!Bank(access.address) * BANK + (access.address % BANK)
    <3>1. BANK \in Nat \ {0} /\ FIXED \in 0..BANK  BY MapAssumption
    <3>2. CASE access.address < FIXED
      <4>1. access.address % BANK = access.address  BY <1>4, <3>1, <3>2, SMTT(20)
      <4> QED  BY <1>4, <3>1, <3>2, <4>1 DEF Index, Mapped!Bank
    <3>3. CASE ~(access.address < FIXED)
      <4>1. access.address \in 0..(3 * BANK - 1)  BY <1>4, <2>1, <3>1 DEF RAM_BASE
      <4>2. access.address \div BANK \in 0..2  BY <3>1, <4>1, SlotOfAddress
      <4>3. mapper_slots[access.address \div BANK] \in Nat
        BY <4>2, MapAssumption DEF MapInv, TypeInv, MapTypeOK, Byte
      <4>4. BANK * mapper_slots[access.address \div BANK]
            = mapper_slots[access.address \div BANK] * BANK
        BY <3>1, <4>3, SMTT(20)
      <4> QED  BY <1>2, <3>3, <4>4 DEF Index, Mapped!Bank
    <3> QED  BY <3>2, <3>3
  <2> QED  BY <2>2, <2>3 DEF Cell
<1>6. ASSUME access.address >= Mapped!RAM_BASE, "ram" \notin Mapped!Off
      PROVE  data = Mapped!Known(shown.ram[access.address % RAM_SIZE])
  <2>1. RamCell(access.address) = access.address % RAM_SIZE
    BY <1>4, <1>6, Mirror, MapAssumption DEF RAM_BASE, Mapped!RAM_BASE
  <2>2. data = Known(ram_image[RamCell(access.address)])
    BY <1>1, <1>2, <1>6 DEF MapInv, Reading, Mapped!RAM_BASE, Mapped!Off, RAM_BASE
  <2> QED  BY <1>2, <2>1, <2>2 DEF Known, Mapped!Known
<1> QED  BY <1>1, <1>3, <1>5, <1>6 DEF Mapped!Read, Mapped!Complete

\* A write ends with its byte in the mapper register and the cell under its address.
LEMMA WriteShows ==
  MapInv /\ End /\ access.kind = "write" => \E b \in Byte : Mapped!Write(access.address, b)
<1> SUFFICES ASSUME MapInv, End, access.kind = "write"
             PROVE  \E b \in Byte : Mapped!Write(access.address, b)
  OBVIOUS
<1>1. /\ turn = "cpu" /\ shown' = Map /\ UNCHANGED chips /\ InMemory
      /\ last' = [kind |-> "write", address |-> access.address, value |-> data]
  BY DEF End, InMemory
<1>2. io_stat = Disables[io_reg] /\ io_reg = shown.io
  BY <1>1 DEF MapInv, Turns, Kept
<1>3. PICK b \in Byte : data = Known(b)  BY DEF MapInv, TypeInv, Driven
<1>4. data.at = b  BY <1>3 DEF Known
<1>5. access.address \in Word /\ access.address \in Nat /\ BANK \in Nat
  BY <1>1, AddressInWord, MapAssumption DEF MapInv, TypeInv
<1>6. /\ mapper_slots \in [0..2 -> Byte] /\ ram_image \in [0..(RAM_SIZE - 1) -> Byte]
      /\ shown.slots \in [0..2 -> Byte] /\ shown.ram \in [0..(RAM_SIZE - 1) -> Byte]
  BY DEF MapInv, TypeInv, MapTypeOK, MapRange
<1>7. mapper_slots = [s \in 0..2 |-> IF access.address = Mapped!Top - 3 + s /\ Mapped!Image # "none"
                                     THEN b ELSE shown.slots[s]]
  <2>1. ASSUME NEW s \in 0..2
        PROVE  mapper_slots[s] = IF access.address = Mapped!Top - 3 + s /\ Mapped!Image # "none"
                                 THEN b ELSE shown.slots[s]
    <3>1. Hits(MAPPER + 1 + s) <=> access.address = Mapped!Top - 3 + s /\ Mapped!Image # "none"
      BY <1>2, <1>5, ImageShown DEF Hits, MAPPER, Mapped!Top
    <3>2. mapper_slots[s] = IF Hits(MAPPER + 1 + s) THEN b ELSE shown.slots[s]
      BY <1>1, <1>4 DEF MapInv, WritingSlots
    <3> QED  BY <3>1, <3>2
  <2> QED  BY <1>6, <2>1
<1>8. mapper_ram = IF access.address = Mapped!Top - 4 /\ Mapped!Image # "none"
                   THEN b ELSE shown.extra
  <2>1. Hits(MAPPER) <=> access.address = Mapped!Top - 4 /\ Mapped!Image # "none"
    BY <1>2, <1>5, ImageShown DEF Hits, MAPPER, Mapped!Top
  <2> QED  BY <1>1, <1>4, <2>1 DEF MapInv, WritingExtra
<1>9. ram_image = IF access.address >= Mapped!RAM_BASE /\ "ram" \notin Mapped!Off
                  THEN [shown.ram EXCEPT ![access.address % RAM_SIZE] = b] ELSE shown.ram
  <2>1. ASSUME NEW c \in 0..(RAM_SIZE - 1)
        PROVE  ram_image[c] = IF CellHit(c) THEN b ELSE shown.ram[c]
    BY <1>1, <1>4 DEF MapInv, WritingRam
  <2>2. CASE access.address >= Mapped!RAM_BASE /\ "ram" \notin Mapped!Off
    <3>1. RamCell(access.address) = access.address % RAM_SIZE
      BY <1>5, <2>2, Mirror, MapAssumption DEF RAM_BASE, Mapped!RAM_BASE
    <3>2. \A c \in 0..(RAM_SIZE - 1) : CellHit(c) <=> c = access.address % RAM_SIZE
      BY <1>2, <2>2, <3>1 DEF CellHit, RAM_BASE, Mapped!RAM_BASE, Mapped!Off
    <3> QED  BY <1>6, <2>1, <2>2, <3>2
  <2>3. CASE ~(access.address >= Mapped!RAM_BASE /\ "ram" \notin Mapped!Off)
    <3>1. \A c \in 0..(RAM_SIZE - 1) : ~CellHit(c)
      BY <1>2, <2>3 DEF CellHit, RAM_BASE, Mapped!RAM_BASE, Mapped!Off
    <3>2. \A c \in 0..(RAM_SIZE - 1) : ram_image[c] = shown.ram[c]  BY <2>1, <3>1
    <3>3. ram_image = shown.ram
      <4> DEFINE cells == 0..(RAM_SIZE - 1)
      <4>1. ram_image \in [cells -> Byte] /\ shown.ram \in [cells -> Byte]  BY <1>6
      <4>2. \A c \in cells : ram_image[c] = shown.ram[c]  BY <3>2
      <4> HIDE DEF cells
      <4> QED  BY <4>1, <4>2, SameCells
    <3> QED  BY <2>3, <3>3
  <2> QED  BY <2>2, <2>3
<1>10. Mapped!Write(access.address, b)
  BY <1>1, <1>2, <1>3, <1>7, <1>8, <1>9 DEF Map, Mapped!Write, Mapped!Complete, Known, Mapped!Known
<1> QED  BY <1>10

\* An access to port 3E ends with the byte read, or with the byte written in it.
LEMMA PortShows ==
  MapInv /\ End /\ access.kind \in {"in", "out"} => Mapped!In \/ \E b \in Byte : Mapped!Out(b)
<1> SUFFICES ASSUME MapInv, End, access.kind \in {"in", "out"}
             PROVE  Mapped!In \/ \E b \in Byte : Mapped!Out(b)
  OBVIOUS
<1>1. turn = "cpu" /\ shown' = Map  BY DEF End
<1>2. access.address = 0
  BY DEF MapInv, TypeInv, MapTypeOK, Accesses, Idle
<1>3. last' = [kind |-> access.kind, address |-> 0, value |-> data]  BY <1>2 DEF End
<1>4. mapper_slots = shown.slots /\ mapper_ram = shown.extra /\ ram_image = shown.ram
  BY DEF MapInv, Kept
<1>5. CASE access.kind = "in"
  <2>1. data = Known(io_reg) /\ io_reg = shown.io  BY <1>1, <1>5 DEF MapInv, Reading, Kept
  <2>2. Mapped!In
    BY <1>1, <1>3, <1>4, <1>5, <2>1 DEF Map, Mapped!In, Mapped!Complete, Known, Mapped!Known
  <2> QED  BY <2>2
<1>6. CASE access.kind = "out"
  <2>1. PICK b \in Byte : data = Known(b)  BY <1>6 DEF MapInv, TypeInv, Driven
  <2>2. io_reg = b  BY <1>1, <1>6, <2>1 DEF MapInv, WritingPort, Known
  <2>3. Mapped!Out(b)
    BY <1>1, <1>3, <1>4, <1>6, <2>1, <2>2 DEF Map, Mapped!Out, Mapped!Complete, Known, Mapped!Known
  <2> QED  BY <2>3
<1> QED  BY <1>5, <1>6

\* Every step is a step of the memory map or leaves it alone.
LEMMA MapSteps == MapInv /\ [Next]_vars => [Mapped!Next]_(Mapped!vars)
<1> SUFFICES ASSUME MapInv, [Next]_vars PROVE [Mapped!Next]_(Mapped!vars)  OBVIOUS
<1>1. CASE Begin
  <2>1. shown' = shown /\ last' = [kind |-> "none"]  BY <1>1 DEF Begin, Idle
  <2> QED  BY <2>1 DEF Mapped!Next, Mapped!Request
<1>2. CASE End
  <2>1. access.kind \in {"read", "write", "in", "out"}
    BY <1>2 DEF End, MapInv, TypeInv, MapTypeOK, Accesses
  <2>2. InMemory => access.address \in 0..(Mapped!Top - 1)
    BY AddressInWord DEF MapInv, TypeInv, Word, Mapped!Top
  <2>3. CASE access.kind = "read"
    <3>1. last'.kind = "read" /\ last'.value = data  BY <1>2, <2>3 DEF End
    <3> QED  BY <1>2, <2>2, <2>3, <3>1, ReadShows DEF InMemory, Mapped!Next
  <2>4. CASE access.kind = "write"
    BY <1>2, <2>2, <2>4, WriteShows DEF InMemory, Mapped!Next, Byte, Mapped!Byte
  <2>5. CASE access.kind \in {"in", "out"}
    BY <1>2, <2>5, PortShows DEF Mapped!Next, Byte, Mapped!Byte
  <2> QED  BY <2>1, <2>3, <2>4, <2>5
<1>3. CASE Hold \/ io_tick \/ rom_tick \/ ram_tick \/ UNCHANGED vars
  <2>1. shown' = shown /\ last' = last
    BY <1>3 DEF Hold, io_tick, rom_tick, ram_tick, vars
  <2> QED  BY <2>1 DEF Mapped!vars
<1> QED  BY <1>1, <1>2, <1>3 DEF Next

\* However many half-clocks an access lasts, and in whatever order the chips
\* have looked at it, the program sees one step of the memory map.
THEOREM MapImplemented == Spec => ImplementsMap
<1>1. Init => Mapped!Init
  BY DEF Init, Map, Mapped!Init, Idle
<1> QED  BY <1>1, MapInit, MapNext, MapSteps, PTL DEF Spec, ImplementsMap, Mapped!Spec
=============================================================================
