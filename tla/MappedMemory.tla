---------------------------- MODULE MappedMemory ----------------------------
(***************************************************************************)
(* The memory map a program may rely on: what each address shows, for the  *)
(* values it has written to port 3E and to the mapper registers. An access *)
(* is one step. Module MemoryMap implements this.                          *)
(***************************************************************************)
EXTENDS Integers

CONSTANTS BYTE, BANK, FIXED, RAM_SIZE, RESET_VALUE, Disables

VARIABLES
  io,      \* the byte in port 3E
  slots,   \* the bank in each third of the first 48K
  extra,   \* the mapper register nobody uses yet
  ram,
  last     \* the access that completed, or none

vars == <<io, slots, extra, ram, last>>

Byte     == 0..(BYTE - 1)
RAM_BASE == 3 * BANK
Top      == 4 * BANK

Known(b) == [from |-> "program", at |-> b]

Off == Disables[io]

Image == IF "cartridge" \notin Off THEN "rom"
         ELSE IF "bios" \notin Off THEN "bios" ELSE "none"

\* The first FIXED bytes are always those of the first bank.
Bank(a) == IF a < FIXED THEN 0 ELSE slots[a \div BANK]

Init ==
  /\ io = RESET_VALUE /\ slots = [s \in 0..2 |-> s] /\ extra = 0
  /\ ram = [c \in 0..(RAM_SIZE - 1) |-> 0]
  /\ last = [kind |-> "none"]

Complete(kind, a, v) == last' = [kind |-> kind, address |-> a, value |-> v]

\* Where nobody answers, v is whatever is left on the bus.
Read(a, v) ==
  /\ a < RAM_BASE /\ Image # "none" =>
       v = [from |-> Image, at |-> Bank(a) * BANK + (a % BANK)]
  /\ a >= RAM_BASE /\ "ram" \notin Off => v = Known(ram[a % RAM_SIZE])
  /\ Complete("read", a, v)
  /\ UNCHANGED <<io, slots, extra, ram>>

\* The mapper registers lie under the RAM, and a write reaches both.
Write(a, b) ==
  /\ ram' = IF a >= RAM_BASE /\ "ram" \notin Off
              THEN [ram EXCEPT ![a % RAM_SIZE] = b] ELSE ram
  /\ slots' = [s \in 0..2 |-> IF a = Top - 3 + s /\ Image # "none" THEN b ELSE slots[s]]
  /\ extra' = IF a = Top - 4 /\ Image # "none" THEN b ELSE extra
  /\ Complete("write", a, Known(b))
  /\ UNCHANGED io

In  == Complete("in", 0, Known(io)) /\ UNCHANGED <<io, slots, extra, ram>>

Out(b) == io' = b /\ Complete("out", 0, Known(b)) /\ UNCHANGED <<slots, extra, ram>>

Request == last' = [kind |-> "none"] /\ UNCHANGED <<io, slots, extra, ram>>

Next ==
  \/ Request \/ In
  \/ \E b \in Byte : Out(b)
  \/ /\ last'.kind = "read"
     /\ \E a \in 0..(Top - 1) : Read(a, last'.value)
  \/ \E a \in 0..(Top - 1), b \in Byte : Write(a, b)

Spec == Init /\ [][Next]_vars
=============================================================================
