------------------------------- MODULE Z80Isa -------------------------------
(***************************************************************************)
(* What the program running on the emulated machine may rely on: one       *)
(* instruction, or one interrupt, at a time, each a single step on the     *)
(* registers and the memory. There are no stages, pins or half-clocks.     *)
(* Module Z80Memory implements this specification.                         *)
(*                                                                         *)
(* Addresses below BASE are ROM; the RAM_SIZE cells from BASE on are       *)
(* mirrored up to the end of the address space.                            *)
(***************************************************************************)
EXTENDS Z80Ops, FiniteSets

CONSTANTS BYTE, Ops, IntVector, NmiVector, BASE, RAM_SIZE

VARIABLE machine    \* the registers pc, sp, iff1, iff2, int_mode, and mem

Byte  == 0..(BYTE - 1)
WORD  == BYTE * BYTE
Word  == 0..(WORD - 1)
Cells == 0..(BASE + RAM_SIZE - 1)

Cell(a)          == IF a < BASE THEN a ELSE BASE + ((a - BASE) % RAM_SIZE)
Load(mem, a)     == mem[Cell(a)]
Store(mem, a, b) == IF a < BASE THEN mem ELSE [mem EXCEPT ![Cell(a)] = b]

Plus(w, n) == (w + n) % WORD
Lo(w)      == w % BYTE
Hi(w)      == w \div BYTE

Init ==
  \E mem \in [Cells -> Byte] :
    machine = [pc |-> 0, sp |-> WORD - 1, iff1 |-> 1, iff2 |-> 1, int_mode |-> 0,
               mem |-> mem]

(***************************************************************************)
(* One instruction, from the machine m to the machine n. It is op,         *)
(* possibly after dropped DD and FD prefixes; in holds the bytes it read,  *)
(* out the bytes it wrote from address to on.                              *)
(***************************************************************************)
Dropped(op) ==
  IF op.prefix \in {"ix", "ed"} /\ \E o \in Ops : o.prefix = "ix"
    THEN 0..(WORD - 1) ELSE {0}

Source(m, op) ==
  IF op.reads = 0 THEN {0}
  ELSE IF op.eff \in {"ret", "retn", "pop", "exsp"} THEN {m.sp}
  ELSE Word

Input(m, op, from) ==
  IF op.rio = 1 THEN [0..(op.reads - 1) -> Byte]
  ELSE {[i \in 0..(op.reads - 1) |-> Load(m.mem, Plus(from, i))]}

Target(m, op, from) ==
  IF op.writes = 0 \/ op.wio = 1 THEN {0}
  ELSE CASE op.eff \in {"call", "push"} -> {Plus(m.sp, WORD - 2)}
         [] op.eff = "exsp"             -> {m.sp}
         [] op.eff = "rmw"              -> {from}
         [] OTHER                       -> Word

Output(op, next, in) ==
  CASE op.eff = "call"   -> {[i \in 0..1 |-> IF i = 0 THEN Lo(next) ELSE Hi(next)]}
    [] op.eff = "repeat" -> {in}
    [] OTHER             -> [0..(op.writes - 1) -> Byte]

Written(m, op, to, out) ==
  IF op.wio = 1 \/ op.writes = 0 THEN m.mem
  ELSE IF op.writes = 1 THEN Store(m.mem, to, out[0])
  ELSE Store(Store(m.mem, to, out[0]), Plus(to, 1), out[1])

Continue(op, next, in) ==
  CASE op.eff \in {"jump", "call"} -> Word
    [] op.eff \in {"ret", "retn"}  -> {in[0] + BYTE * in[1]}
    [] op.eff = "repeat"           -> {next, Plus(next, WORD - 2)}
    [] OTHER                       -> {next}

Stack(m, op) ==
  CASE op.eff \in {"ret", "retn", "pop"} -> {Plus(m.sp, 2)}
    [] op.eff \in {"call", "push"}       -> {Plus(m.sp, WORD - 2)}
    [] op.eff = "ldsp"                   -> Word
    [] OTHER                             -> {m.sp}

Iff1(m, op) ==
  CASE op.eff = "ei"   -> 1
    [] op.eff = "di"   -> 0
    [] op.eff = "retn" -> m.iff2
    [] OTHER           -> m.iff1

IntMode(m, op) == IF op.eff = "im" THEN 0..2 ELSE {m.int_mode}

\* What op may leave in PC and in the memory.
Moves(m, op, n) ==
  \E d \in Dropped(op), from \in Source(m, op) :
    LET next == Plus(m.pc, op.size + d) IN
    \E in \in Input(m, op, from) :
      /\ n.pc \in Continue(op, next, in)
      /\ \E to \in Target(m, op, from), out \in Output(op, next, in) :
           n.mem = Written(m, op, to, out)

Executed(m, op, n) ==
  /\ n.sp \in Stack(m, op) /\ n.iff1 = Iff1(m, op) /\ n.iff2 = m.iff2
  /\ n.int_mode \in IntMode(m, op)
  /\ Moves(m, op, n)

Execute(op) == Executed(machine, op, machine')

(***************************************************************************)
(* One interrupt: PC is pushed, high byte first, and the vector loaded.    *)
(***************************************************************************)
PushPc(m) == Store(Store(m.mem, Plus(m.sp, WORD - 1), Hi(m.pc)),
                   Plus(m.sp, WORD - 2), Lo(m.pc))

TakeNmi ==
  machine' = [pc |-> NmiVector, sp |-> Plus(machine.sp, WORD - 2), iff1 |-> 0,
              iff2 |-> machine.iff1, int_mode |-> machine.int_mode,
              mem |-> PushPc(machine)]

TakeInt ==
  /\ machine.iff1 = 1 /\ machine.int_mode = 1
  /\ machine' = [pc |-> IntVector, sp |-> Plus(machine.sp, WORD - 2), iff1 |-> 0,
                 iff2 |-> 0, int_mode |-> 1, mem |-> PushPc(machine)]

\* An INT in mode 0 or 2 only disables further ones.
LoseInt ==
  /\ machine.iff1 = 1 /\ machine.int_mode # 1
  /\ machine' = [pc |-> machine.pc, sp |-> machine.sp, iff1 |-> 0, iff2 |-> 0,
                 int_mode |-> machine.int_mode, mem |-> machine.mem]

Next == (\E op \in Ops : Execute(op)) \/ TakeNmi \/ TakeInt \/ LoseInt

Spec == Init /\ [][Next]_machine
=============================================================================
