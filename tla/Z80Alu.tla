------------------------------- MODULE Z80Alu -------------------------------
(***************************************************************************)
(* The arithmetic of the Z80: the flag macros of z80/z80_macros.h and the  *)
(* functions the opcode functions compute with (alu8_op, alu8_inc,         *)
(* alu8_dec, op_rotate_shift, bit_op).                                     *)
(*                                                                         *)
(* A byte is a number below 256. The flag register is the set of the flags *)
(* that are set, so |= is \cup and & with a mask is \cap. C converts every *)
(* intermediate result to the type of the variable it is stored in: Byte8  *)
(* and Word16 are those conversions, Signed8 is a cast to int8_t.          *)
(***************************************************************************)
EXTENDS Integers, FiniteSets

Flags == {"S", "Z", "5", "H", "3", "P", "N", "C"}   \* "P": also overflow

Byte8(n)   == n % 256
Word16(n)  == n % 65536
Signed8(b) == IF b % 256 < 128 THEN b % 256 ELSE (b % 256) - 256
Low4(b)    == b % 16

Weight     == <<1, 2, 4, 8, 16, 32, 64, 128>>
Bit(b, i)  == (b \div Weight[i + 1]) % 2 = 1
Bits(b)    == { i \in 0..7 : Bit(b, i) }
Value(bs)  == LET bit(i) == IF i \in bs THEN Weight[i + 1] ELSE 0
              IN bit(0) + bit(1) + bit(2) + bit(3) + bit(4) + bit(5) + bit(6) + bit(7)

Flag(name, test) == IF test THEN {name} ELSE {}

\* The flag register as a byte, for PUSH AF and POP AF.
FlagBit == [S |-> 7, Z |-> 6, H |-> 4, P |-> 2, N |-> 1, C |-> 0]
Position(f)   == IF f = "5" THEN 5 ELSE IF f = "3" THEN 3 ELSE FlagBit[f]
FlagByte(fs)  == Value({ Position(f) : f \in fs })
FlagsOf(b)    == { f \in Flags : Bit(b, Position(f)) }
-----------------------------------------------------------------------------
(***************************************************************************)
(* The flag macros. o is the operand before, n the result after.           *)
(***************************************************************************)
Sign(n)   == Flag("S", Bit(Byte8(n), 7))
Zero(n)   == Flag("Z", n = 0)
Undoc(n)  == Flag("3", Bit(n, 3)) \cup Flag("5", Bit(n, 5))
Parity(n) == Flag("P", (\E k \in 0..4 : Cardinality(Bits(n)) = 2 * k))

\* The cast in these two binds to the first token of the argument only: with
\* op1 + 1 for o the sum is not brought back to eight bits and may be 256.
Carry(o, n)  == Flag("C", o > n)
Borrow(o, n) == Flag("C", o < n)

HalfCarry(a, b)           == Flag("H", Low4(a) + Low4(b) > 15)
HalfCarryWithCarry(a, b)  == Flag("H", Low4(a) + Low4(b) + 1 > 15)
HalfBorrow(a, b)          == Flag("H", Byte8(Low4(a) - Low4(b)) > 15)
HalfBorrowWithCarry(a, b) == Flag("H", Byte8(Low4(a) - Low4(b) - 1) > 15)

Overflow(a, b, n) ==
  Flag("P", \/ Signed8(a) >= 0 /\ Signed8(b) >= 0 /\ Signed8(n) < 0
            \/ Signed8(a) < 0  /\ Signed8(b) < 0  /\ Signed8(n) >= 0)
Underflow(a, b, n) ==
  Flag("P", \/ Signed8(a) >= 0 /\ Signed8(b) < 0  /\ Signed8(n) < 0
            \/ Signed8(a) < 0  /\ Signed8(b) >= 0 /\ Signed8(n) >= 0)

\* The 16-bit macros: the carry compares low bytes, the parity comes out as bit 0.
Sign16(n)          == Flag("S", n >= 32768)
Carry16(o, n)      == Carry(o % 256, n % 256)
Borrow16(o, n)     == Borrow(o % 256, n % 256)
HalfCarry16(a, b)  == Flag("H", Low4(a \div 256) + Low4(b \div 256) > 15)
HalfBorrow16(a, b) == Flag("H", Low4((a \div 4096) - (b \div 4096)) > a \div 4096)
Parity16(n)        == Flag("C", Parity(n % 256) # Parity(n \div 256))
Overflow16(a, b, n) ==
  Flag("P", \/ a < 32768  /\ b < 32768  /\ n >= 32768
            \/ a >= 32768 /\ b >= 32768 /\ n < 32768)
-----------------------------------------------------------------------------
Result(n, fs) == [result |-> n, flags |-> fs]

AluOps == <<"ADD", "ADC", "SUB", "SBC", "AND", "XOR", "OR", "CP">>

Logic(n, fs) == Result(n, Parity(n) \cup Undoc(n) \cup Zero(n) \cup Sign(n) \cup fs)

Adc(a, b) ==
  LET n == Byte8(a + b + 1)
  IN Result(n, Overflow(a, b, n) \cup Carry(a + 1, n) \cup HalfCarryWithCarry(a, b)
               \cup Undoc(n) \cup Zero(n) \cup Sign(n))

Add(a, b) ==
  LET n == Byte8(a + b)
  IN Result(n, Overflow(a, b, n) \cup Carry(a, n) \cup HalfCarry(a, b)
               \cup Undoc(n) \cup Zero(n) \cup Sign(n))

Sub(a, b) ==
  LET n == Byte8(a - b)
  IN Result(n, {"N"} \cup Underflow(a, b, n) \cup Borrow(a, n) \cup HalfBorrow(a, b)
               \cup Undoc(n) \cup Zero(n) \cup Sign(n))

\* Fault: a - 1 is brought back to eight bits before it is compared.
SbcFault(a, b) ==
  LET n == Byte8(a - b - 1)
  IN Result(n, {"N"} \cup Underflow(a, b, n) \cup Borrow(Byte8(a - 1), n)
               \cup HalfBorrowWithCarry(a, b) \cup Undoc(n) \cup Zero(n) \cup Sign(n))

Sbc(a, b) ==
  LET n == Byte8(a - b - 1)
  IN Result(n, {"N"} \cup Underflow(a, b, n) \cup Borrow(a - 1, n)
               \cup HalfBorrowWithCarry(a, b) \cup Undoc(n) \cup Zero(n) \cup Sign(n))

Compare(a, b) ==
  Result(a, (Sub(a, b).flags \ {"3", "5"}) \cup Undoc(b))

alu8_op(op, a, b, fs) ==
  CASE op = "ADD" -> Add(a, b)
    [] op = "ADC" -> IF "C" \in fs THEN Adc(a, b) ELSE Add(a, b)
    [] op = "SUB" -> Sub(a, b)
    [] op = "SBC" -> IF "C" \in fs THEN Sbc(a, b) ELSE Sub(a, b)
    [] op = "AND" -> Logic(Value(Bits(a) \cap Bits(b)), {"H"})
    [] op = "XOR" -> Logic(Value((Bits(a) \cup Bits(b)) \ (Bits(a) \cap Bits(b))), {})
    [] op = "OR"  -> Logic(Value(Bits(a) \cup Bits(b)), {})
    [] op = "CP"  -> Compare(a, b)

alu8_inc(b, fs) ==
  LET n == Byte8(b + 1)
  IN Result(n, Sign(n) \cup Zero(n) \cup Undoc(n) \cup HalfCarry(b, 1)
               \cup Flag("P", b = 127) \cup (fs \cap {"C"}))

alu8_dec(b, fs) ==
  LET n == Byte8(b - 1)
  IN Result(n, Sign(n) \cup Zero(n) \cup Undoc(n) \cup HalfBorrow(b, 1)
               \cup Flag("P", b = 128) \cup {"N"} \cup (fs \cap {"C"}))
-----------------------------------------------------------------------------
(***************************************************************************)
(* Rotations and shifts: the bit that comes in, the bit that goes out. The *)
(* shifts leave the undocumented flags clear.                              *)
(***************************************************************************)
Rotations == <<"RLC", "RRC", "RL", "RR", "SLA", "SRA", "SLL", "SRL">>

op_rotate_shift(op, b, fs) ==
  LET left == op \in {"RLC", "RL", "SLA", "SLL"}
      out  == Bit(b, IF left THEN 7 ELSE 0)
      in   == CASE op \in {"RLC", "RRC"} -> out
                [] op \in {"RL", "RR"}   -> "C" \in fs
                [] op = "SRA"            -> Bit(b, 7)
                [] OTHER                 -> op = "SLL"
      bit  == IF ~in THEN 0 ELSE IF left THEN 1 ELSE 128
      n    == (IF left THEN Byte8(2 * b) ELSE b \div 2) + bit
  IN Result(n, Sign(n) \cup Zero(n) \cup Parity(n) \cup Flag("C", out)
               \cup (IF op \in {"RLC", "RRC", "RL", "RR"} THEN Undoc(n) ELSE {}))

\* BIT, SET and RES: bit_op, set_op and res_op.
bit_op(b, i, fs) == Result(b, Flag("Z", ~Bit(b, i)) \cup {"H"} \cup (fs \cap {"C"}))
set_op(b, i)     == Value(Bits(b) \cup {i})
res_op(b, i)     == Value(Bits(b) \ {i})
=============================================================================
