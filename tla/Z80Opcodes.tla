----------------------------- MODULE Z80Opcodes -----------------------------
(***************************************************************************)
(* The opcode functions (z80/z80_opcodes*.c): what each instruction does   *)
(* to the registers, the flags and the bytes it asks the bus to move.      *)
(*                                                                         *)
(* A function works on z, struct z80_s, and is a coroutine: the macros     *)
(* Z80_8BIT_READ and its relatives set the pipeline up for one more byte   *)
(* and return the stage that moves it; the decoder then calls the same     *)
(* function again, from its first line. Here a macro is an operator whose  *)
(* last argument is the rest of the function. z.stage holds what the       *)
(* function returns, "RESET" unless the code says otherwise. "ABORTED" is  *)
(* an assert(0) or a null pointer of a register table.                     *)
(***************************************************************************)
EXTENDS Z80Alu

Lo(w) == w % 256
Hi(w) == w \div 256
Plus(w, n) == Word16(w + n)

\* z.r holds every register as a byte; a pair is two names, high byte first.
Halves == [AF |-> <<"A", "F">>, BC |-> <<"B", "C">>, DE |-> <<"D", "E">>,
           HL |-> <<"H", "L">>, IX |-> <<"IXH", "IXL">>, IY |-> <<"IYH", "IYL">>,
           SP |-> <<"SPH", "SPL">>, PC |-> <<"PCH", "PCL">>,
           AFp |-> <<"Ap", "Fp">>, BCp |-> <<"Bp", "Cp">>,
           DEp |-> <<"Dp", "Ep">>, HLp |-> <<"Hp", "Lp">>]
Registers == (UNION { {Halves[rp][1], Halves[rp][2]} : rp \in DOMAIN Halves })
             \cup {"I", "R"}

Word(z, rp)     == 256 * z.r[Halves[rp][1]] + z.r[Halves[rp][2]]
Set(z, r, b)    == [z EXCEPT !.r[r] = Byte8(b)]
SetWord(z, rp, w) ==
  Set(Set(z, Halves[rp][1], Hi(Word16(w))), Halves[rp][2], Lo(Word16(w)))
Swap(z, rp, rq) == SetWord(SetWord(z, rp, Word(z, rq)), rq, Word(z, rp))

F(z)         == FlagsOf(z.r["F"])
SetF(z, fs)  == Set(z, "F", FlagByte(fs))
Give(z, r, res) == SetF(Set(z, r, res.result), res.flags)   \* result and flags

Return(z, stage) == [z EXCEPT !.stage = stage]
Abort(z)         == Return(z, "ABORTED")
-----------------------------------------------------------------------------
(***************************************************************************)
(* Operand fields of the opcode bytes, and the tables they index.          *)
(***************************************************************************)
Y(b) == (b \div 8) % 8
Z(b) == b % 8
P(b) == (b \div 16) % 4

z80_r(i)   == <<"B", "C", "D", "E", "H", "L", "", "A">>[i + 1]
z80_rp(i)  == <<"BC", "DE", "HL", "SP">>[i + 1]
z80_rp2(i) == <<"BC", "DE", "HL", "AF">>[i + 1]
z80_im(i)  == <<0, 1, 1, 2, 0, 1, 1, 2>>[i + 1]

\* Condition y holds when the flag z80_cc[y] is set exactly for odd y.
Condition(z, y) == (<<"Z", "C", "P", "S">>[y \div 2 + 1] \in F(z)) <=> (y % 2 = 1)

\* Z80_INDIRECT and the _ix and _iy variants of the tables.
IXY(z)      == IF z.opcode[0] = 221 THEN "IX" ELSE "IY"
z80_r_ixy(z, i) == IF i \in {4, 5} THEN Halves[IXY(z)][i - 3] ELSE z80_r(i)
Indexed(z)  == Plus(Word(z, IXY(z)), Signed8(z.opcode[2]))
nn(z, i)    == z.opcode[i] + 256 * z.opcode[i + 1]
-----------------------------------------------------------------------------
(***************************************************************************)
(* The macros that move bytes.                                             *)
(***************************************************************************)
\* Fault: the test of the byte that is already there is off by one.
Z80_8BIT_READFault(z, a, io, then) ==
  IF z.read_index <= 2
    THEN [z EXCEPT !.read_is_io = io, !.read_address = a, !.stage = "M2"]
    ELSE then

Z80_8BIT_READ(z, a, io, then) ==
  IF z.read_index = 0
    THEN [z EXCEPT !.read_is_io = io, !.read_address = a, !.stage = "M2"]
    ELSE then

Z80_16BIT_READ(z, a, io, then) ==
  IF z.read_index = 1
    THEN [z EXCEPT !.read_address = Plus(@, 1), !.stage = "M2"]
    ELSE Z80_8BIT_READ(z, a, io, then)

Z80_8BIT_WRITE(z, a, io, b, then) ==
  IF z.write_index = 0
    THEN [z EXCEPT !.write_is_io = io, !.write_address = a,
                   !.write_buffer[0] = Byte8(b), !.stage = "M3"]
    ELSE then

Z80_16BIT_WRITE(z, a, io, b0, b1, then) ==
  CASE z.write_index = 0 ->
         [z EXCEPT !.write_is_io = io, !.write_address = a,
                   !.write_buffer = [i \in 0..1 |-> IF i = 0 THEN b0 ELSE b1],
                   !.stage = "M3"]
    [] z.write_index = 1 -> [z EXCEPT !.write_address = Plus(@, 1), !.stage = "M3"]
    [] OTHER -> then

Pair(z) == z.read_buffer[0] + 256 * z.read_buffer[1]

\* Fault: SP is taken down first and the bytes are asked for afterwards.
PushFault(z, w, then) ==
  LET v == SetWord(z, "SP", Word(z, "SP") - 2)
  IN IF z.write_index < 2
       THEN Z80_16BIT_WRITE(v, Word(v, "SP"), 0, Lo(w), Hi(w), v) ELSE then

Push(z, w, then) == Z80_16BIT_WRITE(z, Plus(Word(z, "SP"), -2), 0, Lo(w), Hi(w), then)
Pop(z, then)     == Z80_16BIT_READ(z, Word(z, "SP"), 0, then)
Drop(z, n)       == SetWord(z, "SP", Word(z, "SP") + n)

\* Read a byte, write back what the operation makes of it, keep its flags.
Modify(z, a, res) ==
  Z80_8BIT_READ(z, a, 0, Z80_8BIT_WRITE(z, a, 0, res.result, SetF(z, res.flags)))
-----------------------------------------------------------------------------
(***************************************************************************)
(* The functions, by source file; f is the name of the function.           *)
(***************************************************************************)
\* z80_opcodes.c. DAA computes a result and throws it away.
General(f, z) ==
  CASE f = "CCF"  -> SetF(z, (IF "C" \in F(z) THEN F(z) \ {"C"} ELSE F(z) \cup {"C"}) \ {"N"})
    [] f = "CPL"  -> SetF(Set(z, "A", 255 - z.r["A"]), F(z) \cup {"H", "N"})
    [] f = "DAA"  -> z
    [] f = "DI"   -> [z EXCEPT !.iff1 = 0]
    [] f = "EI"   -> [z EXCEPT !.iff1 = 1]
    [] f = "EX"   -> Swap(z, "AF", "AFp")
    [] f = "EX_DE_HL"  -> Swap(z, "DE", "HL")
    [] f = "EX_SPp_HL" ->
         Pop(z, Z80_16BIT_WRITE(z, Word(z, "SP"), 0, z.r["L"], z.r["H"],
                                SetWord(z, "HL", Pair(z))))
    [] f = "EXX"  -> Swap(Swap(Swap(z, "BC", "BCp"), "DE", "DEp"), "HL", "HLp")
    [] f = "HALT" -> IF z.opcode_index = 2 THEN z ELSE Abort(z)
    [] f = "IM"   -> [z EXCEPT !.int_mode = z80_im(Y(z.opcode[1]))]
    [] f = "NOP"  -> IF z.opcode_index = 1 THEN z ELSE Abort(z)

\* RLA, RLCA, RRA and RRCA keep S, Z and P.
RotateA(z, op) ==
  LET res == op_rotate_shift(op, z.r["A"], F(z))
  IN SetF(Set(z, "A", res.result),
          (F(z) \cap {"S", "Z", "P"}) \cup (res.flags \ {"S", "Z", "P"}))

SCF(z) == SetF(z, (F(z) \ {"H", "N"}) \cup {"C"})

\* z80_opcodes_alu8.c
Arithmetic(z, y, b) == Give(z, "A", alu8_op(AluOps[y + 1], z.r["A"], b, F(z)))

Alu8(f, z) ==
  LET o == z.opcode IN
  CASE f = "alu8_HLp"     -> Z80_8BIT_READ(z, Word(z, "HL"), 0,
                                           Arithmetic(z, Y(o[0]), z.read_buffer[0]))
    [] f = "alu8_n"       -> Arithmetic(z, Y(o[0]), o[1])
    [] f = "alu8_r"       -> Arithmetic(z, Y(o[0]), z.r[z80_r(Z(o[0]))])
    [] f = "alu8_r_undoc" -> Arithmetic(z, Y(o[1]), z.r[z80_r_ixy(z, Z(o[1]))])
    [] f = "alu8_IXYp"    -> Z80_8BIT_READ(z, Indexed(z), 0,
                                           Arithmetic(z, Y(o[1]), z.read_buffer[0]))

IncDec(f, z) ==
  LET o    == z.opcode
      step(b) == IF f \in {"INC_r", "INC_rIXY", "INC_HLp", "INC_IXYp"}
                   THEN alu8_inc(b, F(z)) ELSE alu8_dec(b, F(z))
      reg  == IF f \in {"INC_r", "DEC_r"} THEN z80_r(Y(o[0])) ELSE z80_r_ixy(z, Y(o[1]))
  IN CASE f \in {"INC_HLp", "DEC_HLp"}   -> Modify(z, Word(z, "HL"), step(z.read_buffer[0]))
       [] f \in {"INC_IXYp", "DEC_IXYp"} -> Modify(z, Indexed(z), step(z.read_buffer[0]))
       [] OTHER                          -> Give(z, reg, step(z.r[reg]))

NEG(z) == Give(z, "A", alu8_op("SUB", 0, z.r["A"], F(z)))

\* z80_opcodes_alu16.c. ADC gives the result to the half-carry macro in the
\* place of the second operand; SBC takes S, Z and the borrow from the old HL.
ADC_HL_rp(z) ==
  LET hl == Word(z, "HL")
      n  == Plus(hl, Word(z, z80_rp(P(z.opcode[1]))) + (IF "C" \in F(z) THEN 1 ELSE 0))
  IN SetF(SetWord(z, "HL", n), Sign16(n) \cup Zero(n) \cup HalfCarry16(hl, n)
                               \cup Parity16(n) \cup Carry16(hl, n))

ADD_HL_rp(z) ==
  LET hl == Word(z, "HL")
      n  == Plus(hl, Word(z, z80_rp(P(z.opcode[0]))))
  IN SetF(SetWord(z, "HL", n), (F(z) \ {"C", "N"}) \cup Carry16(hl, n))

SBC_HL_rp(z) ==
  LET hl == Word(z, "HL")
      v  == Word(z, z80_rp(P(z.opcode[1])))
      n  == Plus(hl, -v - (IF "C" \in F(z) THEN 1 ELSE 0))
  IN SetF(SetWord(z, "HL", n), {"N"} \cup Borrow16(hl, hl) \cup Sign16(hl) \cup Zero(hl)
                               \cup HalfBorrow16(hl, v) \cup Overflow16(hl, v, n))

ADD_IXY_rp(z) ==
  LET ix == Word(z, IXY(z))
      n  == Plus(ix, Word(z, z80_rp(P(z.opcode[1]))))
  IN SetF(SetWord(z, IXY(z), n), (F(z) \cap {"S", "Z", "P"})
                                 \cup HalfCarry16(ix, n) \cup Carry16(ix, n))

Count(z, rp, n) == SetWord(z, rp, Word(z, rp) + n)        \* INC and DEC of a pair

\* z80_opcodes_bit.c: the operand is a register, (HL) or (IX+d).
BitOp(z, kind, b, i) ==
  CASE kind = "BIT" -> bit_op(b, i, F(z))
    [] kind = "SET" -> Result(set_op(b, i), F(z))
    [] kind = "RES" -> Result(res_op(b, i), F(z))

BitHLp(z, kind) ==
  LET res == BitOp(z, kind, z.read_buffer[0], Y(z.opcode[1]))
  IN IF kind = "BIT" THEN Z80_8BIT_READ(z, Word(z, "HL"), 0, SetF(z, res.flags))
     ELSE Modify(z, Word(z, "HL"), res)

BitR(z, kind) ==
  LET r == z80_r(Z(z.opcode[1]))
  IN Give(z, r, BitOp(z, kind, z.r[r], Y(z.opcode[1])))

BitIXYp(z, kind) ==
  LET res == BitOp(z, kind, z.read_buffer[0], Y(z.opcode[3]))
  IN IF kind = "BIT" THEN Z80_8BIT_READ(z, Indexed(z), 0, SetF(z, res.flags))
     ELSE Modify(z, Indexed(z), res)

\* z80_opcodes_rotshift.c. shift_rot_HLp is a two-byte instruction but takes
\* the operation from byte 3, which the last four-byte instruction left there.
Rotate(z, y, b) == op_rotate_shift(Rotations[y + 1], b, F(z))

shift_rot_IXYp(z) == Modify(z, Indexed(z), Rotate(z, Y(z.opcode[3]), z.read_buffer[0]))
shift_rot_HLp(z)  == Modify(z, Word(z, "HL"), Rotate(z, Y(z.opcode[3]), z.read_buffer[0]))
\* Fault: the operation comes from byte 3, as in shift_rot_HLp.
shift_rot_rFault(z) == LET r == z80_r(Z(z.opcode[1]))
                       IN Give(z, r, Rotate(z, Y(z.opcode[3]), z.r[r]))

shift_rot_r(z)    == LET r == z80_r(Z(z.opcode[1]))
                     IN Give(z, r, Rotate(z, Y(z.opcode[1]), z.r[r]))

\* RRD and RLD move two bits at a time, of A only, and keep nothing but flags.
DigitFlags(z, n) ==
  SetF(z, (F(z) \cap {"C"}) \cup {"H"} \cup Sign(n) \cup Zero(n) \cup Parity(n))
Pairs(hi, b5, b3, b1) == 64 * hi + 16 * b5 + 4 * b3 + b1
BitPair(a, i) == (a \div Weight[i + 1]) % 4
RRD(z) == LET a == z.r["A"]
          IN DigitFlags(z, Pairs(BitPair(a, 6), BitPair(a, 0), BitPair(a, 4), BitPair(a, 2)))
RLD(z) == LET a == z.r["A"]
          IN DigitFlags(z, Pairs(BitPair(a, 6), BitPair(a, 2), BitPair(a, 0), BitPair(a, 4)))

\* z80_opcodes_jumps.c. DJNZ jumps when B has become zero.
Jump(z, w)     == SetWord(z, "PC", w)
\* Fault: the distance is taken for a positive number.
RelativeFault(z, e) == Jump(z, Word(z, "PC") + e)

Relative(z, e) == Jump(z, Word(z, "PC") + Signed8(e))
Return16(z)    == Pop(z, Jump(Drop(z, 2), Pair(z)))
Call(z, w)     == Push(z, Word(z, "PC"), Jump(Drop(z, -2), w))

Jumps(f, z) ==
  LET y == Y(z.opcode[0])
      b == Byte8(z.r["B"] - 1)
  IN
  CASE f = "CALL_cc_nn" -> IF Condition(z, y) THEN Call(z, nn(z, 1)) ELSE z
    [] f = "CALL_nn"    -> Call(z, nn(z, 1))
    [] f = "DJNZ_d"     -> IF b # 0 THEN Set(z, "B", b)
                           ELSE Relative(Set(z, "B", b), z.opcode[1])
    [] f = "JP_nn"      -> Jump(z, nn(z, 1))
    [] f = "JP_cc_nn"   -> IF Condition(z, y) THEN Jump(z, nn(z, 1)) ELSE z
    [] f = "JP_HLp"     -> Jump(z, Word(z, "HL"))
    [] f = "JR_cc_d"    -> IF Condition(z, y - 4) THEN Relative(z, z.opcode[1]) ELSE z
    [] f = "JR_d"       -> Relative(z, z.opcode[1])

Returns(f, z) ==
  CASE f \in {"RET", "RETI"} -> Return16(z)
    [] f = "RET_cc"  -> IF Condition(z, Y(z.opcode[0])) THEN Return16(z) ELSE z
    [] f = "RETN"    -> Pop(z, [Jump(Drop(z, 2), Pair(z)) EXCEPT !.iff1 = z.iff2])
    [] f = "RST_y"   -> Call(z, 8 * Y(z.opcode[0]))
    [] f = "JP_IXYp" -> Abort(z)
=============================================================================
