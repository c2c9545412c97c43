---------------------------- MODULE Z80OpcodesLd ----------------------------
(***************************************************************************)
(* The opcode functions of z80/z80_opcodes_ld.c: loads, the stack, ports   *)
(* and the block instructions. Several are an assert(0).                   *)
(***************************************************************************)
EXTENDS Z80Opcodes

LoadA(z, a)   == Z80_8BIT_READ(z, a, 0, Set(z, "A", z.read_buffer[0]))
LoadPair(z, a, rp) == Z80_16BIT_READ(z, a, 0, SetWord(z, rp, Pair(z)))
StoreByte(z, a, b) == Z80_8BIT_WRITE(z, a, 0, b, z)
StorePair(z, a, rp) ==
  Z80_16BIT_WRITE(z, a, 0, Lo(Word(z, rp)), Hi(Word(z, rp)), z)

Loads(f, z) ==
  LET o == z.opcode IN
  CASE f = "LD_A_BCp"  -> LoadA(z, Word(z, "BC"))
    [] f = "LD_A_DEp"  -> LoadA(z, Word(z, "DE"))
    [] f = "LD_A_nnp"  -> LoadA(z, nn(z, 1))
    [] f = "LD_BCp_A"  -> StoreByte(z, Word(z, "BC"), z.r["A"])
    [] f = "LD_DEp_A"  -> StoreByte(z, Word(z, "DE"), z.r["A"])
    [] f = "LD_nnp_A"  -> StoreByte(z, nn(z, 1), z.r["A"])
    [] f = "LD_HLp_n"  -> StoreByte(z, Word(z, "HL"), o[1])
    [] f = "LD_HLp_r"  -> StoreByte(z, Word(z, "HL"), z.r[z80_r(Z(o[0]))])
    [] f = "LD_HL_nnp" -> LoadPair(z, nn(z, 1), "HL")
    [] f = "LD_nnp_HL" -> StorePair(z, nn(z, 1), "HL")
    [] f = "LD_rp_nnp" -> LoadPair(z, nn(z, 2), z80_rp(P(o[1])))
    [] f = "LD_nnp_rp" -> StorePair(z, nn(z, 2), z80_rp(P(o[1])))
    [] f = "LD_rp_nn"  -> SetWord(z, z80_rp(P(o[0])), nn(z, 1))
    [] f = "LD_r_HLp"  -> Z80_8BIT_READ(z, Word(z, "HL"), 0,
                                        Set(z, z80_r(Y(o[0])), z.read_buffer[0]))
    [] f = "LD_r_n"    -> Set(z, z80_r(Y(o[0])), o[1])
    [] f = "LD_r_r"    -> Set(z, z80_r(Y(o[0])), z.r[z80_r(Z(o[0]))])
    [] f = "LD_r_r_undoc" -> Set(z, z80_r_ixy(z, Y(o[1])), z.r[z80_r_ixy(z, Z(o[1]))])
    [] f = "LD_SP_HL"  -> SetWord(z, "SP", Word(z, "HL"))
    [] f = "LD_I_A"    -> Set(z, "I", z.r["A"])
    [] f = "LD_R_A"    -> Set(z, "R", z.r["A"])

LoadsIXY(f, z) ==
  LET o == z.opcode
      i == IXY(z)
  IN
  CASE f = "LD_IXY_nn"  -> SetWord(z, i, nn(z, 2))
    [] f = "LD_IXYH_n"  -> Set(z, Halves[i][1], o[2])
    [] f = "LD_IXYL_n"  -> Set(z, Halves[i][2], o[2])
    [] f = "LD_nnp_IXY" -> StorePair(z, nn(z, 2), i)
    [] f = "LD_IXY_nnp" -> LoadPair(z, nn(z, 2), i)
    [] f = "LD_IXYp_n"  -> StoreByte(z, Indexed(z), o[3])
    [] f = "LD_IXYp_r"  -> StoreByte(z, Indexed(z), z.r[z80_r(Z(o[1]))])
    [] f = "LD_r_IXYp"  -> Z80_8BIT_READ(z, Indexed(z), 0,
                                         Set(z, z80_r(Y(o[1])), z.read_buffer[0]))
    [] f = "LD_SP_IXY"  -> SetWord(z, "SP", Word(z, i))

Stack(f, z) ==
  CASE f = "PUSH_rp2" -> Push(z, Word(z, z80_rp2(P(z.opcode[0]))), Drop(z, -2))
    [] f = "PUSH_IXY" -> Push(z, Word(z, IXY(z)), Drop(z, -2))
    [] f = "POP_rp2"  -> Pop(z, SetWord(Drop(z, 2), z80_rp2(P(z.opcode[0])), Pair(z)))
    [] f = "POP_IXY"  -> Pop(z, SetWord(Drop(z, 2), IXY(z), Pair(z)))
-----------------------------------------------------------------------------
(***************************************************************************)
(* Block instructions. To repeat is to take PC back by two. LDD and LDI    *)
(* repeat like LDDR and LDIR; CPDR and CPIR never repeat; OTIR and OUTI    *)
(* stop when B is 0, which they find out after the port was written.       *)
(***************************************************************************)
Again(z, more) == IF more THEN Count(z, "PC", -2) ELSE z
Undocumented(z) ==                              \* bits 3 and 1 of the byte plus A
  LET n == z.read_buffer[0] + z.r["A"] IN Flag("3", Bit(n, 3)) \cup Flag("5", Bit(n, 1))

Search(z, d) ==
  LET n == Byte8(z.r["A"] - z.read_buffer[0])
      v == Count(Count(z, "BC", -1), "HL", d)
  IN Z80_8BIT_READ(z, Word(z, "HL"), 0,
       SetF(v, (F(z) \cap {"C"}) \cup Sign(n) \cup Zero(n) \cup {"N"}
               \cup HalfBorrow(z.r["A"], z.read_buffer[0])
               \cup Flag("P", Word(v, "BC") = 0)))

\* Fault: the counter is tested before it is taken down.
CopyFault(z, d, clear) ==
  LET v == Count(Count(Count(z, "BC", -1), "HL", d), "DE", d)
      more == Word(z, "BC") # 0
  IN Z80_8BIT_READ(z, Word(z, "HL"), 0,
       Z80_8BIT_WRITE(z, Word(z, "DE"), 0, z.read_buffer[0],
         Again(SetF(v, (F(z) \ clear) \cup Flag("P", more) \cup Undocumented(z)), more)))

Copy(z, d, clear) ==
  LET v == Count(Count(Count(z, "BC", -1), "HL", d), "DE", d)
      more == Word(v, "BC") # 0
  IN Z80_8BIT_READ(z, Word(z, "HL"), 0,
       Z80_8BIT_WRITE(z, Word(z, "DE"), 0, z.read_buffer[0],
         Again(SetF(v, (F(z) \ clear) \cup Flag("P", more) \cup Undocumented(z)), more)))
LDD(z) == Copy(z, -1, {"H", "P", "N", "3", "5"})
LDI(z) == Copy(z, 1, {"H", "P", "N"})

\* The high byte of the port is B - 1, and Z is set when B is not 0.
LeftToSend(z) == Byte8(z.r["B"] - 1)
Send(z, d, fs) ==
  Z80_8BIT_READ(z, Word(z, "HL"), 0,
    Z80_8BIT_WRITE(z, z.r["C"] + 256 * LeftToSend(z), 1, z.read_buffer[0],
      Again(SetF(Set(Count(z, "HL", d), "B", LeftToSend(z)), fs), LeftToSend(z) # 0)))
OUTD(z, d) ==
  Send(z, d, (F(z) \ {"Z"}) \cup {"N"} \cup Flag("Z", LeftToSend(z) # 0) \cup Undocumented(z))
OTIR(z) == Send(z, 1, F(z) \ {"Z", "N"})

\* LDDR, LDIR, CPDR, CPIR and OTDR call the function that does not repeat, as
\* often as they are called, and give the end of it back as REFRESH.
Repeated(z)    == IF z.stage = "RESET" THEN Return(z, "REFRESH") ELSE z
ClearParity(z) == SetF(z, F(z) \ {"P"})

Blocks(f, z) ==
  CASE f = "CPD"  -> Search(z, -1)
    [] f = "CPI"  -> Search(z, 1)
    [] f = "CPDR" -> Repeated(Search(z, -1))
    [] f = "CPIR" -> Repeated(Search(z, 1))
    [] f = "LDD"  -> LDD(z)
    [] f = "LDI"  -> LDI(z)
    [] f = "LDDR" -> Repeated(ClearParity(LDD(z)))
    [] f = "LDIR" -> Repeated(ClearParity(LDI(z)))
    [] f = "OUTD" -> OUTD(z, -1)
    [] f = "OUTI" -> OUTD(z, 1)
    [] f = "OTDR" -> Repeated(OUTD(z, -1))
    [] f = "OTIR" -> OTIR(z)

\* Ports. OUT (C) puts A on the high half of the address; with operand 6 it
\* reads through the null entry of z80_r.
Ports(f, z) ==
  LET a == 256 * z.r["A"]
      r == z80_r(Y(z.opcode[1]))
  IN
  CASE f = "IN_A_np"  -> Z80_8BIT_READ(z, z.opcode[1] + a, 1, Set(z, "A", z.read_buffer[0]))
    [] f = "OUT_np_A" -> Z80_8BIT_WRITE(z, z.opcode[1] + a, 1, z.r["A"], z)
    [] f = "OUT_Cp_0" -> Z80_8BIT_WRITE(z, z.r["C"] + a, 1, 0, z)
    [] f = "OUT_Cp_r" -> IF r = "" THEN Abort(z)
                         ELSE Z80_8BIT_WRITE(z, z.r["C"] + a, 1, z.r[r], z)

Unimplemented == {"IN_Cp", "IN_r_Cp", "IND", "INDR", "INI", "INIR",
                  "LD_A_I", "LD_A_R", "EX_SPp_IXY"}
=============================================================================
