----------------------------- MODULE Z80Decoder -----------------------------
(***************************************************************************)
(* The decoder: the tables of z80/z80_decoder_tables.csv, the way          *)
(* scripts/z80_make_decoder_tables.py turns their rows into arrays, and    *)
(* z80_instruction_decode, which calls the function of the instruction     *)
(* when its last byte is there, and calls it again after every byte moved. *)
(***************************************************************************)
EXTENDS Z80OpcodesLd

\* A row: the function, the length of the instruction, and the opcode bytes
\* its pattern matches, written in their fields x, y and z.
At(x, ys, zs) == { 64 * x + 8 * y + z : y \in ys, z \in zs }
Fields == 0..7
Even   == {0, 2, 4, 6}
Odd    == {1, 3, 5, 7}
Row(f, size, bytes) == [f |-> f, size |-> size, bytes |-> bytes]

Unprefixed == {
  Row("NOP", 1, {0}),                      Row("EX", 1, {8}),
  Row("DJNZ_d", 2, {16}),                  Row("JR_d", 2, {24}),
  Row("JR_cc_d", 2, At(0, 4..7, {0})),
  Row("LD_rp_nn", 3, At(0, Even, {1})),    Row("ADD_HL_rp", 1, At(0, Odd, {1})),
  Row("LD_BCp_A", 1, At(0, {0}, {2})),     Row("LD_A_BCp", 1, At(0, {1}, {2})),
  Row("LD_DEp_A", 1, At(0, {2}, {2})),     Row("LD_A_DEp", 1, At(0, {3}, {2})),
  Row("LD_nnp_HL", 3, At(0, {4}, {2})),    Row("LD_HL_nnp", 3, At(0, {5}, {2})),
  Row("LD_nnp_A", 3, At(0, {6}, {2})),     Row("LD_A_nnp", 3, At(0, {7}, {2})),
  Row("INC_rp", 1, At(0, Even, {3})),      Row("DEC_rp", 1, At(0, Odd, {3})),
  Row("INC_r", 1, At(0, Fields, {4})),        Row("INC_HLp", 1, At(0, {6}, {4})),
  Row("DEC_r", 1, At(0, Fields, {5})),        Row("DEC_HLp", 1, At(0, {6}, {5})),
  Row("LD_r_n", 2, At(0, Fields, {6})),       Row("LD_HLp_n", 2, At(0, {6}, {6})),
  Row("RLCA", 1, {7}),                     Row("RRCA", 1, {15}),
  Row("RLA", 1, {23}),                     Row("RRA", 1, {31}),
  Row("DAA", 1, {39}),                     Row("CPL", 1, {47}),
  Row("SCF", 1, {55}),                     Row("CCF", 1, {63}),
  Row("LD_r_r", 1, At(1, Fields, Fields)),       Row("HALT", 1, At(1, {6}, {6})),
  Row("LD_r_HLp", 1, At(1, Fields, {6})),     Row("LD_HLp_r", 1, At(1, {6}, Fields)),
  Row("alu8_r", 1, At(2, Fields, Fields)),       Row("alu8_HLp", 1, At(2, Fields, {6})),
  Row("RET_cc", 1, At(3, Fields, {0})),       Row("POP_rp2", 1, At(3, Even, {1})),
  Row("RET", 1, At(3, {1}, {1})),          Row("EXX", 1, At(3, {3}, {1})),
  Row("JP_HLp", 1, At(3, {5}, {1})),       Row("LD_SP_HL", 1, At(3, {7}, {1})),
  Row("JP_cc_nn", 3, At(3, Fields, {2})),     Row("JP_nn", 3, At(3, {0}, {3})),
  Row("OUT_np_A", 2, At(3, {2}, {3})),     Row("IN_A_np", 2, At(3, {3}, {3})),
  Row("EX_SPp_HL", 1, At(3, {4}, {3})),    Row("EX_DE_HL", 1, At(3, {5}, {3})),
  Row("DI", 1, At(3, {6}, {3})),           Row("EI", 1, At(3, {7}, {3})),
  Row("CALL_cc_nn", 3, At(3, Fields, {4})),   Row("PUSH_rp2", 1, At(3, Even, {5})),
  Row("CALL_nn", 3, At(3, {1}, {5})),      Row("alu8_n", 2, At(3, Fields, {6})),
  Row("RST_y", 1, At(3, Fields, {7})) }

\* Prefix CB; prefixes DD CB and FD CB, whose last byte decides.
RowsCB ==
  { Row("shift_rot_r", 2, At(0, Fields, Fields)), Row("shift_rot_HLp", 2, At(0, Fields, {6})),
    Row("BIT_b_r", 2, At(1, Fields, Fields)),     Row("BIT_b_HLp", 2, At(1, Fields, {6})),
    Row("RES_b_r", 2, At(2, Fields, Fields)),     Row("RES_b_HLp", 2, At(2, Fields, {6})),
    Row("SET_b_r", 2, At(3, Fields, Fields)),     Row("SET_b_HLp", 2, At(3, Fields, {6})) }

RowsDDCB ==
  { Row("UNDOC", 4, 0..255),
    Row("shift_rot_IXYp", 4, At(0, Fields, {6})), Row("BIT_b_IXYp", 4, At(1, Fields, {6})),
    Row("RES_b_IXYp", 4, At(2, Fields, {6})),     Row("SET_b_IXYp", 4, At(3, Fields, {6})) }

\* Prefix ED. A byte no row names is a NOP of two bytes.
RowsED == {
  Row("NOP", 2, 0..255),
  Row("IN_r_Cp", 2, At(1, Fields, {0})),   Row("OUT_Cp_r", 2, At(1, Fields, {1})),
  Row("SBC_HL_rp", 2, At(1, Even, {2})), Row("ADC_HL_rp", 2, At(1, Odd, {2})),
  Row("LD_nnp_rp", 4, At(1, Even, {3})), Row("LD_rp_nnp", 4, At(1, Odd, {3})),
  Row("NEG", 2, At(1, Fields, {4})),
  Row("RETN", 2, At(1, Even, {5})),     Row("RETI", 2, At(1, Odd, {5})),
  Row("IM", 2, At(1, Fields, {6})),
  Row("LD_I_A", 2, At(1, {0}, {7})),    Row("LD_R_A", 2, At(1, {1}, {7})),
  Row("LD_A_I", 2, At(1, {2}, {7})),    Row("LD_A_R", 2, At(1, {3}, {7})),
  Row("RRD", 2, At(1, {4}, {7})),       Row("RLD", 2, At(1, {5}, {7})),
  Row("LDI", 2, At(2, {4}, {0})),       Row("LDD", 2, At(2, {5}, {0})),
  Row("LDIR", 2, At(2, {6}, {0})),      Row("LDDR", 2, At(2, {7}, {0})),
  Row("CPI", 2, At(2, {4}, {1})),       Row("CPD", 2, At(2, {5}, {1})),
  Row("CPIR", 2, At(2, {6}, {1})),      Row("CPDR", 2, At(2, {7}, {1})),
  Row("INI", 2, At(2, {4}, {2})),       Row("IND", 2, At(2, {5}, {2})),
  Row("INIR", 2, At(2, {6}, {2})),      Row("INDR", 2, At(2, {7}, {2})),
  Row("OUTI", 2, At(2, {4}, {3})),      Row("OUTD", 2, At(2, {5}, {3})),
  Row("OTIR", 2, At(2, {6}, {3})),      Row("OTDR", 2, At(2, {7}, {3})) }

\* Prefixes DD and FD, which have the same rows.
RowsDD == {
  Row("NOP", 2, {0}),                      Row("HALT", 2, At(1, {6}, {6})),
  Row("LD_r_r_undoc", 2, At(1, Fields, Fields)), Row("LD_r_IXYp", 3, At(1, Fields, {6})),
  Row("LD_IXYp_r", 3, At(1, {6}, Fields)),    Row("LD_IXYp_n", 4, At(0, {6}, {6})),
  Row("LD_IXYH_n", 3, At(0, {4}, {6})),    Row("LD_IXYL_n", 3, At(0, {5}, {6})),
  Row("LD_IXY_nn", 4, At(0, {4}, {1})),    Row("LD_IXY_nnp", 4, At(0, {5}, {2})),
  Row("LD_nnp_IXY", 4, At(0, {4}, {2})),   Row("ADD_IXY_rp", 2, At(0, Odd, {1})),
  Row("INC_IXY", 2, At(0, {4}, {3})),      Row("DEC_IXY", 2, At(0, {5}, {3})),
  Row("INC_rIXY", 2, At(0, {4, 5}, {4})),  Row("DEC_rIXY", 2, At(0, {4, 5}, {5})),
  Row("INC_IXYp", 3, At(0, {6}, {4})),     Row("DEC_IXYp", 3, At(0, {6}, {5})),
  Row("alu8_r_undoc", 2, At(2, Fields, Fields)), Row("alu8_IXYp", 3, At(2, Fields, {6})),
  Row("POP_IXY", 2, At(3, {4}, {1})),      Row("PUSH_IXY", 2, At(3, {4}, {5})),
  Row("EX_SPp_IXY", 2, At(3, {4}, {3})),   Row("JP_IXYp", 2, At(3, {5}, {1})),
  Row("LD_SP_IXY", 2, At(3, {7}, {1})) }

\* The generator: the row of a byte is the one with the longest mask, which
\* matches the fewest bytes. NoEntry is EMPTY_OPCODE.
NoEntry == Row("none", 0, {})
Gen(rows) ==
  [b \in 0..255 |->
     LET matching == { r \in rows : b \in r.bytes }
     IN IF matching = {} THEN NoEntry
        ELSE CHOOSE r \in matching :
               \A q \in matching : Cardinality(r.bytes) <= Cardinality(q.bytes)]

op_unpref == Gen(Unprefixed)
op_cb     == Gen(RowsCB)
op_ed     == Gen(RowsED)
op_dd     == Gen(RowsDD)
op_ddcb   == Gen(RowsDDCB)

\* The asserts of z80_decoder.c:79-148: every byte after CB and ED, and after
\* DD CB and FD CB, has an entry.
ASSUME TablesAreComplete ==
  /\ op_cb \in [0..255 -> RowsCB]
  /\ op_ed \in [0..255 -> RowsED]
  /\ op_ddcb \in [0..255 -> RowsDDCB]
  /\ op_unpref \in [0..255 -> Unprefixed \cup {NoEntry}]
  /\ op_dd \in [0..255 -> RowsDD \cup {NoEntry}]
  /\ \A b \in 0..255 : op_dd[b] # NoEntry => b \in op_dd[b].bytes

\* z80_r has a null entry, 6: the rows of functions that go through it leave it out,
\* all but that of OUT (C).
ASSUME NullEntryAvoided ==
  \A b \in 0..255 :
    /\ op_unpref[b].f \in {"INC_r", "DEC_r", "LD_r_n", "LD_r_r", "LD_r_HLp"} => Y(b) # 6
    /\ op_unpref[b].f \in {"alu8_r", "LD_r_r", "LD_HLp_r"} => Z(b) # 6
    /\ op_cb[b].f \in {"BIT_b_r", "RES_b_r", "SET_b_r", "shift_rot_r"} => Z(b) # 6
    /\ op_dd[b].f \in {"INC_rIXY", "DEC_rIXY", "LD_r_r_undoc", "LD_r_IXYp"} => Y(b) # 6
    /\ op_dd[b].f \in {"alu8_r_undoc", "LD_r_r_undoc", "LD_IXYp_r"} => Z(b) # 6
-----------------------------------------------------------------------------
(***************************************************************************)
(* A call of the function f. It gives the next stage back, RESET when it   *)
(* reaches its end.                                                        *)
(***************************************************************************)
Execute(f, z0) ==
  LET z == Return(z0, "RESET")
      p == IF f \in {"ADD_IXY_rp", "INC_IXY", "DEC_IXY"} THEN IXY(z)
           ELSE z80_rp(P(z.opcode[0]))
  IN
  CASE f \in {"CCF", "CPL", "DAA", "DI", "EI", "EX", "EX_DE_HL", "EX_SPp_HL", "EXX",
              "HALT", "IM", "NOP"} -> General(f, z)
    [] f \in {"RLA", "RLCA", "RRA", "RRCA"} ->
         RotateA(z, [RLA |-> "RL", RLCA |-> "RLC", RRA |-> "RR", RRCA |-> "RRC"][f])
    [] f = "SCF" -> SCF(z)
    [] f = "NEG" -> NEG(z)
    [] f = "RRD" -> RRD(z)
    [] f = "RLD" -> RLD(z)
    [] f \in {"alu8_HLp", "alu8_n", "alu8_r", "alu8_r_undoc", "alu8_IXYp"} -> Alu8(f, z)
    [] f \in {"INC_r", "INC_rIXY", "INC_HLp", "INC_IXYp",
              "DEC_r", "DEC_rIXY", "DEC_HLp", "DEC_IXYp"} -> IncDec(f, z)
    [] f = "ADC_HL_rp"  -> ADC_HL_rp(z)
    [] f = "ADD_HL_rp"  -> ADD_HL_rp(z)
    [] f = "SBC_HL_rp"  -> SBC_HL_rp(z)
    [] f = "ADD_IXY_rp" -> ADD_IXY_rp(z)
    [] f \in {"INC_rp", "INC_IXY"} -> Count(z, p, 1)
    [] f \in {"DEC_rp", "DEC_IXY"} -> Count(z, p, -1)
    [] f \in {"BIT_b_r", "RES_b_r", "SET_b_r"} ->
         BitR(z, [BIT_b_r |-> "BIT", RES_b_r |-> "RES", SET_b_r |-> "SET"][f])
    [] f \in {"BIT_b_HLp", "RES_b_HLp", "SET_b_HLp"} ->
         BitHLp(z, [BIT_b_HLp |-> "BIT", RES_b_HLp |-> "RES", SET_b_HLp |-> "SET"][f])
    [] f \in {"BIT_b_IXYp", "RES_b_IXYp", "SET_b_IXYp"} ->
         BitIXYp(z, [BIT_b_IXYp |-> "BIT", RES_b_IXYp |-> "RES", SET_b_IXYp |-> "SET"][f])
    [] f = "shift_rot_r"    -> shift_rot_r(z)
    [] f = "shift_rot_HLp"  -> shift_rot_HLp(z)
    [] f = "shift_rot_IXYp" -> shift_rot_IXYp(z)
    [] f \in {"CALL_cc_nn", "CALL_nn", "DJNZ_d", "JP_nn", "JP_cc_nn", "JP_HLp",
              "JR_cc_d", "JR_d"} -> Jumps(f, z)
    [] f \in {"RET", "RETI", "RET_cc", "RETN", "RST_y", "JP_IXYp"} -> Returns(f, z)
    [] f \in {"LD_IXY_nn", "LD_IXYH_n", "LD_IXYL_n", "LD_nnp_IXY", "LD_IXY_nnp",
              "LD_IXYp_n", "LD_IXYp_r", "LD_r_IXYp", "LD_SP_IXY"} -> LoadsIXY(f, z)
    [] f \in {"PUSH_rp2", "PUSH_IXY", "POP_rp2", "POP_IXY"} -> Stack(f, z)
    [] f \in {"CPD", "CPI", "CPDR", "CPIR", "LDD", "LDI", "LDDR", "LDIR",
              "OUTD", "OUTI", "OTDR", "OTIR"} -> Blocks(f, z)
    [] f \in {"IN_A_np", "OUT_np_A", "OUT_Cp_r"} -> Ports(f, z)
    [] f \in Unimplemented \cup {"UNDOC"} -> Abort(z)
    [] OTHER -> Loads(f, z)
-----------------------------------------------------------------------------
(***************************************************************************)
(* z80_instruction_decode.                                                 *)
(***************************************************************************)
CB == 203
DD == 221
ED == 237
FD == 253

\* Of two prefixes in a row the first is dropped; byte 3 stays where it is.
z80_instruction_unprefix(z) ==
  [z EXCEPT !.opcode = [i \in 0..3 |-> z.opcode[IF i < 3 THEN i + 1 ELSE 3]],
            !.opcode_index = @ - 1]

Unprefix(z) ==
  IF /\ z.opcode_index >= 2
     /\ z.opcode[0] \in {DD, FD}
     /\ z.opcode[1] \in {DD, ED, FD}
    THEN z80_instruction_unprefix(z) ELSE z

\* What the table has for the bytes fetched so far: the entry, and whether
\* enough of them are there to look it up.
Entry(z) ==
  CASE z.opcode[0] = CB -> op_cb[z.opcode[1]]
    [] z.opcode[0] = ED -> op_ed[z.opcode[1]]
    [] z.opcode[0] \in {DD, FD} /\ z.opcode[1] = CB -> op_ddcb[z.opcode[3]]
    [] z.opcode[0] \in {DD, FD} /\ z.opcode[1] # CB -> op_dd[z.opcode[1]]
    [] OTHER -> op_unpref[z.opcode[0]]
Prefixed(z) == z.opcode[0] \in {CB, DD, ED, FD}
Enough(z) ==
  /\ Prefixed(z) => z.opcode_index > 1
  /\ (z.opcode[0] \in {DD, FD} /\ z.opcode[1] = CB) => z.opcode_index = 4

z80_instruction_decode(z0) ==
  LET z == Unprefix(z0)
      e == Entry(z)
  IN CASE ~Enough(z) -> Return(z, "M1")
       [] Enough(z) /\ e = NoEntry -> Abort(z)
       [] Enough(z) /\ e # NoEntry /\ e.size = z.opcode_index -> Execute(e.f, z)
       [] OTHER -> Return(z, "M1")
=============================================================================
