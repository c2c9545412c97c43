------------------------------- MODULE Z80Dasm -------------------------------
(***************************************************************************)
(* The disassembler z80dasm/z80_dasm.c: what it says of an instruction     *)
(* besides its text, which is left out - its size, how the program may go  *)
(* on after it, and where to.                                              *)
(*                                                                         *)
(* Its tables are made by the same script from z80_dasm_tables.csv, whose  *)
(* rows match the same bytes with the same lengths as those of the decoder *)
(* but for INC and DEC of half an index register, which it lacks. A row is *)
(* named here as in the decoder: zd_alu_n is alu8_n, zd_rot shift_rot_r    *)
(* and shift_rot_HLp, zd_bli every block instruction.                      *)
(***************************************************************************)
EXTENDS Z80Decoder

od_unpref == op_unpref
od_dd     == [b \in 0..255 |-> IF b \in {36, 37, 44, 45} THEN NoEntry ELSE op_dd[b]]
od_ed     == op_ed
od_cb     == op_cb
od_ddcb   == op_ddcb

\* The functions that keep the flags of defaultOpcode, in the order of the file.
PlainAtoB == {"ADC_HL_rp", "ADD_HL_rp", "ADD_IXY_rp", "alu8_IXYp", "alu8_n", "alu8_r",
              "alu8_HLp", "alu8_r_undoc", "BIT_b_IXYp", "BIT_b_r", "BIT_b_HLp"}
              \cup {"LDI", "CPI", "INI", "OUTI", "LDD", "CPD", "IND", "OUTD", "LDIR",
                    "CPIR", "INIR", "OTIR", "LDDR", "CPDR", "INDR", "OTDR"}
PlainCtoD == {"CCF", "CPL", "DAA", "DEC_IXY", "DEC_IXYp", "DEC_r", "DEC_HLp", "DEC_rp",
              "DI"}
PlainEtoI == {"EI", "EX", "EX_DE_HL", "EX_SPp_HL", "EX_SPp_IXY", "EXX", "HALT", "IM",
              "IN_A_np", "IN_r_Cp", "INC_IXY", "INC_IXYp", "INC_r", "INC_HLp", "INC_rp"}
PlainLoads == {"LD_A_BCp", "LD_A_DEp", "LD_A_I", "LD_A_nnp", "LD_A_R", "LD_BCp_A",
               "LD_DEp_A", "LD_HL_nnp", "LD_I_A", "LD_IXY_nn", "LD_IXY_nnp",
               "LD_IXYH_n", "LD_IXYL_n", "LD_IXYp_n", "LD_IXYp_r"}
PlainLtoN == {"LD_nnp_A", "LD_nnp_HL", "LD_nnp_IXY", "LD_nnp_rp", "LD_R_A", "LD_r_IXYp",
              "LD_r_n", "LD_HLp_n", "LD_r_r", "LD_r_HLp", "LD_HLp_r", "LD_r_r_undoc",
              "LD_rp_nn", "LD_rp_nnp", "LD_SP_HL", "LD_SP_IXY", "NEG"}
PlainNtoR == {"NOP", "OUT_Cp_r", "OUT_np_A", "POP_IXY", "POP_rp2", "PUSH_IXY",
              "PUSH_rp2", "RES_b_IXYp", "RES_b_r", "RES_b_HLp"}
PlainRotations == {"RLA", "RLCA", "RLD", "shift_rot_r", "shift_rot_HLp",
                   "shift_rot_IXYp", "RRA", "RRCA", "RRD"}
PlainStoU == {"SBC_HL_rp", "SCF", "SET_b_IXYp", "SET_b_r", "SET_b_HLp", "UNDOC"}

\* The others: what Z80D_TYPE_ flags they set.
\* Fault: a conditional relative jump is taken for one that is always made.
BranchesFault(f) ==
  CASE f \in {"CALL_cc_nn", "CALL_nn"} -> {"CONST_JUMP", "NORMAL", "CALL"}
    [] f = "JP_cc_nn"             -> {"CONST_JUMP", "NORMAL"}
    [] f \in {"JP_nn", "RST_y"}   -> {"CONST_JUMP"}
    [] f \in {"DJNZ_d", "JR_cc_d", "JR_d"} -> {"REL_JUMP"}
    [] f \in {"JP_HLp", "JP_IXYp"} -> {"INDIRECT_JUMP"}
    [] f \in {"RET", "RETI", "RETN"} -> {"INDIRECT_JUMP", "RETURN"}
    [] f = "RET_cc"               -> {"INDIRECT_JUMP", "NORMAL", "RETURN"}

Branches(f) ==
  CASE f \in {"CALL_cc_nn", "CALL_nn"} -> {"CONST_JUMP", "NORMAL", "CALL"}
    [] f = "JP_cc_nn"             -> {"CONST_JUMP", "NORMAL"}
    [] f \in {"JP_nn", "RST_y"}   -> {"CONST_JUMP"}
    [] f \in {"DJNZ_d", "JR_cc_d"} -> {"REL_JUMP", "NORMAL"}
    [] f = "JR_d"                 -> {"REL_JUMP"}
    [] f \in {"JP_HLp", "JP_IXYp"} -> {"INDIRECT_JUMP"}
    [] f \in {"RET", "RETI", "RETN"} -> {"INDIRECT_JUMP", "RETURN"}
    [] f = "RET_cc"               -> {"INDIRECT_JUMP", "NORMAL", "RETURN"}

opcode_size(o) ==
  CASE o[0] \in {DD, FD} -> IF o[1] = CB THEN 4 ELSE od_dd[o[1]].size
    [] o[0] \in {ED, CB} -> 2
    [] OTHER             -> od_unpref[o[0]].size

defaultOpcode == [size |-> 0, flags |-> {"NORMAL"}, immediate |-> 0,
                  address |-> 0, address_next |-> 0, address_jump |-> 0]
unknown_decode == defaultOpcode

\* The row of the bytes o; the assert of the tables that are complete holds.
Decoded(o) ==
  CASE o[0] = CB -> od_cb[o[1]]
    [] o[0] = ED -> od_ed[o[1]]
    [] o[0] \in {DD, FD} /\ o[1] = CB -> od_ddcb[o[3]]
    [] o[0] \in {DD, FD} /\ o[1] # CB -> od_dd[o[1]]
    [] OTHER -> od_unpref[o[0]]

\* The function of the row: a jump keeps its constant or its distance.
Describe(f, o) ==
  LET d == [defaultOpcode EXCEPT !.size = opcode_size(o)] IN
  CASE f \in PlainAtoB \cup PlainCtoD \cup PlainEtoI \cup PlainLoads \cup PlainLtoN
            \cup PlainNtoR \cup PlainRotations \cup PlainStoU -> d
    [] f \in {"CALL_cc_nn", "CALL_nn", "JP_cc_nn", "JP_nn"} ->
         [d EXCEPT !.flags = Branches(f), !.address_jump = o[1] + 256 * o[2]]
    [] f = "RST_y" -> [d EXCEPT !.flags = Branches(f), !.address_jump = 8 * Y(o[0])]
    [] f \in {"DJNZ_d", "JR_cc_d", "JR_d"} ->
         [d EXCEPT !.flags = Branches(f), !.immediate = Signed8(o[1])]
    [] OTHER -> [d EXCEPT !.flags = Branches(f)]

z80d_decode_op(o, pc) ==
  LET e == Decoded(o)
      d == IF e = NoEntry THEN unknown_decode ELSE Describe(e.f, o)
  IN [d EXCEPT !.address = pc,
               !.address_next = Plus(pc, d.size),
               !.address_jump = IF "REL_JUMP" \in d.flags
                                  THEN Plus(pc, d.immediate + d.size) ELSE @]

\* Where the program may go on without a register deciding it.
Successors(op) ==
  (IF "NORMAL" \in op.flags THEN {op.address_next} ELSE {})
  \cup (IF op.flags \cap {"CONST_JUMP", "REL_JUMP"} # {} THEN {op.address_jump} ELSE {})
=============================================================================
