---------------------------- MODULE MCZ80Program ----------------------------
(***************************************************************************)
(* Programs for Z80Program: every opcode once, the arithmetic on edge      *)
(* values, block copies, and short programs that jump, call and return.    *)
(***************************************************************************)
EXTENDS Z80Program

\* A program is followed by zeroes. Four bytes at the end are not analysed.
Rom(bytes) == [a \in 0..(Len(bytes) + 3) |-> IF a < Len(bytes) THEN bytes[a + 1] ELSE 0]
Image(bytes, r, steps) == [rom |-> Rom(bytes), r |-> r, steps |-> steps]

\* Every register has its own value; memory is below 256, RAM from 16 to 31.
Base ==
  [r \in Registers |->
     CASE r \in {"PCH", "PCL", "H", "D", "SPH", "IXH", "IYH"} -> 0
       [] r = "L"   -> 18   [] r = "E"   -> 25   [] r = "SPL" -> 28
       [] r = "IXL" -> 20   [] r = "IYL" -> 22   [] r = "A"   -> 140
       [] r = "B"   -> 1    [] r = "C"   -> 3    [] r = "F"   -> 0
       [] r = "R"   -> 255  [] OTHER     -> 77]
With(f, b) == [Base EXCEPT !["F"] = f, !["B"] = b]
Clear == With(0, 1)
Full  == With(255, 2)

\* The instructions of prefix DD run with the first registers, those of FD with
\* the second; the others with both.
Short == { <<b, 2, 0, 0>> : b \in (0..255) \ {CB, DD, ED, FD} }
         \cup { <<CB, b>> : b \in 0..255 } \cup { <<ED, b, 2, 0>> : b \in 0..255 }
Long(p) == { <<p, b, 2, 0>> : b \in (0..255) \ {CB} }
           \cup { <<p, CB, 254, b>> : b \in 0..255 }
Sweep ==
  { Image(bytes, r, 1) : bytes \in Short, r \in {Clear, Full} }
  \cup { Image(bytes, Clear, 1) : bytes \in Long(DD) }
  \cup { Image(bytes, Full, 1) : bytes \in Long(FD) }

Edges == {0, 1, 15, 127, 128, 255}
Arithmetics ==
  { Image(<<198 + 8 * y, n>>, [Base EXCEPT !["A"] = a, !["F"] = f], 1) :
      y \in 0..7, n \in Edges, a \in Edges, f \in {0, 1} }

\* LDI, LDD, LDIR and LDDR with BC = 1..3; the second pair of HL and DE overlap.
CopyRuns ==
  { Image(<<ED, b>>, [Base EXCEPT !["B"] = 0, !["C"] = n, !["L"] = hl, !["E"] = hl + e], n + 1) :
      b \in {160, 168, 176, 184}, n \in 1..3, hl \in {20, 22}, e \in {1, 6} }

\* CALL 8; JR -5.  8: RET NZ; DJNZ -3; JP 0.       A call in a loop.
\* LD SP,28; RST 8; NOP.  8: PUSH BC; POP DE; RET. A restart.
\* JR Z 4; CALL C,6; HALT. 6: SCF; CALL Z,0; JP (HL).
Programs ==
  { Image(p, r, 8) :
      p \in { <<205, 8, 0, 24, 251, 0, 0, 0, 192, 16, 253, 195, 0, 0>>,
              <<49, 28, 0, 207, 0, 0, 0, 0, 197, 209, 201>>,
              <<40, 4, 220, 6, 0, 118, 55, 204, 0, 0, 233>>,
              <<33, 20, 0, 203, 6, 221, 203, 2, 14, 203, 22, 24, 244>> },
      r \in {Clear, Full} }

MCImages == Sweep \cup Arithmetics \cup CopyRuns \cup Programs
MCPortByte(a) == 165

\* These are programs for BlockCopyIsExact.
ASSUME ProgramsFit == CopiesFit
=============================================================================
