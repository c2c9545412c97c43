----------------------------- MODULE Z80Program -----------------------------
(***************************************************************************)
(* A program under the core: the opcode functions driven byte by byte, as  *)
(* the stages M1, M2, M3 and REFRESH of z80/z80.c drive them, next to the  *)
(* analysis of the same program that main runs first. A stage is one step  *)
(* here; its bus cycle is the subject of Z80Cycles. No interrupt comes.    *)
(*                                                                         *)
(* Memory is the ROM from address 0 and RAM above it, mirrored every       *)
(* MemSize bytes. Writes to ROM are lost.                                  *)
(***************************************************************************)
EXTENDS ZedAnalyzer

CONSTANTS Images,        \* what may be run: [rom, r (registers), steps]
          MemSize,       \* bytes of memory, after which it is mirrored
          PortByte(_)    \* the byte a port gives

\* Memory is mirrored in 64 KB; a ROM is a file of bytes that fits into it; registers
\* and ports are bytes.
ASSUME MemSizeAssumption == MemSize \in Nat /\ 0 < MemSize /\ MemSize <= 65536
ASSUME ImagesAssumption ==
  \A image \in Images :
    /\ \E size \in 0..MemSize : image.rom \in [0..(size - 1) -> 0..255]
    /\ image.r \in [Registers -> 0..255]
ASSUME PortAssumption ==
  \A h \in 0..255, l \in 0..255 : PortByte(256 * h + l) \in 0..255

VARIABLES z,             \* struct z80_s
          ram,
          at,            \* where the current instruction began, or None
          called,        \* z when the instruction was complete, before it was called
          origin,        \* r and ram the program was started with
          left           \* instructions still to run: bounds the run

programVars == <<z, ram, at, called, origin, left>>
vars == <<zedVars, programVars>>

None == -1
Memory(a) ==
  LET m == a % MemSize IN IF m \in DOMAIN rom THEN rom[m] ELSE ram[m]
Stored(a, b) ==
  LET m == a % MemSize IN IF m \in DOMAIN ram THEN [ram EXCEPT ![m] = b] ELSE ram

\* Between two instructions: the registers given, and in opcode[] what LD (IX+2),255
\* left there.
Started(r) ==
  [r |-> r, opcode |-> [i \in 0..3 |-> <<DD, 54, 2, 255>>[i + 1]], opcode_index |-> 0,
   read_index |-> 0, write_index |-> 0, read_is_io |-> 0, write_is_io |-> 0,
   read_address |-> 0, write_address |-> 0,
   read_buffer |-> [i \in 0..1 |-> 0], write_buffer |-> [i \in 0..1 |-> 0],
   iff1 |-> 0, iff2 |-> 0, int_mode |-> 0, stage |-> "RESET"]

\* The bytes of opcode[] stay from one instruction to the next.
z80_reset_pipeline(s) ==
  [s EXCEPT !.opcode_index = 0, !.read_index = 0, !.write_index = 0,
            !.read_is_io = 0, !.write_is_io = 0]

Init ==
  /\ ZedInit
  /\ \E image \in Images :
       /\ rom = image.rom
       /\ z = Started(image.r)
       /\ left = image.steps
       /\ ram = [a \in (0..(MemSize - 1)) \ DOMAIN image.rom |-> a % 256]
       /\ origin = [r |-> image.r, ram |-> ram]
  /\ at = None
  /\ called = z

\* z80_stage_m1: R counts in seven bits, the byte is latched, PC goes on.
Latched(s) ==
  LET pc == Word(s, "PC")
      R  == s.r["R"]
  IN SetWord(Set([s EXCEPT !.opcode[s.opcode_index] = Memory(pc), !.opcode_index = @ + 1],
                 "R", (128 * (R \div 128)) + ((R + 1) % 128)),
             "PC", pc + 1)

z80_stage_m1 ==
  /\ phase = "done" /\ z.stage \in {"RESET", "M1"}
  /\ z.stage = "RESET" => left > 0
  /\ LET s == IF z.stage = "RESET" THEN z80_reset_pipeline(z) ELSE z
         v == Latched(s)
     IN /\ z' = z80_instruction_decode(v)
        /\ called' = IF z'.stage = "M1" THEN called ELSE Unprefix(v)
  /\ at' = IF z.stage = "RESET" THEN Word(z, "PC") ELSE at
  /\ left' = IF z.stage = "RESET" THEN left - 1 ELSE left
  /\ UNCHANGED <<zedVars, ram, origin>>

z80_stage_m2 ==
  /\ z.stage = "M2"
  /\ LET b == IF z.read_is_io = 1 THEN PortByte(z.read_address) ELSE Memory(z.read_address)
     IN z' = z80_instruction_decode([z EXCEPT !.read_buffer[z.read_index] = b,
                                              !.read_index = @ + 1])
  /\ UNCHANGED <<zedVars, ram, at, called, origin, left>>

z80_stage_m3 ==
  /\ z.stage = "M3"
  /\ ram' = IF z.write_is_io = 1 THEN ram
            ELSE Stored(z.write_address, z.write_buffer[z.write_index])
  /\ z' = z80_instruction_decode([z EXCEPT !.write_index = @ + 1])
  /\ UNCHANGED <<zedVars, at, called, origin, left>>

z80_stage_refresh ==
  /\ z.stage = "REFRESH"
  /\ z' = [z EXCEPT !.stage = "RESET"]
  /\ UNCHANGED <<zedVars, ram, at, called, origin, left>>

Tick == z80_stage_m1 \/ z80_stage_m2 \/ z80_stage_m3 \/ z80_stage_refresh
Analyze == ZedNext /\ UNCHANGED programVars
Next == Analyze \/ Tick

Spec == Init /\ [][Next]_vars

\* The loops of the analyser run on.
FairSpec == Spec /\ WF_vars(Analyze)
-----------------------------------------------------------------------------
(***************************************************************************)
(* Properties.                                                             *)
(***************************************************************************)
Ended == z.stage = "RESET" /\ at # None

\* z80_opcodes.h:28 has every function start again from its first line after
\* each byte moved. What the calls do together is what one call does that
\* finds all its bytes there: none of them counts, jumps or pops twice.
ReplayIsHarmless ==
  Ended =>
    LET once == Execute(Entry(called).f,
                        [called EXCEPT !.read_index = 2, !.read_buffer = z.read_buffer,
                                       !.write_index = 2])
    IN /\ z.r = once.r
       /\ <<z.iff1, z.iff2, z.int_mode>> = <<once.iff1, once.iff2, once.int_mode>>

\* opcode[] is never cleared (z80.c:217). An instruction takes its operands from
\* its own bytes, whatever earlier ones left behind them; rotating (HL) does not
\* (z80_opcodes_rotshift.c:128).
OwnBytesOnly ==
  (Ended /\ Entry(called).f # "shift_rot_HLp") =>
    LET f     == Entry(called).f
        ready == [called EXCEPT !.read_index = 2, !.read_buffer = z.read_buffer,
                                !.write_index = 2]
        own   == [i \in 0..3 |-> IF i < called.opcode_index THEN called.opcode[i] ELSE 0]
    IN Execute(f, ready).r = Execute(f, [ready EXCEPT !.opcode = own]).r

\* The asserts of the stages (z80.c:355, 430, 545) and of the decoder
\* (z80_decoder.c:48): no function asks for more bytes than there is room for.
\* Each step of an instruction raises a counter, so every instruction ends.
BuffersSuffice ==
  /\ z.stage = "M1" => z.opcode_index \in 1..3
  /\ z.stage = "M2" => z.read_index \in 0..1
  /\ z.stage = "M3" => z.write_index \in 0..1

\* The disassembler has no row for these, or takes their length to be 2 where
\* it is 4 (z80_dasm.c:65).
Misjudged(o) ==
  \/ Decoded(o) = NoEntry
  \/ Decoded(o).f \in {"LD_nnp_rp", "LD_rp_nnp"}

\* Two decoders of the same bytes: after an instruction that neither a register
\* nor the stack takes elsewhere, the core is where the disassembler said it
\* might be (z80_dasm.h:52-54), or repeats the instruction.
StepsArePredicted ==
  (Ended /\ at \in InRange /\ ~Misjudged(Bytes(at)))
    => \/ "INDIRECT_JUMP" \in Op(at).flags
       \/ Word(z, "PC") \in Successors(Op(at)) \cup {at}

\* So the program stays where the analysis was, until such a jump.
StaysAnalysed ==
  (Ended /\ at \in hit_address /\ at \notin unsafe_jumps /\ ~Misjudged(Bytes(at)))
    => Word(z, "PC") \in hit_address \/ Word(z, "PC") > end_addr

\* Arithmetic without a width, to compare z80_opcodes_alu8.c:21-146 with.
Unsigned(op, a, b, c) ==
  IF op \in {"ADD", "ADC"} THEN a + b + c ELSE a - b - c
AluIsRight ==
  (Ended /\ Entry(called).f = "alu8_n") =>
    LET op == AluOps[Y(called.opcode[0]) + 1]
        a  == called.r["A"]
        b  == called.opcode[1]
        c  == IF op \in {"ADC", "SBC"} /\ "C" \in F(called) THEN 1 ELSE 0
        n  == Unsigned(op, a, b, c)
        s  == Unsigned(op, Signed8(a), Signed8(b), c)
        h  == Unsigned(op, Low4(a), Low4(b), c)
    IN op \in {"ADD", "ADC", "SUB", "SBC", "CP"} =>
         /\ op # "CP" => z.r["A"] = n % 256
         /\ ("C" \in F(z)) <=> n \notin 0..255
         /\ ("H" \in F(z)) <=> h \notin 0..15
         /\ ("P" \in F(z)) <=> s \notin -128..127
         /\ ("N" \in F(z)) <=> op \notin {"ADD", "ADC"}

\* What a block copy is to do: byte after byte, so that the order of the copies shows where
\* source and destination overlap.
Copies == {"LDI", "LDIR", "LDD", "LDDR"}
Direction(f) == IF f \in {"LDI", "LDIR"} THEN 1 ELSE -1
Copied(m, d, hl, de, n) ==
  LET copied[i \in 0..n] ==
        IF i = 0 THEN m
        ELSE [copied[i - 1] EXCEPT ![de + (d * (i - 1))] = copied[i - 1][hl + (d * (i - 1))]]
  IN copied

\* When a block copy lets the program go on, BC is 0 and exactly its bytes are
\* where they belong (z80_opcodes_ld.c:316-388).
BlockCopyIsExact ==
  (Ended /\ at = 0 /\ Entry(called).f \in Copies /\ Word(z, "PC") # at) =>
    LET g == [r |-> origin.r]
        n == Word(g, "BC")
    IN /\ Word(z, "BC") = 0
       /\ ram = Copied(origin.ram, Direction(Entry(called).f), Word(g, "HL"), Word(g, "DE"), n)[n]

\* What it needs of the programs. The first byte that is not a prefix IX or IY begins an
\* instruction that is not a copy; or it is byte 0, where the program starts, and begins a
\* copy of at least one byte, after which the run has one more instruction at most. What the
\* run reaches of it is in RAM.
CopiesFit ==
  \A image \in Images : \E i \in DOMAIN image.rom :
    /\ \A j \in 0..i : (j < i) <=> (image.rom[j] \in {DD, FD})
    /\ image.rom[i] = ED => i + 1 \in DOMAIN image.rom
    /\ (image.rom[i] = ED /\ op_ed[image.rom[i + 1]].f \in Copies) =>
         LET g == [r |-> image.r]
             n == Word(g, "BC")
             d == Direction(op_ed[image.rom[i + 1]].f)
         IN /\ i = 0 /\ Word(g, "PC") = 0
            /\ n > 0 /\ image.steps \in 0..(n + 1)
            /\ \A k \in 0..(n - 1) : k < image.steps =>
                 {Word(g, "HL") + (d * k), Word(g, "DE") + (d * k)}
                   \subseteq (0..(MemSize - 1)) \ DOMAIN image.rom
=============================================================================
