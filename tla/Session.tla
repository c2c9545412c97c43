------------------------------- MODULE Session -------------------------------
(***************************************************************************)
(* The emulator under its user: the loop of sms-ui/smsui.cxx and the       *)
(* buttons of sms-ui/DialogDebug.cxx. The user starts and stops the clock, *)
(* resets the Z80, saves and loads a state between any two half-clocks,    *)
(* and the breakpoints of z80/z80.c stop the clock from inside a tick.     *)
(*                                                                         *)
(* The core is Z80Core; its input lines are moved by nobody but a load.    *)
(* What else a savestate holds is a record of known values that an         *)
(* instruction may change as a whole.                                      *)
(***************************************************************************)
EXTENDS Z80Core, Savestate

CONSTANTS
  Requests,      \* <<address, flags>> of z80dbg_set_breakpoint
  Saves,         \* the rom_name of a save, NoName for the user interface, and the
                 \* bytes that follow the arrays in memory
  Cuts,          \* how many lexemes an incomplete file may have, and TRUE for a
                 \* piece of the next one
  Operands,      \* PC, SP, addresses and bytes of the operands of a machine worth saving
  Lags           \* how many half-clocks after the save a file is loaded

ASSUME FiniteOpsAssumption == IsFiniteSet(Ops)

\* A byte has 8 bits or less, and two bytes tell the instructions apart.
ASSUME WidthAssumption == BYTE <= 256 /\ Cardinality(Ops) < 65536

ASSUME SavesAssumption == \A save \in Saves : save[2] \in 0..255
ASSUME CutsAssumption  == Cuts \subseteq Nat \X BOOLEAN

Flags == {"PC", "RD", "WR", "IO_RD", "IO_WR", "IO_16B"}
ASSUME RequestsAssumption == Requests \subseteq Word \X SUBSET Flags

\* An IO breakpoint of 8 bits is set in every page but the last: there is another one.
ASSUME PagesAssumption == BYTE > 1

VARIABLES
  turn,          \* who runs next in the body of the loop
  is_clocked,
  breakpoints,   \* z80_breakpoints
  asked,         \* history: the requests of z80dbg_set_breakpoint since the table was cleared
  rest,          \* what a savestate holds besides the core
  file,          \* the file on the disk: the machine it was written from, how, how much
  told,          \* history: callbacks since the machine cycle began
  age,           \* history: half-clocks since the file was written
  loaded         \* history: the last step was a load

sessionVars == <<turn, is_clocked, breakpoints, asked, rest, file, told, age, loaded>>

\* UINT64_MAX half-clocks, which nobody waits for. One less than 0 wraps to it.
Forever == 2
Decremented(n) == IF n = 1 THEN 0 ELSE Forever

NoFile    == [kept |-> <<>>]
Unwatched == {<<"unwatched", 0>>}     \* the cycle was not seen from its start
-----------------------------------------------------------------------------
(***************************************************************************)
(* The machine a savestate is made of.                                     *)
(***************************************************************************)
StageNames == <<"RESET", "M1", "M2", "M3", "REFRESH", "M1_INT", "M2_INT", "M3_INT",
                "M1_NMI", "M2_NMI", "M3_NMI">>
StageNumber(s) == (CHOOSE i \in DOMAIN StageNames : StageNames[i] = s) - 1

\* The bytes of opcode[] tell the instructions apart.
Code == CHOOSE f \in [Ops \cup {NoOp} -> 0..Cardinality(Ops)] : IsInjective(f)
Encoding(op) ==
  [i \in 0..3 |-> ((IF i = 0 THEN Code[op] ELSE Code[op] \div 256) + i) % 256]

\* In a refresh the address is that of I and R; that I follows R by a half-clock
\* is left out.
Bus == IF address = RefreshAddress THEN (256 * rest["i"] + rest["r"]) % WORD ELSE address

Core ==
  [sp |-> sp, pc |-> pc, iff1 |-> iff1, iff2 |-> iff2, int_mode |-> int_mode,
   opcode_index |-> opcode_index, opcode |-> Encoding(ins), stage |-> StageNumber(stage),
   m1_tick |-> m1_tick_count, m2_tick |-> m2_tick_count, m3_tick |-> m3_tick_count,
   read_address |-> read_address, read_buffer |-> read_buffer, read_index |-> read_index,
   read_is_io |-> read_is_io, write_address |-> write_address, write_buffer |-> write_buffer,
   write_index |-> write_index, write_is_io |-> write_is_io, data |-> data,
   address |-> Bus, n_rd |-> n_rd, n_wr |-> n_wr, n_ioreq |-> n_ioreq,
   n_mreq |-> n_mreq, n_rfsh |-> n_rfsh, n_m1 |-> n_m1, n_int |-> n_int, n_nmi |-> n_nmi,
   n_wait |-> n_wait]

With(core, others) ==
  [name \in DOMAIN core \cup DOMAIN others |->
     IF name \in DOMAIN core THEN core[name] ELSE others[name]]
Machine == With(Core, rest)

\* Registers, chips and memories, no two values alike.
Elsewhere == <<"af", "bc", "de", "hl", "afp", "bcp", "dep", "hlp", "i", "r", "ix", "iy",
               "slot0", "slot1", "slot2", "io_stat", "control", "ab", "bm", "data_latch",
               "n_reset", "n_busreq", "n_busack">>
Bytes(n, seed) == [i \in 0..(n - 1) |-> (37 * (i + 1) + 101 * seed) % 256]
Rest(seed) ==
  With([name \in ToSet(Elsewhere) |->
          LET i == CHOOSE j \in DOMAIN Elsewhere : Elsewhere[j] = name
          IN IF name \in Wide THEN 65535 - 2 * i - seed ELSE 255 - 2 * i - seed],
       [volume |-> [i \in 0..3 |-> 4 * seed + i], tone |-> [i \in 0..3 |-> 1000 + 10 * seed + i],
        ram |-> Bytes(RAM_BYTES, seed), vram |-> Bytes(VRAM_BYTES, seed + 1),
        rom |-> Bytes(ROM_BYTES, seed + 2)])

CoreBecomes(m) ==
  /\ stage' = StageNames[m["stage"] + 1]
  /\ m1_tick_count' = m["m1_tick"] /\ m2_tick_count' = m["m2_tick"] /\ m3_tick_count' = m["m3_tick"]
  /\ opcode_index' = m["opcode_index"]
  /\ read_index' = m["read_index"] /\ write_index' = m["write_index"]
  /\ read_is_io' = m["read_is_io"] /\ write_is_io' = m["write_is_io"]
  /\ read_address' = m["read_address"] /\ write_address' = m["write_address"]
  /\ read_buffer' = m["read_buffer"] /\ write_buffer' = m["write_buffer"]
  /\ ins' = CHOOSE op \in Ops \cup {NoOp} : Encoding(op) = m["opcode"]
  /\ pc' = m["pc"] /\ sp' = m["sp"] /\ iff1' = m["iff1"] /\ iff2' = m["iff2"]
  /\ int_mode' = m["int_mode"]
  /\ n_m1' = m["n_m1"] /\ n_rfsh' = m["n_rfsh"] /\ n_mreq' = m["n_mreq"]
  /\ n_ioreq' = m["n_ioreq"] /\ n_rd' = m["n_rd"] /\ n_wr' = m["n_wr"]
  /\ address' = m["address"] /\ data' = m["data"]
  /\ n_wait' = m["n_wait"] /\ n_int' = m["n_int"] /\ n_nmi' = m["n_nmi"]
-----------------------------------------------------------------------------
(***************************************************************************)
(* The file.                                                               *)
(***************************************************************************)
Whole == <<0, FALSE>>
Written(m, name, beyond, kept) == [of |-> m, name |-> name, beyond |-> beyond, kept |-> kept]

\* A file that was cut short ends in a string without its quote, a number without
\* its last digit, or between two lexemes.
Piece(x) == CASE x.kind = "string" -> <<Unclosed>>
              [] x.kind = "number" -> <<Num(x.number \div 10)>>
              [] OTHER -> <<>>
Text(f) ==
  LET text == ss_save(f.of, f.name, f.beyond)
      n    == f.kept[1]
  IN IF f.kept = Whole \/ n >= Len(text) THEN text
     ELSE SubSeq(text, 1, n) \o (IF f.kept[2] THEN Piece(text[n + 1]) ELSE <<>>)

\* A complete file has neither been cut nor stopped the parser on the way.
Complete(f) == f.kept = Whole /\ f.name # "unescapable"

SessionInit ==
  /\ Init
  /\ turn = "boot" /\ is_clocked = 0
  /\ breakpoints = [a \in Word |-> {}] /\ asked = {}
  /\ rest = Rest(0)
  /\ file = NoFile
  /\ told = Unwatched /\ age = 0 /\ loaded = FALSE

\* The machine becomes the one in the file, or an assertion fails on the way.
ss_restore(f) ==
  /\ \E tokens \in {jsmn_parse(Text(f)).tokens} :
       IF Restorable(tokens)
       THEN \E m \in {Restored(tokens, Machine)} :
              CoreBecomes(m) /\ rest' = [name \in DOMAIN rest |-> m[name]]
       ELSE /\ stage' = "ABORTED"
            /\ UNCHANGED <<ticks, pipe, regs, control, address, data, inputs, rest>>
  /\ told' = Unwatched /\ loaded' = TRUE

\* emu_init asks for a ROM, or for a savestate: here one of an earlier session.
load_rom ==
  /\ turn = "boot" /\ turn' = "z80"
  /\ UNCHANGED <<vars, is_clocked, breakpoints, asked, rest, file, told, age, loaded>>

restore_state ==
  /\ turn = "boot" /\ turn' = "z80"
  /\ \E cut \in Cuts : LET found == Written(With(Core, Rest(1)), NoName, 0, cut)
                        IN ss_restore(found) /\ file' = found
  /\ age' = 1 + Max(Lags)
  /\ UNCHANGED <<is_clocked, breakpoints, asked>>
-----------------------------------------------------------------------------
(***************************************************************************)
(* A half-clock: the core, then whoever finds itself selected.             *)
(***************************************************************************)

\* The breakpoint callbacks of this tick: z80_reset_pipeline, and the first case
\* of z80_stage_m2 and z80_stage_m3. IO breakpoints are looked up in page 0.
HitsFault ==          \* memory is looked up in page 0 as well
  CASE stage = "RESET" -> { <<"pc", a>> : a \in {b \in {pc} : "PC" \in breakpoints[b]} }
    [] stage = "M2" /\ m2_tick_count = 0 ->
         IF read_is_io = 1
         THEN { <<"io", a>> : a \in {b \in {read_address} : "IO_RD" \in breakpoints[Lo(b)]} }
         ELSE { <<"mem", a>> : a \in {b \in {read_address} : "RD" \in breakpoints[Lo(b)]} }
    [] stage = "M3" /\ m3_tick_count = 0 ->
         IF write_is_io = 1
         THEN { <<"io", a>> : a \in {b \in {write_address} : "IO_WR" \in breakpoints[Lo(b)]} }
         ELSE { <<"mem", a>> : a \in {b \in {write_address} : "WR" \in breakpoints[Lo(b)]} }
    [] OTHER -> {}

Hits ==
  CASE stage = "RESET" -> { <<"pc", a>> : a \in {b \in {pc} : "PC" \in breakpoints[b]} }
    [] stage = "M2" /\ m2_tick_count = 0 ->
         IF read_is_io = 1
         THEN { <<"io", a>> : a \in {b \in {read_address} : "IO_RD" \in breakpoints[Lo(b)]} }
         ELSE { <<"mem", a>> : a \in {b \in {read_address} : "RD" \in breakpoints[b]} }
    [] stage = "M3" /\ m3_tick_count = 0 ->
         IF write_is_io = 1
         THEN { <<"io", a>> : a \in {b \in {write_address} : "IO_WR" \in breakpoints[Lo(b)]} }
         ELSE { <<"mem", a>> : a \in {b \in {write_address} : "WR" \in breakpoints[b]} }
    [] OTHER -> {}

CycleBegins ==
  \/ stage = "RESET"
  \/ stage = "M1" /\ m1_tick_count = 0
  \/ stage = "M2" /\ m2_tick_count = 0
  \/ stage = "M3" /\ m3_tick_count = 0

BreakpointFault(n) == 0            \* the callback stops the clock at once
Breakpoint(n) == 1                 \* emu_pc_breakpoint_cb and its like

\* A file is loaded one of Lags half-clocks after it was saved, or never.
Older ==
  IF file # NoFile /\ \E l \in Lags : l > age THEN age' = age + 1 /\ UNCHANGED file
  ELSE age' = 0 /\ file' = NoFile

CpuTurn ==
  /\ turn = "z80" /\ is_clocked # 0
  /\ Tick
  /\ turn' = "devices"
  /\ is_clocked' = IF Hits = {} THEN is_clocked ELSE Breakpoint(is_clocked)
  /\ told' = IF CycleBegins THEN Hits ELSE told
  /\ Older
  /\ loaded' = FALSE
  /\ UNCHANGED <<breakpoints, asked, rest>>

\* rom_tick and ram_tick assert that who reads is not writing. At the end of an
\* instruction the registers and chips may be found changed (bound: to the
\* values of Rest(1) only while there is a file that remembers the others).
Asserted == NDEBUG \/ ~(n_mreq = 0 /\ n_rd = 0 /\ n_wr = 0)

DevicesTurn ==
  /\ turn = "devices" /\ turn' = "z80"
  /\ stage' = IF Asserted THEN stage ELSE "ABORTED"
  /\ data' \in IF n_rd = 0 /\ (n_mreq = 0 \/ n_ioreq = 0) THEN Byte ELSE {data}
  /\ rest' \in IF stage # "RESET" THEN {rest} ELSE IF file = NoFile THEN {Rest(0)} ELSE {Rest(0), Rest(1)}
  /\ is_clocked' = Decremented(is_clocked)
  /\ UNCHANGED <<ticks, pipe, regs, control, address, inputs, breakpoints, asked, file,
                 told, age, loaded>>
-----------------------------------------------------------------------------
(***************************************************************************)
(* The user, whose events the loop looks at after a half-clock and while   *)
(* the clock stands, and the client of the debug functions.                *)
(***************************************************************************)
Idle == turn = "z80" /\ stage # "ABORTED"

onDebugStart ==
  /\ Idle
  /\ is_clocked' = IF is_clocked # 0 THEN 0 ELSE Forever
  /\ loaded' = FALSE
  /\ UNCHANGED <<vars, turn, breakpoints, asked, rest, file, told, age>>

\* memset of struct z80_s. The pins are no part of it.
onDebugReset ==
  /\ Idle
  /\ stage' = "RESET"
  /\ m1_tick_count' = 0 /\ m2_tick_count' = 0 /\ m3_tick_count' = 0
  /\ opcode_index' = 0 /\ read_index' = 0 /\ write_index' = 0
  /\ read_is_io' = 0 /\ write_is_io' = 0 /\ read_address' = 0 /\ write_address' = 0
  /\ read_buffer' = [i \in 0..1 |-> 0] /\ write_buffer' = [i \in 0..1 |-> 0]
  /\ ins' = NoOp
  /\ pc' = 0 /\ sp' = 0 /\ iff1' = 0 /\ iff2' = 0 /\ int_mode' = 0
  /\ told' = Unwatched /\ loaded' = FALSE
  /\ UNCHANGED <<control, address, data, inputs, turn, is_clocked, breakpoints, asked, rest,
                 file, age>>

\* Bounds: at a stop, without breakpoints, with operands that differ.
WorthSaving ==
  /\ is_clocked = 0
  /\ \A a \in Word : breakpoints[a] = {}
  /\ <<pc, sp, read_address, write_address, read_buffer[0], write_buffer[0]>> \in Operands

\* A new save replaces a file that nobody is going to load.
onFileSaveState ==
  /\ Idle /\ file = NoFile /\ WorthSaving
  /\ \E save \in Saves : file' = Written(Machine, save[1], save[2], Whole)
  /\ age' = 0 /\ loaded' = FALSE
  /\ UNCHANGED <<vars, turn, is_clocked, breakpoints, asked, rest, told>>

onFileLoadState ==
  /\ Idle /\ file # NoFile /\ age \in Lags
  /\ ss_restore(file)
  /\ UNCHANGED <<turn, is_clocked, breakpoints, asked, file, age>>

\* An IO breakpoint of 8 bits goes to each page but the last, any other to its address.
EightBit(request) == request[2] \cap {"IO_RD", "IO_WR"} # {} /\ "IO_16B" \notin request[2]
Marked(b, request) == IF EightBit(request)
                      THEN Lo(b) = Lo(request[1]) /\ b - Lo(b) < WORD - BYTE
                      ELSE b = request[1]

\* Bounds: no request that replaces what another one left in the table, none while a
\* file waits to be loaded.
z80dbg_set_breakpoint ==
  /\ Idle /\ file = NoFile
  /\ \E request \in Requests :
       /\ \A b \in Word : Marked(b, request) => breakpoints[b] = {}
       /\ breakpoints' = [b \in Word |->
            IF Marked(b, request) THEN request[2] ELSE breakpoints[b]]
       /\ asked' = asked \cup {request}
  /\ told' = Unwatched /\ loaded' = FALSE
  /\ UNCHANGED <<vars, turn, is_clocked, rest, file, age>>

z80dbg_clear_breakpoints ==
  /\ Idle
  /\ breakpoints' = [a \in Word |-> {}] /\ asked' = {}
  /\ told' = Unwatched /\ loaded' = FALSE
  /\ UNCHANGED <<vars, turn, is_clocked, rest, file, age>>

User == onDebugStart \/ onDebugReset \/ onFileSaveState \/ onFileLoadState
Client == z80dbg_set_breakpoint \/ z80dbg_clear_breakpoints

Boot == load_rom \/ restore_state

SessionNext == Boot \/ CpuTurn \/ DevicesTurn \/ User \/ Client

SessionSpec == SessionInit /\ [][SessionNext]_<<vars, sessionVars>>
-----------------------------------------------------------------------------
(***************************************************************************)
(* Properties.                                                             *)
(***************************************************************************)

\* A load that returns has put back a machine, and the whole one that was saved,
\* mid-cycle pins included, whatever it found in its place and wherever the file was cut
\* (savestate-restore.c:348-385): a part of one is never taken for a machine.
\* A file with a rom_name leaves the ROM to the user.
LoadIsWhole ==
  loaded /\ stage # "ABORTED" =>
    /\ TypeOK
    /\ \A name \in DOMAIN Machine :
         (name = "rom" /\ file.name # NoName) \/ Machine[name] = file.of[name]

\* A complete file loads: each name is found, by the first token that bears it,
\* among all the objects (savestate-restore.c:39-58), and no assertion fails.
WholeFilesLoad == loaded /\ Complete(file) => stage # "ABORTED"

\* Who asked for a breakpoint at the address of this cycle, in the words of
\* z80_macros.h:251-255: for a port of 8 bits, if the low bytes agree.
PcAsked(a)        == \E request \in asked : "PC" \in request[2] /\ request[1] = a
MemAsked(a, flag) == \E request \in asked : flag \in request[2] /\ request[1] = a
IoAsked(a, flag)  ==
  \E request \in asked : flag \in request[2] /\ Lo(request[1]) = Lo(a)

Call(kind, a, wanted) == IF wanted THEN { <<kind, a>> } ELSE {}
ReadCall  == IF ins.rio = 1 THEN Call("io", address, IoAsked(address, "IO_RD"))
                            ELSE Call("mem", address, MemAsked(address, "RD"))
WriteCall == IF ins.wio = 1 THEN Call("io", address, IoAsked(address, "IO_WR"))
                            ELSE Call("mem", address, MemAsked(address, "WR"))

\* A request that asks for a port of 8 bits and for memory at once is spread with all
\* its flags, and one for a port of 16 bits is not looked up where it is set.
Mixed(request) == EightBit(request) /\ ~(request[2] \subseteq {"IO_RD", "IO_WR"})
PortsByLowByte == \A request \in asked : "IO_16B" \notin request[2]

\* Of every fetch of an instruction and every operand cycle that a request asks for the
\* callback was told by the time the address is on the bus, and of no other, whatever
\* stops, resets and loads came between (z80.c:227-231, 239-248, 354-363): also of a
\* port whose page the table leaves out (z80.c:118), for page 0 is where it is looked
\* up. Of ports nothing is said while there is a breakpoint on one of 16 bits.
BreaksAreReported ==
  told # Unwatched /\ (\A request \in asked : ~Mixed(request)) =>
    /\ stage = "M1" /\ opcode_index = 0 /\ m1_tick_count \in 2..4 =>
         told = Call("pc", address, PcAsked(address))
    /\ stage = "M2" /\ m2_tick_count > 0 /\ (ins.rio = 1 => PortsByLowByte) =>
         told = ReadCall
    /\ stage = "M3" /\ m3_tick_count > 0 /\ (ins.wio = 1 => PortsByLowByte) =>
         told = WriteCall

\* A callback stops the loop after the half-clock it came from: the decrement of
\* is_clocked that follows it (smsui.cxx:283) ends at 0 and does not wrap.
BreakStops ==
  [][turn = "devices" /\ told # Unwatched /\ told # {} /\ is_clocked # Forever
       => is_clocked' = 0]_<<vars, sessionVars>>

(***************************************************************************)
(* What an assertion says, and the buttons of the user can bring about.    *)
(***************************************************************************)

\* rom.c:70 and ram.c:45 assert it: what is being read is not being written.
ReaderIsNotWriter == turn = "devices" => ~(n_mreq = 0 /\ n_rd = 0 /\ n_wr = 0)
=============================================================================
