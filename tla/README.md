# Specifications of the Master System emulator

TLA+ models of the emulator in this repository, TLC configurations that check
them on small instances, and TLAPS proofs about most of them for every instance.

## 1. The system

The program is a single-threaded C emulator of the SEGA Master System with a
FLTK user interface. `sms-ui/smsui.cxx` runs everything: as long as
`is_clocked` is positive its main loop executes one *half-clock* (a clock edge)
at a time, and each part talks to the others only through global variables that
are named after the pins of the Z80 (`z80/z80_externs.h`).

    z80_tick()                                    every half-clock
    vdp_tick()                                    every second half-clock
    psg_tick()                                    every 32nd half-clock
    io_tick(), rom_tick(), ram_tick()             while MREQ and RD or WR are low
    io_tick(), per_tick(), psg_io()               while IOREQ and RD or WR are low

| Part | State | Operations | Talks to |
|---|---|---|---|
| Z80 core (`z80/z80.c`, `z80_decoder.c`, `z80_interrupt.c`) | `struct z80_s`: stage, tick counters, pipeline indices and buffers, registers; the pins | one half-clock: a case of M1, M2, M3, REFRESH or of an interrupt stage; the boundary | everything, through the pins; SDSC by callback from an M3 cycle; breakpoint callbacks |
| Opcode functions (`z80/z80_opcodes*.c`) | registers and flags | coroutines called by the decoder after each cycle | the core: they return the next stage |
| IO chip (`io/io.c`) | `io_reg`, `io_stat` | port 0x3E; chip enables | gates ROM, BIOS, RAM, peripherals |
| ROM and BIOS (`rom/rom.c`) | two images, three mapper slots | banked read, mapper write | data bus |
| RAM (`ram/ram.c`) | 8K, mirrored | read, write | data bus |
| VDP (`vdp/vdp.c`) | VRAM, CRAM, registers, two-byte control latch, read-ahead buffer, `ioreq_done`, H and V counters | control and data port accesses, counter reads, update | data bus |
| PSG (`psg/psg.c`) | registers, latch, four counters, LFSR, sample accumulator | clock tick with register write; `psg_io` | reads the pins; produces samples |
| Peripheral ports and UART (`peripheral/peripheral.c`) | port registers; bit sampler | port accesses; one sampler step per call | callback with a received byte |
| SDSC console (`sdsc/sdsc.c`) | none that changes | data and control byte | called by the core |
| Savestates (`savestate/`) | none; reads and replaces everybody else's | `ss_save`, `ss_restore` | JSON, base64 |
| Breakpoints (`z80.c`, `smsui.cxx`) | a flag byte per address | set; callbacks stop the clock | core, UI |
| Zed analyser (`sms-ui/zed/`) | worklist, addresses seen, lists of calls and returns | a walk over the program before it runs | ROM image, disassembler |
| Disassembler (`z80dasm/`) | none | decode one instruction: size, kind, targets, text | analyser, debugger |

What is hard here is not threads, of which there are none, but *when* a part
looks at the pins and *how often*. An access keeps a strobe low for several
half-clocks; some devices look at every one of them, the VDP at every second,
the PSG at every 32nd and again on each half-clock of a strobe, and nobody
latches anything but the VDP. Around that, the core is a set of coroutines that
share three tick counters and three indices, and interrupts, wait states and
prefixes may come between any two of their steps. And the user, whose events the
loop looks at after each half-clock, finds the machine in the middle of a bus
cycle whenever he stops it, resets it, saves it or loads another.

### What makes each part correct

| Part | Properties |
|---|---|
| Z80 core | no stage is entered on a count left by another; opcode, reads, writes in this order; the pins depend on cycle and tick alone; a strobe is qualified by one request and what qualifies it holds still; nothing stays low at a boundary; an instruction or an interrupt is one step of the instruction set; instructions end, a pending INT is taken |
| IO chip, ROM, BIOS, RAM | the map a program sees is the one its last writes to port 3E and the mapper select, and never a stale one; indices stay in the images |
| VDP ports | each access acts once whatever its parity and length; a control word is built from two accesses |
| PSG | a register write acts once; counters stay in range; samples come at the requested rate and IO does not disturb them |
| UART | every byte sent is delivered once and unchanged |
| Opcode functions | called again after every byte, they do once what they do; they take operands from their own bytes alone; arithmetic has the flags of integers; a block copy ends with its bytes where they belong |
| Disassembler, Zed analyser | the core goes where the disassembler said; nothing that may follow an instruction is lost; the walk ends |
| Savestates, Base64, JSON | a load that returns has put back the machine that was saved, whatever half-clock it was saved in and wherever the file was cut |
| Breakpoints | an access somebody asked for, and no other, stops the clock |

## 2. Modules

Each component has one module with its state as variables and an action per
case, handler or call; helper operators keep the names of the C code. Pure
functions (`Vdp`, `Z80Alu`, `Z80Opcodes`, `Base64`, `Jsmn`) and tables (`Z80Ops`,
`Z80Decoder`, `Z80Dasm`) have no variables.
Abstract specifications have no pins and no half-clocks.

| Module | Models | Code |
|---|---|---|
| `Z80Ops` | kinds of opcodes: size, prefix, bytes read and written, their space, effect on PC, SP and flip-flops | `z80_opcodes*.c`, the cycle macros of `z80_opcodes.h` |
| `Z80Cycles` | M1, M2, M3, REFRESH, one action per case; the decoder | `z80.c:217-646`, `z80_decoder.c` |
| `Z80Core` | the boundary, INT and NMI, `z80_tick`; the properties and the inductive invariant of the bus | `z80.c:651-711`, `z80_interrupt.c` |
| `Z80Isa` | *abstract:* an instruction or an interrupt is one step on registers and memory | |
| `Z80Memory` | the core and its memory in the main loop; implements `Z80Isa` | `smsui.cxx:250-289`, `ram.c`, `rom.c` |
| `Z80Alu` | flags and arithmetic of bytes and words | `z80_macros.h`, `z80_opcodes_alu8.c`, `_rotshift.c`, `_bit.c` |
| `Z80Opcodes`, `Z80OpcodesLd` | the opcode functions on `struct z80_s`, one call after the other | `z80_opcodes*.c`, `z80_opcodes.h` |
| `Z80Decoder` | the rows of the opcode tables, the arrays made of them, `z80_instruction_decode` | `z80_decoder_tables.csv`, `z80_make_decoder_tables.py`, `z80_decoder.c` |
| `Z80Dasm` | size, kind and targets of each opcode | `z80_dasm.c`, `z80_dasm_tables.csv` |
| `ZedAnalyzer` | the walk over the ROM | `zedeighty.cxx` |
| `Z80Program` | a ROM that is analysed and then run | `smsui.cxx:165`, `z80.c` |
| `Vdp` | `struct vdp_s` and the functions on it | `vdp.c`, `vdp.h` |
| `VdpPorts` | *abstract:* each IN and OUT acts once, in program order | |
| `VdpBus` | the core and `vdp_io` at their dividers; implements `VdpPorts` | `vdp.c:106-207`, `smsui.cxx` |
| `MappedMemory` | *abstract:* what each address shows | |
| `MemoryMap` | `io_tick`, `rom_tick`, `ram_tick`; implements `MappedMemory` | `io.c`, `rom.c`, `ram.c` |
| `Psg` | register writes, counters, sample clock; `psg_io` | `psg.c` |
| `Mailbox` | *abstract:* a line of bytes | |
| `Uart` | the bit sampler and a program that feeds it; implements `Mailbox` | `peripheral.c:94-181` |
| `Base64` | blocks of three bytes and their padding | `b64.c` |
| `Jsmn` | tokens of a sequence of lexemes, taken in strides of many at a time | `jsmn.c` |
| `Savestate` | the text of a machine, and the machine of a text | `savestate-save.c`, `savestate-restore.c` |
| `Session` | the core, breakpoints, and the buttons of the user | `smsui.cxx`, `DialogDebug.cxx`, `z80.c:79-165` |
| `Z80CoreProofs`, `VdpBusProofs`, `Z80MemoryProofs`, `MemoryMapProofs`, `UartProofs`, `PsgProofs`, `SessionProofs`, `Z80ProgramProofs` | proofs: section 6 | |
| `MC...` | instances for TLC | |

### Z80 core

`stage` is `z80.stage`; `m1_tick_count`, `m2_tick_count` and `m3_tick_count`,
`opcode_index`, `read_index`, `write_index`, the buffers and addresses, and
`pc`, `sp`, `iff1`, `iff2`, `int_mode` are the fields of `struct z80_s` of the
same name. `ins` stands for `opcode[]`: not the bytes, but the kind of operation
they will decode to, chosen when the first byte arrives. Registers the opcode
functions only pass through are not modelled: an address or a byte computed from
them may have any value. Both macros that ask for a cycle (`Z80_8BIT_READ` and so
on) become `NeedRead`, `NeedWrite`. `Retire` is what an opcode function does when
it returns `Z80_STAGE_RESET`.

The `switch` of a stage is a disjunction over its tick count. A fall-through or
a tick that adds 3 is one action with that count. Input lines move at any
half-clock (`MoveLine`): nothing in the repository drives them yet. `NDEBUG`
chooses between an assert that stops and one that is compiled out.

### Programs

`Z80Core` knows *when* a byte moves and not what becomes of it; `Z80Program` is
the other half. Its `z` is `struct z80_s` with the whole register file, a stage
is one step, and after each byte `z80_instruction_decode` calls the function of
the opcode, which returns the stage that moves the next byte. A macro that
returns from the middle of a function (`Z80_8BIT_READ` and its like) is an
operator whose last argument is the rest of the function. The flag register is a
set of flags inside a function and a byte in the register file. The rows of
`Z80Decoder` are those of the CSV, from which the build generates the arrays of the code.

The same module has the variables of the analyser: `main` calls `zed::analyze`
once the ROM is loaded, so `phase` is `"done"` before `z` moves. `frontier`,
`hit_address`, `call_entry` and `call_return` are the lists of that name; a
round of its loops is an action.

### Sessions

`Session` is the body of the main loop with everything the user can do between
two half-clocks. `is_clocked` counts half-clocks in the code, and what starts the
clock sets it to 2^64 - 1; here it is 0, 1 or `Forever`. `rest` is what a
savestate holds besides the core, two sets of values that share none. A file is
the machine it was written from and how much of it there is: `Text` writes it
out with `ss_save`, and what `ss_restore` makes of it is computed lexeme by
lexeme, through the parser and the first token of each name. A token's text is
its lexeme: strings, numbers and blobs are not spelled out.

### Main loop

`turn` says who runs next in the body of the loop. `Z80Memory` and `VdpBus`
use the core's own pins; `MemoryMap`, `Psg` and `Uart` replace the core by the
accesses it can make, each of which stays on the pins for as many passes of the
loop as TLC cares to try. That this is how the core behaves, that address, data
and request hold still as long as a strobe is low, is `StrobeHolds` of `Z80Core`.

### History variables

`start`, `shown`, `before`, `mail` and `last` record what the program may
rely on; `count`, `samples` and `elapsed` count what a property speaks of; `at`,
`called` and `origin` remember where an instruction and a program began; `asked`
holds the requests that were made to the breakpoint functions, beside the table
the code keeps of them, and `told` what the callbacks of a cycle said; `loaded`
and `age` say how a file was used. None of them is read by a modelled action, except to bound the run
(`MAX_ACCESSES`, `MAX_SAMPLES`, `left`, `age`).

## 3. Runs

| Run | Instance | Shows |
|---|---|---|
| `bus` | every kind of operation, three input lines, one byte value | the core's bus protocol; instructions end, a pending INT is taken. With one byte value there is one address; what is left is every way through the stages, with WAIT, INT and NMI moving at any half-clock |
| `memory` | two byte values, four addresses, WAIT | reads, writes, block copies, ports and EX (SP),HL implement the instruction set |
| `stack` | the same memory, INT and NMI, CALL, RETN, IM | return addresses of calls and interrupts implement the instruction set |
| `opcodes` | every opcode of every table, arithmetic on edge values, block copies, four programs | the opcode functions agree with themselves, with integers, with the disassembler and with the analysis of the program |
| `session` | a read-modify-write and an IN, four addresses in two pages, breakpoints on memory and on ports, alone and together, files cut at every lexeme | breakpoints stop the clock where somebody asked for it; what a load brings back is what was saved |
| `vdp_ports` | one IN, one OUT, WAIT at any half-clock, three accesses to any ports | the VDP acts once per access, in order |
| `memory_map` | four banks of 8 bytes, RAM of 2 bytes mirrored, one address for each region and each mapper register | accesses implement the map; four settings of port 3E, among them the one that enables cartridge and BIOS together |
| `psg` | one tone of 8 periods and the noise channel | a write acts once; counters; the sample clock |
| `uart` | real sizes, all 256 bytes, 101 and 111 calls a bit | the receiver implements the mailbox |
| `forced_wait`, `psg_rate`, `session_reset` | | violations: section 5 |

Why the bounds are enough. The protocol of the core does not compare data, so
one byte value reaches every half-clock; two values and four addresses tell high
from low bytes, a wrapped SP from one that is not, and the cell written from its
neighbours. The VDP's suppression of repeated looks forgets everything once
IOREQ is high again, so two accesses show every transition and the third shows a
control word followed by a data access; WAIT moves until the last of them has
ended. The map of the memory has four settings
and each slot its own region; every sequence of accesses is explored, with no
bound on its length. A tone and a noise counter run independently of the other
tones. Every other constant of `Psg` and of `Z80Core` is arbitrary in the
proofs. 101 and 111 calls are the slowest drift and the fastest the receiver
survives: at 100 the samples fall a bit late, at 112 a bit early, and every
frame starts the receiver's count anew.

`opcodes` runs each of the 1786 encodings from registers that all differ, with
all flags clear or all set (the two prefixes of index registers with one of
them each), and leaves in `opcode[]` what an earlier instruction would. The
arithmetic runs on all pairs of 0, 1, 15, 127, 128 and 255, with carry and
without: both sides of each edge a flag is about. Block copies move one to three
bytes up and down, apart and overlapping. The programs have loops, calls, a
conditional return, a restart and jumps through registers; eight instructions go
round their loops.

In `session` the memories have 5, 4 and 7 bytes, which leave the same remainders
by three as 8192, 16384 and 4194304 do; `BlobAssumption` is what the end of a
blob needs. `MAX_JSON_TOKENS` is the value of the code. A file written by an
earlier session is loaded at start with each of its 294 cuts, between lexemes or
inside one; a file of this session is whole, saved at a half-clock of any kind
with operands that differ, and loaded at once, after three half-clocks, or
never. Four addresses in two pages are enough for the port of a breakpoint to be
in the page that the table leaves out, where there is a memory breakpoint at the
same address; a third request is for memory and for a port of 16 bits, under
which the fetches and the memory operands must still be told of. Requests that
would overlap in the table are not made: section 5 says what the code does with
them.

In `psg` the clock ratio is 448, three and a half ticks: the fraction matters
and the run stays small. `psg_rate` uses 1298, the ratio of the code (NTSC clock,
22050 Hz).

## 4. Fairness

`FairSpec` of `Z80Core` has weak fairness of `Tick`: `main` calls `z80_tick` in
every pass of its loop as long as `is_clocked` is positive, whatever the devices
do. Nothing is assumed of the board. So a WAIT line that keeps coming back low,
or a program of nothing but prefixes, may hold an instruction up for ever;
`HeldUp` says exactly that, and the liveness properties are stated for the
behaviours where it is false.

`FairSpec` of `Z80Program` has weak fairness of `Analyze`: the loops of
`zed::analyze` run on until they end, and `AnalysisEnds` says that they do. The
program itself is under no obligation.

## 5. Where the code differs from its comments

- **A memory read is slower than an IO read** (`forced_wait`). The test at
  `z80.c:383` sends the read that is *not* IO through the two cases of the forced
  wait; its comment and the counterpart in M3 say the opposite.
- **Samples run fast** (`psg_rate`). `psg.c:210` carries the fraction of the
  ratio but not what the count overran, so a sample comes every 10 ticks instead
  of 10.14. `PsgSamplesRegular` proves it for every ratio: all intervals are
  equal, and rounded down.
- **Reset in mid-cycle** (`session_reset`). The Reset button of the debug window
  clears `struct z80_s`, which the pins are no part of (`DialogDebug.cxx:192`). A
  reset during a write leaves WR low under the next fetch, what `rom.c:70` and
  `ram.c:45` assert never happens; one during an IO access leaves IORQ low.

Differences met while modelling, which the models reproduce and no run is about:

*Core.* An M2 cycle clears `read_is_io` under a forced wait (`z80.c:412`), which
`doc/M2 and M3 stages.txt` lists as unmodified (`ReadKeepsSpace` shows it does no
harm).

*Opcodes.* DJNZ jumps when B is 0 and goes on otherwise (`z80_opcodes_jumps.c:59`).
Rotating (HL) takes the operation from the last byte of `opcode[]`, which is not
its own (`z80_opcodes_rotshift.c:128`; `OwnBytesOnly` excepts it). ADD IX,IX and
ADD IY,IY add HL (`z80_opcodes_alu16.c:90`). OUT (C),0 goes through a null
pointer (`z80_opcodes_ld.c:445`). RRD and RLD do not write memory, DAA throws
its result away, LDI and LDD repeat and LDIR and LDDR clear P, CPIR and CPDR
never repeat.

*Disassembler and analyser.* Two ED loads of four bytes have size 2, and INC and
DEC of half an index register have no row (`z80_dasm.c:65`; `Misjudged` excepts
them from `StepsArePredicted`). RST is not marked as something that comes back
(`z80_dasm.c:1066`), so the code after it is not analysed. The report prints half
of each list (`zedeighty.cxx:143`).

*Savestates.* `io_reg`, from which the next `io_tick` computes `io_stat`, is not
saved, nor are the registers and the control latch of the VDP or the counters
of the PSG: a machine saved between the bytes of a control word takes the
second for a first. A ROM name with a quote or a backslash is not escaped, and
the file does not load. `emu_init` writes the first byte of RAM over and over
(`smsui.cxx:132-134`).

*Breakpoints.* `z80_macros.h:256` offers 16-bit IO addressing, and
`z80dbg_set_breakpoint` marks that address alone (`z80.c:124`), but the stages look IO
up in page 0 (`z80.c:240`, `z80.c:355`): in another page such a breakpoint is never
found, and in page 0 it fires for the port of that low byte in every page.
`BreaksAreReported` says nothing of ports while there is one. A request replaces the
flags at every address it marks, which for an IO breakpoint of 8 bits are 255
(`z80.c:119`): it removes memory breakpoints there, and a memory breakpoint in page 0
removes it. `Session` makes no requests that overlap. A request with flags for memory
and for a port of 8 bits spreads the former too, and leaves page FF out (`z80.c:118`);
`Mixed` excepts it.

*Devices.* `psg_io` takes back what `psg_tick` adds to the sample clock, not what
it does to tone and noise counters, though `psg.h:47` says it does not affect
the clock (`psg.c:226`). A tone register of 0 gives a period of 65536, although
`psg.c:83` calls 3FF the largest; the comment of `psg.c:126` says address bit 7
where the code tests bit 6. At the 100 calls a bit its constant names, the UART
samples each data bit one call too late and takes bit 1 for bit 0
(`peripheral.c:159`); it works for senders one to eleven percent slower. A
program can enable BIOS and cartridge together, which `rom.c:132` asserts never
happens.

## 6. Proofs

TLAPS proves the following for every value of the constants that satisfies the
assumptions named in the modules.

**`Z80CoreProofs`.** From `ByteAssumption` (there is a byte), `OpsAssumption`
(what an operation can be: sizes up to 4, at most two bytes each way, and so on;
TLC evaluates it on the full table) and the assumptions on lines and vectors.
The inductive invariant is `IInv == TypeOK /\ TicksInRange /\ CycleOrder /\
PinsFollowCycle`. None of the bus properties is inductive alone: that nothing
is low at a boundary depends on what each last tick finds low, which depends on
the tick before; that a count is in range depends on which stage could have left
it. `PinsFollowCycle` is the strengthening: it gives the level of every pin and
the contents of the buses for each half-clock of each stage. One lemma per group
of actions shows that it is kept; the properties follow from it without temporal
reasoning, and `StrobeHolds` from it and one step.

**`VdpBusProofs`.** From the same assumptions, `VdpAssumption` (the sizes of the
VDP) and `PortAssumption`: an operation moves at most one byte through a port, in
its last cycle, as all of `Z80Ops` do. That is what leaves the VDP the two
half-clocks of a refresh or a fetch to be armed again. The steps of `VdpBus` are
steps of `Z80Core`, so `IInv` holds there. `HalfClock` reduces a tick to what the
VDP can see of it: an access begins, lasts, ends, or the tick is elsewhere. The
inductive invariant adds to `IInv` the types and `AccessInv`, in three parts.
`Serving`: an access that has not been acted on is in the first two half-clocks
of its strobe, at the parity that makes the next look come in time. `Rearming`:
`ioreq_done` outlives an access by two half-clocks at most, in stages that cannot
begin another. `Accounted`: what is visible of the VDP is what the completed
accesses left, plus the effect of the one in progress if it has been acted on.
None of `ServedInTime`, `RearmedInTime` and `ImplementsPorts` is inductive without
the parity. With it the half-clock that ends an access is the step of `VdpPorts`
(`EndImplements`) and every other one a stutter: `PortsImplemented`. A record
with as many fields as `struct vdp_s` is more than the provers compare at once;
the predicate `Named` and the lemmas `...Fields` take it apart.

**`PsgProofs`.** From `PsgAssumption` and `ClockAssumption` (a sample takes two
ticks or more). `PsgInv` is the type invariant, `WritesOnce` and `SampleClock`.
`SampleClock` says what `clock_current_ratio` is made of: 128 for each tick since
the last sample, the fraction of the ratio, and at most 127 that an earlier carry
left; without it neither the range of the clock nor the interval between samples
is inductive. `PsgSampleClock`, `PsgWritesOnce` and `PsgTypeCorrect` are its parts,
and `PsgSamplesRegular` and `PsgSamplesInTime` follow from it and one step. The registers need that a write is idempotent: `WrittenOnce`.

**`MemoryMapProofs`.** From `MapAssumption`. `MapInv` adds to the types what is
true half way through an access: which registers already have the written byte,
that `io_stat` is the one of this request, and what is on the bus once the chip
has answered. `MapImplemented` is the refinement: every reachable step of
`MemoryMap` is a step of `MappedMemory` or a stutter.

**`Z80MemoryProofs`.** From the assumptions of the core, `EffectAssumption` (what
an operation with a given effect moves: a call writes two bytes and reads none,
and so on; TLC evaluates it on the full table) and `MapAssumption`. The steps of
`Z80Memory` are steps of `Z80Core`, so `IInv` holds there too. `LoopInv` adds
how far the instruction or the interrupt that began at `start` has come: which of
its bytes the buffers hold, which of its writes are in memory, where PC and SP
stand meanwhile. It needs the order of the devices within a turn, because a
write is in memory one turn of the loop after the half-clock that strobes it, and
it needs the pins of `PinsFollowCycle`, because the devices see nothing else.
`IsaImplemented` is the refinement: the half-clock that ends an instruction or an
interrupt is one step of `Z80Isa`, its pushes and pops included, and every other
half-clock and turn is a stutter.

**`UartProofs`.** From `UartAssumption` and `PaceAssumption`, which says at what
paces a frame gets through: at least one call a bit slower than the receiver
samples, and not so slow that the last data bit is still on the line when the
receiver is done. `UartInv` relates two counts that nothing in the code
relates: the calls since the frame began, `slot * period + age - 1`, which only
the program knows, are `rx_tick_count`; the samples taken are as many as slots of
the receiver have begun; and `rx_char` holds the bits of that many samples. None
of the three is inductive without the others. `MailboxImplemented` follows: a byte
is delivered once, unchanged, whatever the number of bits and the length of a
sample. A byte is the function of its bits, so no powers of two are needed.

**`SessionProofs`, the files.** From `BlobAssumption`, `RoomAssumption` (the pool of the
parser, 256 tokens in the code, has room for the 143 of a file), `WidthAssumption`
(a byte has at most 8 bits and two bytes tell the operations apart), `SavesAssumption`
and `CutsAssumption` (of which kinds the arguments of a save are). `LoadsAreWhole` and
`WholeFilesAreLoaded` are about recursive functions of a file, a fold inside a parser
inside a search, and no induction theorem can be used; each recursive function is given
its defining equation by least counterexample (`Least`), and what it computes is then
shown part by part along the text that `ss_save` writes:

1. *Parsing.* `Reads` says which tokens the parser is left with after a text, and
   how many each open object counts. A member, a list of members, an object and the file
   are parsed each from its parts (`Tells`, `Lists`, `OpeningReads`), wherever in the
   pool they come.
2. *Finding.* The first token of each name is followed by the value written for it
   (`Heard`), although names are looked up across all objects.
3. *Cuts.* A file cut anywhere ends before the name of its ROM, between that and its
   value, or after it (`FileEnds`). In the first two cases the tokens hold no ROM and the
   restore stops at its assertion (`LowIsSilent`, `MidIsSilent`); in the third they tell the
   whole machine, for a token that is left of a cut lexeme comes last (`FileTokens`). A
   ROM name that cannot be escaped is the exception that `WholeFilesLoad` names too.
4. *Base64.* Four letters give back the three bytes they were made of, and the blocks
   the memory (`BlobsComeBack`).
5. *Widths.* What the core and the devices hold fits the variable it is cast to
   (`CoreSaved`), and the numbers of the stage and of the opcode bytes tell the core's stages
   and operations apart (`CoreBack`).

The inductive invariant `WholeInv` carries the last through the session, in files too
(`Good`): of the core it needs `TypeOK`, `TicksInRange` and `CycleOrder`, which unlike
the order of the pins survive a reset in mid-cycle.

**`SessionProofs`, the breakpoints.** From the same, `OpsAssumption`,
`FiniteOpsAssumption` and `PagesAssumption` (there is more than one page). The property
compares what was told with what was asked for (`PcAsked`, `MemAsked`, `IoAsked`), and
says nothing of the code's table; the proof goes through it. `TableInv`: the table holds
the flags of the requests that mark an address, and no others. `FoundIsAsked`: so what
the stages find is what was asked for, although ports are looked up in page 0 and the
last page is not marked, unless a request mixes the two or asks for a port of 16 bits.
`SessionInv` is the order of the core's pipeline (`PipelineInOrder`), what was told
since the cycle began, in terms of what the stages find (`Watched`), and that a machine
in a file is one the core can be in (`Sound`). It says nothing of pins: a reset or a
load in mid-cycle leaves any level on them (section 5), so the invariant of the core is
lost in a session, and what is left must be enough. `BreaksReported` uses
`LoadsAreWhole` for what a load leaves.

**`Z80ProgramProofs`, the analyser.** From `TablesAreComplete` (the asserts of the
decoder, which TLC evaluates on the tables), `StartAssumption` and
`ImagesAssumption` (a ROM is a file of bytes). Every row of the disassembler's tables says something
definite of an instruction (`DecodedOps`): a call names its target, a return goes
on or where the stack says. `ZedInv` then says of the walk that what may follow an
address that was looked at has been looked at, waits, or is out of range;
nothing else has been; and the lists have the entries they should.
`UniqueIsExact` shows that `sort()` and the loop after it keep the set and leave
no repeat, by counting (`Ranks`), since induction over the list is out of reach.
`WalkClosed` and `ListsExact` are parts of the invariant.

**`Z80ProgramProofs`, the program.** From the same, `MemSizeAssumption`,
`PortAssumption` (a port gives a byte) and `NullEntryAvoided`: no row of the tables
but that of OUT (C) goes through the null entry of `z80_r`, which TLC evaluates on
all of them. The inductive invariant is `CoreInv`, in three parts. `Bytewise`: memory
holds bytes, the ROM from 0 and RAM behind it. `Going`: the registers are bytes
(`Sane`), and what a stage finds is what the function that asked for it left:
while an opcode byte is due there is room for it (`Short`), and while a byte is
read or written the function is one that is called with all its opcode bytes
there and has room for the byte (`Ready`). It is not inductive without saying
which function comes back: each starts again from its first line with one byte
more, and only the pair of function and counters tells that it asks for no third.
One lemma per family of opcode functions says what a call with the counters at
any value does (`Executed` sums them up), and one per table which sizes and names
its rows have. `Tracks`: the bytes latched so far are those of the ROM at the
address where the instruction began, and PC stands behind them. `BuffersAreEnough`
is a part of the invariant. `StepsPredicted` needs one thing more, the comparison
of the two decoders: a row of the core's tables and the row of the disassembler's
for the same bytes have the same length, and the function of the first leaves PC
where the second says (`SameRow`, `RowLeads`, `Foretells`). `StaysWhereAnalysed`
combines that with the invariant of the walk; it has no hypothesis.

**`Z80ProgramProofs`, the calls.** The invariant on top of `CoreInv` is `CallInv`: as long
as a byte is asked for, registers and interrupt flip-flops are those of the first call;
once none is, they are what a single call makes of the first state with all bytes
moved. It rests on what two calls of a function have in common, one lemma per family
of functions (`AllMatch` sums them up): called with the same registers, the same
read buffer and the same first `Looks(f)` bytes of the instruction, the second time
with all bytes moved, either the first call asks for a byte and changes nothing, or
both end alike. That is false of LDIR and LDDR: they clear P whether or not
a byte is still missing, so from one call to the next P may differ, and the invariant
says so (`Near`); both set P from BC when they are done, and `CopyNear` shows that the
difference does not survive. `ReplayHarmless` is a part of the invariant. `OwnBytes` adds
that no function looks at more bytes than its row says the instruction has, but the one
that rotates (HL) (`LooksAtOwn`). `AluRight` needs the invariant to know which call left A
and F, that flags put into F come back out of it (`FlagsReturn`), and one lemma
per operation on bytes that compares each flag macro with arithmetic without a width.

**`Z80ProgramProofs`, the block copies.** `BlockCopies` has the hypothesis `CopiesFit`, which
says what the property needs of the programs: that one which begins with a block copy
has a count other than 0 and copies within RAM, not into the image and not past either
end of memory, and has at most one instruction behind the copy; any other begins with
something else. TLC evaluates it on the programs of the run (`ProgramsFit`). The
invariant on top of `CoreInv` is `BlockInv`: a program with a copy is some number k of rounds into it, or
past it. Then BC, HL and DE have been counted k times, memory is that of k rounds, and
PC is back at the copy if a byte is left; within a round, the byte read is the one at
HL and the byte written goes to DE. One call of each of the four functions is `Round`:
it asks for a byte, gives one, or counts (`CopyExecuted`). That a recursive function has the
values its definition says (`CopiedIs`) is proved by least counterexample (`Inductive`),
which needs no induction theorem.

Every invariant and every safety property of the runs is stated by a theorem. Only
model-checked: the liveness properties `InstructionsEnd`, `PendingIntEnds` and
`AnalysisEnds`, which are out of the prover's reach.

## 7. Not modelled

- `make_sample`, the LFSR position, and a change of the sample rate while it
  runs; the tables in `psg_constants.h`: 5500 lines of data that only the sound
  of a sample depends on.
- Drawing (`vdp_mode4.c`, `vdp_render.c`, `WidgetVdp.cxx`): functions of the VRAM
  that change no emulator state.
- Which chip answers which of the 256 ports. Each chip decodes the address for
  itself, as its module says; the repository has no list to compare the sum with.
- The widgets that show and edit values, the text of the disassembler, logging
  and dumps, the WAV player, the hook of `z80_debug.c` nobody calls, the reading
  of images from files, and Unity.

## 8. Plan

Done, in this order: the core with the proofs of its bus protocol; the devices,
most intricate first; opcode functions, decoder, disassembler and analyser, run
together; savestates and breakpoints under the user's buttons; the proofs that
the VDP implements its ports, the loop its instruction set and the receiver its
mailbox; the proofs about breakpoints, about the analyser and about the opcode
functions under any program, called again or not; the proof that loads are whole.
What is left:

1. The 16-bit sums, INC and DEC compared with arithmetic without a width, as `AluRight`
   compares the sums of bytes.
