-------------------------------- MODULE Psg --------------------------------
(***************************************************************************)
(* The sound generator (psg/psg.c): register writes, tone and noise        *)
(* counters, the clock that produces samples.                              *)
(*                                                                         *)
(* The main loop calls psg_tick at the PSG's own rate and psg_io on every  *)
(* half-clock an IO strobe is low; both find a register write by looking   *)
(* at the pins, so one write is seen several times. psg_io runs psg_tick   *)
(* with the sample clock set back by one tick.                             *)
(*                                                                         *)
(* What a sample sounds like (make_sample, the volume and LFSR tables) is  *)
(* left out.                                                               *)
(***************************************************************************)
EXTENDS Integers

CONSTANTS
  CLOCK_RATIO,   \* clock_ratio, set once by psg_set_rate
  WRAP,          \* 2^32, where clock_current_ratio wraps
  LOW, HIGH,     \* values of the low and high part of a tone register, 16, 64
  COUNTER,       \* 2^16, where a tone counter wraps
  TONES,         \* number of tone channels, 3; the noise channel follows them
  NoisePeriod,   \* <<0x10, 0x20, 0x40>>
  Writes,        \* the bytes the program writes to the PSG
  MAX_SAMPLES    \* bound: where elapsed and samples stop

NOISE == TONES

LatchByte == [kind : {"volume", "tone"}, reg : 0..NOISE, value : 0..(LOW - 1)]
DataByte  == [kind : {"data"}, value : 0..(HIGH - 1)]

ASSUME PsgAssumption ==
  /\ LOW \in Nat \ {0} /\ HIGH \in Nat \ {0} /\ TONES \in Nat \ {0}
  /\ COUNTER \in Nat /\ COUNTER > 1 /\ COUNTER >= LOW * HIGH
  /\ NoisePeriod \in [1..3 -> 1..(COUNTER - 1)]
  /\ Writes \subseteq LatchByte \cup DataByte
  /\ MAX_SAMPLES \in Nat \ {0}

\* A sample takes two ticks or more, as at any audible rate.
ASSUME ClockAssumption ==
  CLOCK_RATIO \in Nat /\ CLOCK_RATIO >= 256 /\ WRAP \in Nat /\ WRAP > CLOCK_RATIO + 256

VARIABLES
  registers,             \* selected_reg, selected_reg_type, vol and tone
  tone_counter, channel_polarity,
  clock_current_ratio,
  access,                \* the IO access on the pins
  \* history
  before,                \* registers when the access began
  seen,                  \* the access has been looked at
  since,                 \* psg_ticks since the last sample
  elapsed, samples       \* psg_ticks up to the last sample, and samples

voice == <<tone_counter, channel_polarity>>
clock == <<clock_current_ratio, since, elapsed, samples>>
vars  == <<registers, voice, clock, access, before, seen>>

Channels  == 0..NOISE
Tone      == [low : 0..(LOW - 1), high : 0..(HIGH - 1)]
Period(t) == t.low + LOW * t.high

Registers == [selected_reg : Channels, selected_reg_type : {"volume", "tone"},
              vol : [Channels -> 0..(LOW - 1)],
              tone : [0..(TONES - 1) -> Tone], noise : 0..7]

Quiet == [kind |-> "none"]     \* no IO access
Other == [kind |-> "other"]    \* one that is not a write to the PSG

Init ==
  /\ registers = [selected_reg |-> 0, selected_reg_type |-> "tone",
                  vol |-> [c \in Channels |-> LOW - 1],
                  tone |-> [c \in 0..(TONES - 1) |-> [low |-> LOW - 1, high |-> HIGH - 1]],
                  noise |-> 7]
  /\ tone_counter = [c \in Channels |-> 1]
  /\ channel_polarity = [c \in Channels |-> 1]
  /\ clock_current_ratio = 0
  /\ access = Quiet /\ before = registers /\ seen = FALSE
  /\ since = 0 /\ elapsed = 0 /\ samples = 0
-----------------------------------------------------------------------------
(***************************************************************************)
(* psg_tick: the register write on the pins, the counters, the sample      *)
(* clock.                                                                  *)
(***************************************************************************)
Latched(r, b) ==
  LET s == [r EXCEPT !.selected_reg = b.reg, !.selected_reg_type = b.kind] IN
  IF b.kind = "volume" THEN [s EXCEPT !.vol[b.reg] = b.value]
  ELSE IF b.reg = NOISE THEN [s EXCEPT !.noise = b.value % 8]
  ELSE [s EXCEPT !.tone[b.reg] = [low |-> b.value, high |-> @.high]]

ExtendedFault(r, b) ==           \* the bits are shifted in
  LET c == r.selected_reg IN
  IF r.selected_reg_type = "volume" THEN [r EXCEPT !.vol[c] = b.value % LOW]
  ELSE IF c = NOISE THEN [r EXCEPT !.noise = b.value % 8]
  ELSE [r EXCEPT !.tone[c] = [low |-> b.value % LOW, high |-> @.low % HIGH]]

Extended(r, b) ==
  LET c == r.selected_reg IN
  IF r.selected_reg_type = "volume" THEN [r EXCEPT !.vol[c] = b.value % LOW]
  ELSE IF c = NOISE THEN [r EXCEPT !.noise = b.value % 8]
  ELSE [r EXCEPT !.tone[c] = [low |-> @.low, high |-> b.value]]

Written(r, b) ==
  CASE b.kind \in {"volume", "tone"} -> Latched(r, b)
    [] b.kind = "data"               -> Extended(r, b)
    [] OTHER                         -> r

Reload(r, c) ==
  IF c # NOISE THEN Period(r.tone[c])
  ELSE IF r.noise % 4 = 3 THEN Period(r.tone[NOISE - 1])
  ELSE NoisePeriod[(r.noise % 4) + 1]

LessFault(n) == n - 1                                     \* a signed counter
Less(n)      == IF n = 0 THEN COUNTER - 1 ELSE n - 1      \* --, 16 bits

Count(r) ==
  /\ tone_counter' = [c \in Channels |-> IF Less(tone_counter[c]) = 0 THEN Reload(r, c)
                                         ELSE Less(tone_counter[c])]
  /\ channel_polarity' = [c \in Channels |-> IF Less(tone_counter[c]) = 0
                            THEN 1 - channel_polarity[c] ELSE channel_polarity[c]]

Carry(total) == (total % 128) + (CLOCK_RATIO % 128)

\* ticks is 1 for psg_tick and 0 for psg_io.
RunClock(total, ticks) ==
  IF total >= CLOCK_RATIO
    THEN /\ clock_current_ratio' = Carry(total)
         /\ since' = 0
         /\ IF samples < MAX_SAMPLES
              THEN samples' = samples + 1 /\ elapsed' = elapsed + since + ticks
              ELSE UNCHANGED <<samples, elapsed>>
    ELSE /\ clock_current_ratio' = total
         /\ since' = since + ticks
         /\ UNCHANGED <<elapsed, samples>>

Later(n)   == IF n + 128 < WRAP THEN n + 128 ELSE n + 128 - WRAP
EarlierFault(n) == n                \* psg_io counts as a tick
Earlier(n) == IF n < 128 THEN n + WRAP - 128 ELSE n - 128

Tick(start, ticks) ==
  /\ registers' = Written(registers, access)
  /\ seen' = (access # Quiet)
  /\ Count(Written(registers, access))
  /\ RunClock(Later(start), ticks)
  /\ UNCHANGED <<access, before>>

PsgTick == Tick(clock_current_ratio, 1)

PsgIo == access # Quiet /\ Tick(Earlier(clock_current_ratio), 0)
-----------------------------------------------------------------------------
(***************************************************************************)
(* The CPU. A strobe lasts for at least one pass of the main loop.         *)
(***************************************************************************)
BeginAccess ==
  /\ access = Quiet
  /\ access' \in Writes \cup {Other} /\ seen' = FALSE
  /\ before' = registers
  /\ UNCHANGED <<registers, voice, clock>>

EndAccess ==
  /\ access # Quiet /\ seen
  /\ access' = Quiet /\ seen' = FALSE
  /\ before' = registers
  /\ UNCHANGED <<registers, voice, clock>>

Next == PsgTick \/ PsgIo \/ BeginAccess \/ EndAccess

Spec == Init /\ [][Next]_vars
-----------------------------------------------------------------------------
\* Registers and counters stay in the ranges their bit masks and types give
\* them, the counters however a period of zero makes them wrap.
PsgTypeOK ==
  /\ registers \in Registers /\ before \in Registers
  /\ tone_counter \in [Channels -> 0..(COUNTER - 1)]
  /\ channel_polarity \in [Channels -> 0..1]
  /\ clock_current_ratio \in 0..(CLOCK_RATIO + 127)
  /\ access \in Writes \cup {Other, Quiet} /\ seen \in BOOLEAN
  /\ since \in Nat /\ elapsed \in Nat /\ samples \in 0..MAX_SAMPLES

\* A byte written to the PSG changes the registers once, although psg_io sees
\* it on every half-clock of the strobe and psg_tick may see it once more; no
\* other access changes them.
WritesOnce == registers = IF seen THEN Written(before, access) ELSE before

\* The time from one sample to the next is the requested one, rounded to a tick
\* either way, however many IO accesses run psg_tick in between.
SamplesInTime ==
  [][samples > 0 /\ since # 0 /\ since' = 0 =>
       since + 1 \in (CLOCK_RATIO \div 128)..((CLOCK_RATIO \div 128) + 1)]_vars

\* What psg.c does is round down, from the second sample on.
SamplesRegular ==
  [][samples > 0 /\ since # 0 /\ since' = 0 => since + 1 = CLOCK_RATIO \div 128]_vars

\* The inductive invariant: clock_current_ratio is the fraction carried over
\* and 128 for each tick, and the carry is always below 128.
SampleClock ==
  IF samples = 0
    THEN /\ clock_current_ratio = 128 * since
         /\ clock_current_ratio < CLOCK_RATIO
    ELSE /\ since < CLOCK_RATIO \div 128
         /\ clock_current_ratio - 128 * since - (CLOCK_RATIO % 128) \in 0..127

PsgInv == PsgTypeOK /\ WritesOnce /\ SampleClock

\* psg.c:46, "Output sample rate, in Hz": samples do not run a whole sample
\* ahead of the rate that was asked for.
SampleRateHeld == samples * CLOCK_RATIO <= elapsed * 128 + CLOCK_RATIO
=============================================================================
