----------------------------- MODULE PsgProofs -----------------------------
(***************************************************************************)
(* Proofs about module Psg, for every clock ratio, set of writes and width *)
(* of the registers. The inductive invariant is PsgInv. Registers and      *)
(* sample clock do not depend on each other: each lemma is about one.      *)
(***************************************************************************)
EXTENDS Psg, TLAPS

\* The value a tone register reloads a counter with fits in the counter.
LEMMA PeriodFits ==
  ASSUME NEW t \in Tone
  PROVE  Period(t) \in 0..(COUNTER - 1)
<1>1. /\ LOW \in Nat /\ LOW > 0 /\ HIGH \in Nat /\ HIGH > 0
      /\ COUNTER \in Nat /\ COUNTER >= LOW * HIGH
  BY PsgAssumption
<1>2. t.low \in 0..(LOW - 1) /\ t.high \in 0..(HIGH - 1)
  BY DEF Tone
<1>3. LOW * t.high <= LOW * (HIGH - 1) /\ LOW * t.high \in Nat
  BY <1>1, <1>2
<1>4. LOW * (HIGH - 1) = LOW * HIGH - LOW
  BY <1>1
<1> QED
  BY <1>1, <1>2, <1>3, <1>4 DEF Period

\* So does every value a counter is reloaded with.
LEMMA ReloadFits ==
  ASSUME NEW r \in Registers, NEW c \in Channels
  PROVE  Reload(r, c) \in 0..(COUNTER - 1)
<1>1. NOISE \in Nat /\ NOISE > 0 /\ Channels = 0..NOISE /\ NOISE = TONES
  BY PsgAssumption DEF NOISE, Channels
<1>2. CASE c # NOISE
  <2>1. r.tone[c] \in Tone
    BY <1>1, <1>2 DEF Registers
  <2> QED
    BY <1>2, <2>1, PeriodFits DEF Reload
<1>3. CASE c = NOISE /\ r.noise % 4 = 3
  <2>1. r.tone[NOISE - 1] \in Tone
    BY <1>1 DEF Registers
  <2> QED
    BY <1>3, <2>1, PeriodFits DEF Reload
<1>4. CASE c = NOISE /\ r.noise % 4 # 3
  <2>1. r.noise \in 0..7
    BY DEF Registers
  <2>2. (r.noise % 4) + 1 \in 1..3
    BY <1>4, <2>1
  <2>3. NoisePeriod[(r.noise % 4) + 1] \in 1..(COUNTER - 1)
    BY <2>2, PsgAssumption
  <2> QED
    BY <1>4, <2>3, PsgAssumption DEF Reload
<1> QED
  BY <1>2, <1>3, <1>4

\* A register write yields registers again.
LEMMA WrittenTyped ==
  ASSUME NEW r \in Registers, NEW b \in Writes \cup {Other, Quiet}
  PROVE  Written(r, b) \in Registers
<1>1. LOW \in Nat /\ LOW > 0 /\ NOISE = TONES /\ TONES \in Nat /\ Channels = 0..NOISE
  BY PsgAssumption DEF NOISE, Channels
<1>2. CASE b \in LatchByte
  <2>1. /\ b.kind \in {"volume", "tone"} /\ b.reg \in Channels
        /\ b.value \in 0..(LOW - 1) /\ b.value % 8 \in 0..7
    BY <1>1, <1>2 DEF LatchByte
  <2> DEFINE s == [r EXCEPT !.selected_reg = b.reg, !.selected_reg_type = b.kind]
  <2>2. s \in Registers
    BY <2>1 DEF Registers
  <2>3. Latched(r, b) \in Registers
    <3>1. CASE b.kind = "volume"
      BY <2>1, <2>2, <3>1 DEF Latched, Registers
    <3>2. CASE b.kind # "volume" /\ b.reg = NOISE
      BY <2>1, <2>2, <3>2 DEF Latched, Registers
    <3>3. CASE b.kind # "volume" /\ b.reg # NOISE
      <4>1. b.reg \in 0..(TONES - 1)
        BY <1>1, <2>1, <3>3
      <4>2. [s.tone EXCEPT ![b.reg] = [low |-> b.value, high |-> @.high]] \in [0..(TONES - 1) -> Tone]
        BY <2>1, <2>2, <4>1 DEF Registers, Tone
      <4> QED
        BY <2>2, <3>3, <4>2 DEF Latched, Registers
    <3> QED
      BY <3>1, <3>2, <3>3
  <2> QED
    BY <2>1, <2>3 DEF Written
<1>3. CASE b \in DataByte
  <2>1. b.kind = "data" /\ b.value \in 0..(HIGH - 1) /\ b.value \in Int
    BY <1>3, PsgAssumption DEF DataByte
  <2>2. b.value % LOW \in 0..(LOW - 1) /\ b.value % 8 \in 0..7
    BY <1>1, <2>1
  <2>3. r.selected_reg \in 0..NOISE
    BY <1>1 DEF Registers
  <2>4. Extended(r, b) \in Registers
    BY <1>1, <2>1, <2>2, <2>3 DEF Extended, Registers, Tone
  <2> QED
    BY <2>1, <2>4 DEF Written
<1>4. CASE b \in {Other, Quiet}
  BY <1>4 DEF Written, Other, Quiet
<1> QED
  BY <1>2, <1>3, <1>4, PsgAssumption

\* Registers are the same when their fields are.
LEMMA SameRegisters ==
  ASSUME NEW r \in Registers, NEW q \in Registers,
         r.selected_reg = q.selected_reg, r.selected_reg_type = q.selected_reg_type,
         r.vol = q.vol, r.tone = q.tone, r.noise = q.noise
  PROVE  r = q
BY DEF Registers

\* Seeing a write a second time changes nothing: registers are placed, never
\* shifted, and the second byte finds the register the first one selected.
LEMMA WrittenOnce ==
  ASSUME NEW r \in Registers, NEW b \in Writes \cup {Other, Quiet}
  PROVE  Written(Written(r, b), b) = Written(r, b)
<1> DEFINE q == Written(r, b)
           p == Written(q, b)
<1> SUFFICES p = q
  OBVIOUS
<1>1. q \in Registers
  BY WrittenTyped
<1>2. p \in Registers
  BY <1>1, WrittenTyped
<1>3. CASE b \in LatchByte
  <2>1. b.kind \in {"volume", "tone"}
    BY <1>3 DEF LatchByte
  <2>2. q = Latched(r, b) /\ p = Latched(q, b)
    BY <2>1 DEF Written
  <2> HIDE DEF p, q
  <2>3. CASE b.kind = "volume"
    <3>1. /\ q.selected_reg = b.reg /\ q.selected_reg_type = b.kind
          /\ q.vol = [r.vol EXCEPT ![b.reg] = b.value]
          /\ q.tone = r.tone /\ q.noise = r.noise
      BY <2>2, <2>3 DEF Latched, Registers
    <3>2. /\ p.selected_reg = b.reg /\ p.selected_reg_type = b.kind
          /\ p.vol = [q.vol EXCEPT ![b.reg] = b.value]
          /\ p.tone = q.tone /\ p.noise = q.noise
      BY <2>2, <2>3, <3>1, <1>1 DEF Latched, Registers
    <3>3. p.vol = q.vol
      BY <3>1, <3>2, <1>1, <2>3 DEF Registers
    <3> QED
      BY <3>1, <3>2, <3>3, <1>1, <1>2, SameRegisters
  <2>4. CASE b.kind # "volume" /\ b.reg = NOISE
    BY <2>2, <2>4, <1>1, <1>2, SameRegisters DEF Latched, Registers
  <2>5. CASE b.kind # "volume" /\ b.reg # NOISE
    <3>1. /\ q.selected_reg = b.reg /\ q.selected_reg_type = b.kind
          /\ q.tone = [r.tone EXCEPT ![b.reg] = [low |-> b.value, high |-> @.high]]
          /\ q.vol = r.vol /\ q.noise = r.noise
      BY <2>2, <2>5 DEF Latched, Registers
    <3>2. /\ p.selected_reg = b.reg /\ p.selected_reg_type = b.kind
          /\ p.tone = [q.tone EXCEPT ![b.reg] = [low |-> b.value, high |-> @.high]]
          /\ p.vol = q.vol /\ p.noise = q.noise
      BY <2>2, <2>5, <3>1, <1>1 DEF Latched, Registers
    <3>3. p.tone = q.tone
      BY <3>1, <3>2, <1>1, <2>5 DEF Registers, Tone
    <3> QED
      BY <3>1, <3>2, <3>3, <1>1, <1>2, SameRegisters
  <2> QED
    BY <2>3, <2>4, <2>5
<1>4. CASE b \in DataByte
  <2>1. b.kind = "data"
    BY <1>4 DEF DataByte
  <2>2. q = Extended(r, b) /\ p = Extended(q, b)
    BY <2>1 DEF Written
  <2> HIDE DEF p, q
  <2>3. CASE r.selected_reg_type = "volume"
    BY <2>2, <2>3, <1>1, <1>2, SameRegisters DEF Extended, Registers
  <2>4. CASE r.selected_reg_type # "volume" /\ r.selected_reg = NOISE
    BY <2>2, <2>4, <1>1, <1>2, SameRegisters DEF Extended, Registers
  <2>5. CASE r.selected_reg_type # "volume" /\ r.selected_reg # NOISE
    <3>1. /\ q.selected_reg = r.selected_reg /\ q.selected_reg_type = r.selected_reg_type
          /\ q.tone = [r.tone EXCEPT ![r.selected_reg] = [low |-> @.low, high |-> b.value]]
          /\ q.vol = r.vol /\ q.noise = r.noise
      BY <2>2, <2>5 DEF Extended, Registers
    <3>2. /\ p.selected_reg = q.selected_reg /\ p.selected_reg_type = q.selected_reg_type
          /\ p.tone = [q.tone EXCEPT ![q.selected_reg] = [low |-> @.low, high |-> b.value]]
          /\ p.vol = q.vol /\ p.noise = q.noise
      BY <2>2, <2>5, <3>1, <1>1 DEF Extended, Registers
    <3>3. p.tone = q.tone
      BY <3>1, <3>2, <1>1, <2>5 DEF Registers, Tone
    <3> QED
      BY <3>1, <3>2, <3>3, <1>1, <1>2, SameRegisters
  <2> QED
    BY <2>3, <2>4, <2>5
<1>5. CASE b \in {Other, Quiet}
  BY <1>5 DEF Written, Other, Quiet
<1> QED
  BY <1>3, <1>4, <1>5, PsgAssumption
-----------------------------------------------------------------------------
\* The initial state satisfies the invariant.
LEMMA InitEstablishes == Init => PsgInv
<1> SUFFICES ASSUME Init PROVE PsgInv
  OBVIOUS
<1>1. /\ LOW \in Nat /\ LOW > 0 /\ HIGH \in Nat /\ HIGH > 0 /\ NOISE = TONES
      /\ TONES \in Nat /\ TONES > 0 /\ COUNTER \in Nat /\ COUNTER > 1 /\ MAX_SAMPLES \in Nat
  BY PsgAssumption DEF NOISE
<1>2. registers \in Registers
  BY <1>1 DEF Init, Registers, Tone, Channels
<1>3. PsgTypeOK
  <2>1. before \in Registers
    BY <1>2 DEF Init
  <2>2. /\ tone_counter \in [Channels -> 0..(COUNTER - 1)]
        /\ channel_polarity \in [Channels -> 0..1]
    BY <1>1 DEF Init
  <2>3. clock_current_ratio \in 0..(CLOCK_RATIO + 127)
    BY ClockAssumption DEF Init
  <2>4. access \in Writes \cup {Other, Quiet} /\ seen \in BOOLEAN
    BY Zenon DEF Init
  <2>5. since \in Nat /\ elapsed \in Nat /\ samples \in 0..MAX_SAMPLES
    BY <1>1 DEF Init
  <2> QED
    BY <1>2, <2>1, <2>2, <2>3, <2>4, <2>5 DEF PsgTypeOK
<1>4. WritesOnce
  BY DEF Init, WritesOnce
<1>5. SampleClock
  BY ClockAssumption DEF Init, SampleClock
<1> QED
  BY <1>3, <1>4, <1>5 DEF PsgInv

\* The half of a tick that concerns the registers and counters.
LEMMA RegistersKeep ==
  ASSUME PsgInv, NEW start, NEW ticks, Tick(start, ticks)
  PROVE  /\ registers' \in Registers /\ before' \in Registers
         /\ tone_counter' \in [Channels -> 0..(COUNTER - 1)]
         /\ channel_polarity' \in [Channels -> 0..1]
         /\ access' \in Writes \cup {Other, Quiet} /\ seen' \in BOOLEAN
         /\ WritesOnce'
<1>1. PsgTypeOK /\ WritesOnce
  BY DEF PsgInv
<1>2. Written(registers, access) \in Registers
  BY <1>1, WrittenTyped DEF PsgTypeOK
<1>3. tone_counter' \in [Channels -> 0..(COUNTER - 1)]
  <2>1. ASSUME NEW c \in Channels
        PROVE  Less(tone_counter[c]) \in 0..(COUNTER - 1)
    BY <1>1, PsgAssumption DEF PsgTypeOK, Less
  <2>2. ASSUME NEW c \in Channels
        PROVE  Reload(Written(registers, access), c) \in 0..(COUNTER - 1)
    BY <1>2, ReloadFits
  <2> QED
    BY <2>1, <2>2 DEF Tick, Count
<1>4. channel_polarity' \in [Channels -> 0..1]
  BY <1>1 DEF Tick, Count, PsgTypeOK
<1>5. WritesOnce'
  <2>1. registers' = Written(registers, access) /\ access' = access /\ before' = before
    BY DEF Tick
  <2>2. CASE access = Quiet
    <3>1. ~seen' /\ registers' = registers
      BY <2>1, <2>2 DEF Tick, Written, Quiet
    <3>2. registers = before
      BY <1>1, <2>2 DEF WritesOnce, Written, Quiet
    <3> QED
      BY <2>1, <3>1, <3>2 DEF WritesOnce
  <2>3. CASE access # Quiet
    <3>1. Written(registers, access) = Written(before, access)
      BY <1>1, WrittenOnce DEF WritesOnce, PsgTypeOK
    <3>2. seen'
      BY <2>3 DEF Tick
    <3> QED
      BY <2>1, <3>1, <3>2 DEF WritesOnce
  <2> QED
    BY <2>2, <2>3
<1> QED
  BY <1>1, <1>2, <1>3, <1>4, <1>5 DEF Tick, PsgTypeOK

\* A sample is carried over and counted from zero.
LEMMA CarryFits ==
  ASSUME NEW total \in Nat
  PROVE  /\ Carry(total) - (CLOCK_RATIO % 128) \in 0..127
         /\ Carry(total) \in 0..(CLOCK_RATIO + 127)
BY ClockAssumption DEF Carry

\* psg_io sets the clock back by what psg_tick then adds.
LEMMA IoUndone ==
  ASSUME NEW n \in 0..(CLOCK_RATIO + 127)
  PROVE  Later(Earlier(n)) = n
BY ClockAssumption DEF Later, Earlier

\* The half of a step that concerns the sample clock, for psg_tick and for
\* psg_io: a sample is due when the ticks since the last one reach the ratio.
LEMMA ClockKeeps ==
  ASSUME PsgInv, PsgTick \/ PsgIo
  PROVE  /\ clock_current_ratio' \in 0..(CLOCK_RATIO + 127)
         /\ since' \in Nat /\ elapsed' \in Nat /\ samples' \in 0..MAX_SAMPLES
         /\ SampleClock'
         /\ samples > 0 /\ since # 0 /\ since' = 0 => since + 1 = CLOCK_RATIO \div 128
<1> DEFINE q == CLOCK_RATIO \div 128
           f == CLOCK_RATIO % 128
<1>1. /\ clock_current_ratio \in 0..(CLOCK_RATIO + 127) /\ since \in Nat /\ elapsed \in Nat
      /\ samples \in 0..MAX_SAMPLES /\ MAX_SAMPLES \in Nat /\ MAX_SAMPLES > 0 /\ SampleClock
  BY PsgAssumption DEF PsgInv, PsgTypeOK
<1>2. CLOCK_RATIO \in Nat /\ q \in Nat /\ f \in 0..127 /\ CLOCK_RATIO = 128 * q + f /\ q >= 2
  BY ClockAssumption
<1>3. CASE PsgTick
  <2>1. Later(clock_current_ratio) = clock_current_ratio + 128
    BY <1>1, ClockAssumption DEF Later
  <2>2. RunClock(clock_current_ratio + 128, 1)
    BY <1>3, <2>1 DEF PsgTick, Tick
  <2>3. CASE clock_current_ratio + 128 >= CLOCK_RATIO
    <3>1. samples > 0 => since + 1 = q
      BY <1>1, <1>2, <2>3 DEF SampleClock
    <3>2. clock_current_ratio' = Carry(clock_current_ratio + 128) /\ since' = 0 /\ samples' > 0
      BY <1>1, <2>2, <2>3 DEF RunClock
    <3>3. elapsed' \in Nat /\ samples' \in 0..MAX_SAMPLES
      BY <1>1, <2>2, <2>3 DEF RunClock
    <3>4. clock_current_ratio' - f \in 0..127 /\ clock_current_ratio' \in 0..(CLOCK_RATIO + 127)
      BY <1>1, <3>2, CarryFits
    <3>5. SampleClock'
      BY <1>2, <3>2, <3>3, <3>4 DEF SampleClock
    <3> QED
      BY <3>1, <3>2, <3>3, <3>4, <3>5
  <2>4. CASE clock_current_ratio + 128 < CLOCK_RATIO
    <3>1. /\ clock_current_ratio' = clock_current_ratio + 128 /\ since' = since + 1
          /\ elapsed' = elapsed /\ samples' = samples
      BY <1>1, <1>2, <2>2, <2>4 DEF RunClock
    <3>2. SampleClock'
      BY <1>1, <1>2, <2>4, <3>1 DEF SampleClock
    <3> QED
      BY <1>1, <1>2, <2>4, <3>1, <3>2
  <2> QED
    BY <1>1, <1>2, <2>3, <2>4
<1>4. CASE PsgIo
  <2>1. RunClock(clock_current_ratio, 0)
    BY <1>1, <1>4, IoUndone DEF PsgIo, Tick
  <2>2. clock_current_ratio < CLOCK_RATIO
    BY <1>1, <1>2 DEF SampleClock
  <2>3. /\ clock_current_ratio' = clock_current_ratio /\ since' = since
        /\ elapsed' = elapsed /\ samples' = samples
    BY <1>1, <1>2, <2>1, <2>2 DEF RunClock
  <2> QED
    BY <1>1, <2>3 DEF SampleClock
<1> QED
  BY <1>3, <1>4

\* The CPU begins and ends accesses without touching the PSG.
LEMMA AccessKeeps ==
  ASSUME PsgInv, BeginAccess \/ EndAccess \/ UNCHANGED vars
  PROVE  PsgInv'
<1>1. CASE BeginAccess
  BY <1>1 DEF PsgInv, PsgTypeOK, WritesOnce, SampleClock, BeginAccess, voice, clock
<1>2. CASE EndAccess
  BY <1>2 DEF PsgInv, PsgTypeOK, WritesOnce, SampleClock, EndAccess, voice, clock
<1>3. CASE UNCHANGED vars
  BY <1>3 DEF PsgInv, PsgTypeOK, WritesOnce, SampleClock, vars, voice, clock
<1> QED
  BY <1>1, <1>2, <1>3

\* Every step preserves the invariant.
LEMMA NextKeeps == PsgInv /\ [Next]_vars => PsgInv'
<1> SUFFICES ASSUME PsgInv, [Next]_vars PROVE PsgInv'
  OBVIOUS
<1>1. CASE PsgTick \/ PsgIo
  <2>1. \E start, ticks : Tick(start, ticks)
    BY <1>1 DEF PsgTick, PsgIo
  <2> QED
    BY <1>1, <2>1, RegistersKeep, ClockKeeps DEF PsgInv, PsgTypeOK
<1>2. CASE BeginAccess \/ EndAccess \/ UNCHANGED vars
  BY <1>2, AccessKeeps
<1> QED
  BY <1>1, <1>2 DEF Next

\* The inductive invariant holds: for every program, ratio and register width.
THEOREM PsgInvariance == Spec => []PsgInv
BY InitEstablishes, NextKeeps, PTL DEF Spec

\* Registers and counters stay in range.
THEOREM PsgTypeCorrect == Spec => []PsgTypeOK
<1>1. PsgInv => PsgTypeOK
  BY DEF PsgInv
<1> QED
  BY <1>1, PsgInvariance, PTL

\* A byte written to the PSG takes effect once, however often it is seen.
THEOREM PsgWritesOnce == Spec => []WritesOnce
<1>1. PsgInv => WritesOnce
  BY DEF PsgInv
<1> QED
  BY <1>1, PsgInvariance, PTL

\* Between two samples clock_current_ratio is 128 for each tick since the last
\* one, and what its carry left (psg.c:204-214): an IO access adds nothing.
THEOREM PsgSampleClock == Spec => []SampleClock
<1>1. PsgInv => SampleClock
  BY DEF PsgInv
<1> QED
  BY <1>1, PsgInvariance, PTL

\* Whatever the ratio, psg_tick rounds it down: the fraction that the low seven
\* bits of clock_current_ratio should carry over is lost on every sample.
THEOREM PsgSamplesRegular == Spec => SamplesRegular
<1>1. PsgInv /\ [Next]_vars =>
        [samples > 0 /\ since # 0 /\ since' = 0 => since + 1 = CLOCK_RATIO \div 128]_vars
  <2> SUFFICES ASSUME PsgInv, Next
               PROVE samples > 0 /\ since # 0 /\ since' = 0
                       => since + 1 = CLOCK_RATIO \div 128
    OBVIOUS
  <2>1. CASE PsgTick \/ PsgIo
    BY <2>1, ClockKeeps
  <2>2. CASE BeginAccess \/ EndAccess
    BY <2>2 DEF BeginAccess, EndAccess, clock
  <2> QED
    BY <2>1, <2>2 DEF Next
<1> QED
  BY <1>1, PsgInvariance, PTL DEF Spec, SamplesRegular

\* Samples come at the requested rate to within a tick, however many IO
\* accesses run psg_tick between them.
THEOREM PsgSamplesInTime == Spec => SamplesInTime
<1>1. CLOCK_RATIO \div 128 \in Int
  BY ClockAssumption
<1>2. [samples > 0 /\ since # 0 /\ since' = 0 => since + 1 = CLOCK_RATIO \div 128]_vars
      => [samples > 0 /\ since # 0 /\ since' = 0 =>
            since + 1 \in (CLOCK_RATIO \div 128)..((CLOCK_RATIO \div 128) + 1)]_vars
  BY <1>1
<1> QED
  BY <1>2, PsgSamplesRegular, PTL DEF SamplesRegular, SamplesInTime
=============================================================================
