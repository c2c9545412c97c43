-------------------------------- MODULE Uart --------------------------------
(***************************************************************************)
(* The receiver of the serial line peripheral/peripheral.c emulates on pin *)
(* TH of port B. The program bit-bangs the line by writing to port 3F; the *)
(* receiver has no clock of its own and counts calls of per_tick, that is, *)
(* half-clocks in which an IO strobe is low.                               *)
(*                                                                         *)
(* A step is one call. The program holds each bit for a number of calls    *)
(* that it chooses per frame; frames are a start bit, BITS data bits, the  *)
(* lowest first, and a stop bit, and may follow each other at once. A byte *)
(* is the function of its bits, so that a shift moves them down by one.    *)
(***************************************************************************)
EXTENDS Integers

CONSTANTS
  RX_TICKS_PER_SAMPLE,
  BITS,       \* data bits, 8
  Periods,    \* calls a program may hold a bit for
  Frames      \* bytes it sends

Chars == [1..BITS -> 0..1]

STOP == BITS + 1
END  == (BITS + 2) * RX_TICKS_PER_SAMPLE + 1

ASSUME UartAssumption ==
  /\ RX_TICKS_PER_SAMPLE \in Nat \ {0} /\ BITS \in Nat \ {0}
  /\ Periods \subseteq Nat /\ Frames \subseteq Chars

\* The paces the receiver tolerates: a bit is still there when it is looked at, one
\* call into the slot of the next one, and the line is up again once a frame is in.
ASSUME PaceAssumption ==
  \A p \in Periods : RX_TICKS_PER_SAMPLE < p /\ STOP * p <= END + 1

VARIABLES
  line,                                     \* per_control & PER_PORTB_TH_OUT
  rx_char, rx_is_sampling, rx_tick_count, rx_sample_count,
  \* the program
  slot,           \* bit on the line: 0 start, then data, BITS + 1 stop or none
  age, period,    \* calls the bit has been there, of how many
  frame,
  mail            \* history: the byte sent last, and what became of it

receiver == <<rx_char, rx_is_sampling, rx_tick_count, rx_sample_count>>
sender   == <<slot, age, period, frame>>
vars     == <<line, receiver, sender, mail>>

NoBits == [i \in 1..BITS |-> 0]

Init ==
  /\ line = 1                               \* per_control is 0xFF
  /\ rx_char = NoBits /\ rx_is_sampling = 0 /\ rx_tick_count = 0 /\ rx_sample_count = 0
  /\ slot = STOP /\ age = 1 /\ period = 1 /\ frame = NoBits
  /\ mail = [state |-> "empty"]
-----------------------------------------------------------------------------
(***************************************************************************)
(* The program, before the receiver sees the line.                         *)
(***************************************************************************)
Level(s) == CASE s = 0    -> 0
              [] s = STOP -> 1
              [] OTHER    -> frame[s]

Hold ==
  /\ age < period
  /\ age' = age + 1
  /\ UNCHANGED <<slot, period, frame, line>>

NextBit ==
  /\ age = period /\ slot < STOP
  /\ slot' = slot + 1 /\ age' = 1 /\ line' = Level(slot + 1)
  /\ UNCHANGED <<period, frame>>

Rest == age = period /\ slot = STOP /\ UNCHANGED <<sender, line>>

StartFrame ==
  /\ age = period /\ slot = STOP
  /\ frame' \in Frames /\ period' \in Periods
  /\ slot' = 0 /\ age' = 1 /\ line' = 0
-----------------------------------------------------------------------------
(***************************************************************************)
(* The receiver. Slot k of the code is rx_tick_count > k * period.         *)
(***************************************************************************)
Ticks == rx_tick_count + 1
RxSlot == (Ticks - 1) \div RX_TICKS_PER_SAMPLE

Shifted(c, bit) == [i \in 1..BITS |-> IF i = BITS THEN bit ELSE c[i + 1]]

StartSamplingFault ==                       \* the count of the last frame stays
  /\ rx_is_sampling = 0 /\ line' = 0
  /\ rx_sample_count' = 0 /\ rx_char' = NoBits /\ rx_is_sampling' = 1
  /\ UNCHANGED rx_tick_count

StartSampling ==
  /\ rx_is_sampling = 0 /\ line' = 0
  /\ rx_sample_count' = 0 /\ rx_tick_count' = 0 /\ rx_char' = NoBits
  /\ rx_is_sampling' = 1

Silent == rx_is_sampling = 0 /\ line' = 1 /\ UNCHANGED receiver

StartBit ==
  /\ rx_is_sampling = 1 /\ RxSlot <= 1
  /\ rx_sample_count' = IF RxSlot = 1 THEN 1 ELSE rx_sample_count
  /\ rx_tick_count' = Ticks
  /\ UNCHANGED <<rx_char, rx_is_sampling>>

DataBitFault ==                             \* a slot late
  /\ rx_is_sampling = 1 /\ RxSlot \in 2..STOP
  /\ IF rx_sample_count = RxSlot - 2
       THEN /\ rx_char' = Shifted(rx_char, line')
            /\ rx_sample_count' = rx_sample_count + 1
       ELSE UNCHANGED <<rx_char, rx_sample_count>>
  /\ rx_tick_count' = Ticks
  /\ UNCHANGED rx_is_sampling

DataBit ==
  /\ rx_is_sampling = 1 /\ RxSlot \in 2..STOP
  /\ IF rx_sample_count = RxSlot - 1
       THEN /\ rx_char' = Shifted(rx_char, line')
            /\ rx_sample_count' = rx_sample_count + 1
       ELSE UNCHANGED <<rx_char, rx_sample_count>>
  /\ rx_tick_count' = Ticks
  /\ UNCHANGED rx_is_sampling

Delivers == rx_is_sampling = 1 /\ RxSlot > STOP /\ rx_sample_count = STOP

StopBit ==
  /\ rx_is_sampling = 1 /\ RxSlot > STOP
  /\ rx_sample_count' = IF Delivers THEN rx_sample_count + 1 ELSE rx_sample_count
  /\ rx_is_sampling' = 0 /\ rx_tick_count' = Ticks
  /\ UNCHANGED rx_char

Sample == StartSampling \/ Silent \/ StartBit \/ DataBit \/ StopBit
-----------------------------------------------------------------------------
Post == mail' = IF slot' = 0 /\ age' = 1 THEN [state |-> "sent", char |-> frame']
                ELSE IF Delivers THEN [state |-> "delivered", char |-> rx_char]
                ELSE mail

per_tick == (Hold \/ NextBit \/ Rest \/ StartFrame) /\ Sample /\ Post

Spec == Init /\ [][per_tick]_vars
-----------------------------------------------------------------------------
\* The receiver's counts stay in range, from one frame to the next.
UartTypeOK ==
  /\ line \in 0..1 /\ rx_char \in Chars /\ rx_is_sampling \in 0..1
  /\ rx_tick_count \in 0..END /\ rx_sample_count \in 0..(BITS + 2)

MailboxSpec == INSTANCE Mailbox

\* Every byte bit-banged on TH reaches the callback once and unchanged, and no
\* callback happens without one, although program and receiver count calls
\* independently and a bit may last longer than the receiver's period.
ImplementsMailbox == MailboxSpec!Spec
=============================================================================
