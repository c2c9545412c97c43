----------------------------- MODULE UartProofs -----------------------------
(***************************************************************************)
(* The serial receiver implements a mailbox: for every number of data      *)
(* bits, every length of a sample, and every pace of the program that the  *)
(* pace assumption of module Uart allows.                                  *)
(***************************************************************************)
EXTENDS Uart, TLAPS

R == RX_TICKS_PER_SAMPLE

\* Calls since the frame began, as the program counts them.
Calls == slot * period + age - 1

(***************************************************************************)
(* n is the number of the slot the receiver was in at its count t: a slot  *)
(* begins one call after a multiple of its length.                         *)
(***************************************************************************)
InSlot(t, n) == (n = 0 \/ n * R < t) /\ t <= (n + 1) * R

\* The character after the first k bits have been moved in from above.
Received(k) ==
  [i \in 1..BITS |-> IF i + k > BITS THEN frame[(i + k) - BITS] ELSE 0]

\* How many of the n samples taken are data bits.
Taken(n) == IF n = 0 THEN 0 ELSE n - 1

SenderTypeOK ==
  /\ frame \in Chars /\ slot \in 0..STOP /\ period \in Nat \ {0}
  /\ age \in 1..period /\ line = Level(slot)

Quiet ==
  /\ mail = [state |-> "empty"] /\ rx_is_sampling = 0
  /\ slot = STOP /\ age = period

\* Program and receiver agree on how long the frame has lasted.
InFlight ==
  /\ mail = [state |-> "sent", char |-> frame] /\ rx_is_sampling = 1
  /\ period \in Periods
  /\ rx_tick_count = Calls /\ Calls < END
  /\ InSlot(Calls, rx_sample_count) /\ rx_char = Received(Taken(rx_sample_count))

\* The line has been up, or goes up, before the receiver looks at it again.
Done ==
  /\ mail = [state |-> "delivered", char |-> frame] /\ rx_is_sampling = 0
  /\ period \in Periods /\ Calls >= END

UartInv == UartTypeOK /\ SenderTypeOK /\ (Quiet \/ InFlight \/ Done)

-----------------------------------------------------------------------------
(***************************************************************************)
(* Arithmetic.                                                             *)
(***************************************************************************)

\* The lengths of a bit, of a frame and of a slot.
LEMMA Sizes ==
  /\ R \in Nat /\ R > 0 /\ BITS \in Nat /\ BITS > 0
  /\ STOP = BITS + 1 /\ STOP \in Nat
  /\ END = (BITS + 2) * R + 1 /\ END \in Nat
BY UartAssumption DEF R, STOP, END

\* A pace is at least one call a bit slower than the receiver, but not so much that
\* the last data bit is still there when the receiver is done.
LEMMA Pace ==
  ASSUME NEW p \in Periods
  PROVE  /\ p \in Nat /\ p >= R + 1 /\ STOP * p <= END + 1
         /\ BITS * (p - R) <= R + 1
<1>1. p \in Nat /\ p >= R + 1 /\ STOP * p <= END + 1
  BY UartAssumption, PaceAssumption, Sizes DEF R
<1>2. (BITS + 1) * p <= ((BITS + 2) * R + 1) + 1
  BY <1>1, Sizes
<1>3. BITS * (p - R) <= R + 1
  <2>1. (BITS + 1) * p = BITS * p + p /\ (BITS + 2) * R = BITS * R + 2 * R
        /\ BITS * (p - R) = BITS * p - BITS * R
    BY <1>1, Sizes
  <2>2. BITS * p \in Int /\ BITS * R \in Int
    BY <1>1, Sizes
  <2> QED
    BY <1>1, <1>2, <2>1, <2>2, Sizes
<1> QED
  BY <1>1, <1>3

\* What RxSlot says of the count.
LEMMA SlotOf ==
  ASSUME NEW t \in Nat
  PROVE  t \div R \in Nat /\ (t \div R) * R <= t /\ t < (t \div R + 1) * R
BY Sizes

\* A slot has one number.
LEMMA SlotMoves ==
  ASSUME NEW t \in Nat, NEW n \in Nat, NEW q \in Nat, InSlot(t, n),
         q * R <= t, t < (q + 1) * R
  PROVE  /\ InSlot(t + 1, q)
         /\ q = n \/ (q = n + 1 /\ t = q * R)
<1>1. InSlot(t + 1, q)
  BY Sizes DEF InSlot
<1>2. q >= n
  <2>1. SUFFICES ASSUME q < n PROVE FALSE
    OBVIOUS
  <2>2. (q + 1) * R <= n * R
    BY <2>1, Sizes
  <2> QED
    BY <2>1, <2>2, Sizes DEF InSlot
<1>3. q <= n + 1
  <2>1. SUFFICES ASSUME q > n + 1 PROVE FALSE
    OBVIOUS
  <2>2. (n + 2) * R <= q * R /\ (n + 2) * R = (n + 1) * R + R
    BY <2>1, Sizes
  <2> QED
    BY <2>2, Sizes DEF InSlot
<1>4. q = n + 1 => t = q * R
  BY Sizes DEF InSlot
<1> QED
  BY <1>1, <1>2, <1>3, <1>4

\* While the receiver takes data bit j, the program holds it.
LEMMA BitOnLine ==
  ASSUME NEW p \in Periods, NEW s \in 0..STOP, NEW a \in 1..p, NEW j \in 1..BITS,
         s * p + a - 1 = (j + 1) * R + 1
  PROVE  s = j
<1>1. /\ p \in Nat /\ p >= R + 1 /\ BITS * (p - R) <= R + 1 /\ s \in Nat /\ a \in Nat
      /\ j \in Nat /\ j >= 1 /\ a >= 1 /\ a <= p /\ j <= BITS
  BY Pace, Sizes
<1>2. j * (p - R) <= R + 1
  <2>1. j * (p - R) <= BITS * (p - R)
    BY <1>1, Sizes
  <2> QED
    BY <1>1, <2>1, Sizes
<1>3. j * p <= (j + 1) * R + 1
  <2>1. j * (p - R) = j * p - j * R /\ (j + 1) * R = j * R + R
    BY <1>1, Sizes
  <2> QED
    BY <1>1, <1>2, <2>1, Sizes
<1>4. (j + 1) * R + 1 < (j + 1) * p
  <2>1. (j + 1) * (R + 1) <= (j + 1) * p
    BY <1>1, Sizes
  <2>2. (j + 1) * (R + 1) = (j + 1) * R + j + 1
    BY <1>1, Sizes
  <2> QED
    BY <1>1, <2>1, <2>2, Sizes
<1>5. s >= j
  <2>1. SUFFICES ASSUME s < j PROVE FALSE
    BY <1>1
  <2>2. (s + 1) * p <= j * p /\ (s + 1) * p = s * p + p
    BY <1>1, <2>1
  <2> QED
    BY <1>1, <1>3, <2>2, Sizes
<1>6. s <= j
  <2>1. SUFFICES ASSUME s > j PROVE FALSE
    BY <1>1
  <2>2. (j + 1) * p <= s * p
    BY <1>1, <2>1
  <2> QED
    BY <1>1, <1>4, <2>2, Sizes
<1> QED
  BY <1>1, <1>5, <1>6

\* At rest the frame is longer than the receiver listens.
LEMMA FrameIsOver ==
  ASSUME NEW p \in Periods
  PROVE  STOP * p + p - 1 >= END
<1>1. p \in Nat /\ p >= R + 1
  BY Pace
<1>2. (BITS + 2) * (R + 1) <= (BITS + 2) * p
  BY <1>1, Sizes
<1>3. /\ (BITS + 2) * (R + 1) = (BITS + 2) * R + BITS + 2
      /\ (BITS + 2) * p = (BITS + 1) * p + p
  BY <1>1, Sizes
<1> QED
  BY <1>1, <1>2, <1>3, Sizes

\* When the receiver looks for the next start bit, the line is up.
LEMMA LineIsUp ==
  ASSUME NEW p \in Periods, NEW s \in 0..STOP, NEW a \in 1..p, s * p + a - 1 > END
  PROVE  s = STOP
<1>1. p \in Nat /\ STOP * p <= END + 1 /\ s \in Nat /\ a \in Nat /\ a <= p
  BY Pace, Sizes
<1>2. SUFFICES ASSUME s < STOP PROVE FALSE
  BY <1>1, Sizes
<1>3. (s + 1) * p <= STOP * p /\ (s + 1) * p = s * p + p
  BY <1>1, <1>2, Sizes
<1> QED
  BY <1>1, <1>3, Sizes

-----------------------------------------------------------------------------
(***************************************************************************)
(* The program.                                                            *)
(***************************************************************************)

\* A bit is held, or the next one begins: one more call.
LEMMA FrameGoesOn ==
  ASSUME SenderTypeOK, Hold \/ NextBit
  PROVE  /\ SenderTypeOK' /\ Calls' = Calls + 1
         /\ UNCHANGED <<period, frame>> /\ ~(slot' = 0 /\ age' = 1)
<1>1. /\ slot \in 0..STOP /\ period \in Nat /\ period > 0 /\ age \in 1..period
      /\ frame \in Chars /\ line = Level(slot)
  BY DEF SenderTypeOK
<1>2. CASE Hold
  <2>1. /\ age < period /\ age' = age + 1 /\ slot' = slot /\ period' = period
        /\ frame' = frame /\ line' = line
    BY <1>2 DEF Hold
  <2>2. Level(slot)' = Level(slot)
    BY <2>1 DEF Level
  <2>3. slot * period \in Int
    BY <1>1, Sizes
  <2> QED
    BY <1>1, <2>1, <2>2, <2>3 DEF SenderTypeOK, Calls
<1>3. CASE NextBit
  <2>1. /\ age = period /\ slot < STOP /\ age' = 1 /\ slot' = slot + 1
        /\ period' = period /\ frame' = frame /\ line' = Level(slot + 1)
    BY <1>3 DEF NextBit
  <2>2. Level(slot)' = Level(slot + 1)
    BY <2>1 DEF Level
  <2>3. slot * period \in Int /\ (slot + 1) * period = slot * period + period
    BY <1>1, Sizes
  <2>4. slot' \in 0..STOP /\ slot' # 0
    BY <1>1, <2>1, Sizes
  <2>5. SenderTypeOK'
    BY <1>1, <2>1, <2>2, <2>4 DEF SenderTypeOK
  <2>6. Calls' = Calls + 1
    BY <1>1, <2>1, <2>3 DEF Calls
  <2> QED
    BY <2>1, <2>4, <2>5, <2>6
<1> QED
  BY <1>2, <1>3

\* Between frames nothing moves.
LEMMA ProgramRests ==
  ASSUME SenderTypeOK, Rest
  PROVE  /\ SenderTypeOK' /\ Calls' = Calls /\ line' = 1
         /\ UNCHANGED <<sender, line>> /\ ~(slot' = 0 /\ age' = 1)
<1>1. slot = STOP /\ age = period /\ UNCHANGED <<slot, age, period, frame, line>>
  BY DEF Rest, sender
<1>2. Level(slot)' = Level(slot)
  BY <1>1 DEF Level
<1>3. Level(STOP) = 1
  BY Sizes DEF Level
<1> QED
  BY <1>1, <1>2, <1>3, Sizes DEF SenderTypeOK, Calls, sender

\* A new frame begins with the line going down.
LEMMA FrameBegins ==
  ASSUME SenderTypeOK, StartFrame
  PROVE  /\ SenderTypeOK' /\ Calls' = 0 /\ line' = 0
         /\ frame' \in Chars /\ period' \in Periods /\ slot' = 0 /\ age' = 1
<1>1. /\ frame' \in Frames /\ period' \in Periods /\ slot' = 0 /\ age' = 1
      /\ line' = 0
  BY DEF StartFrame
<1>2. frame' \in Chars /\ period' \in Nat \ {0}
  <2>1. period' \in Nat /\ period' >= R + 1
    BY <1>1, Pace
  <2> QED
    BY <1>1, <2>1, Sizes, UartAssumption
<1>3. Level(slot)' = 0
  BY <1>1, Sizes DEF Level
<1>4. \A p \in Nat : 0 * p + 1 - 1 = 0
  OBVIOUS
<1>5. Calls' = 0
  <2>1. 0 * period' + 1 - 1 = 0
    BY <1>2, <1>4, Zenon
  <2> QED
    BY <1>1, <2>1, Zenon DEF Calls
<1> QED
  BY <1>1, <1>2, <1>3, <1>5, Sizes DEF SenderTypeOK

-----------------------------------------------------------------------------
(***************************************************************************)
(* The receiver.                                                           *)
(***************************************************************************)

\* What is received stays a character.
LEMMA CharsShift ==
  ASSUME NEW c \in Chars, NEW b \in 0..1
  PROVE  Shifted(c, b) \in Chars
<1>1. ASSUME NEW i \in 1..BITS, i # BITS PROVE i + 1 \in 1..BITS
  BY <1>1, Sizes
<1> QED
  BY <1>1 DEF Shifted, Chars

\* Bit k + 1 comes in above the first k.
LEMMA BitComesIn ==
  ASSUME NEW k \in Nat, k < BITS
  PROVE  Shifted(Received(k), frame[k + 1]) = Received(k + 1)
<1>1. ASSUME NEW i \in 1..BITS
      PROVE  (IF i = BITS THEN frame[k + 1] ELSE Received(k)[i + 1])
               = (IF i + (k + 1) > BITS THEN frame[(i + (k + 1)) - BITS] ELSE 0)
  <2>1. CASE i = BITS
    <3>1. (i + (k + 1)) - BITS = k + 1 /\ i + (k + 1) > BITS
      BY <2>1, Sizes
    <3> QED
      BY <2>1, <3>1
  <2>2. CASE i # BITS
    <3>1. i + 1 \in 1..BITS /\ (i + 1) + k = i + (k + 1)
      BY <2>2, Sizes
    <3>2. Received(k)[i + 1]
            = IF (i + 1) + k > BITS THEN frame[((i + 1) + k) - BITS] ELSE 0
      BY <3>1 DEF Received
    <3> QED
      BY <2>2, <3>1, <3>2
  <2> QED
    BY <2>1, <2>2
<1> QED
  BY <1>1 DEF Shifted, Received

\* All bits are the character.
LEMMA AllComeIn ==
  ASSUME frame \in Chars
  PROVE  Received(BITS) = frame
<1>1. ASSUME NEW i \in 1..BITS
      PROVE  i + BITS > BITS /\ (i + BITS) - BITS = i
  BY Sizes
<1>2. Received(BITS) = [i \in 1..BITS |-> frame[i]]
  BY <1>1 DEF Received
<1> QED
  BY <1>2 DEF Chars

\* No bit yet, no character.
LEMMA NoneComeIn ==
  ASSUME TRUE
  PROVE  Received(0) = NoBits
<1>1. ASSUME NEW i \in 1..BITS PROVE ~(i + 0 > BITS)
  BY Sizes
<1> QED
  BY <1>1 DEF Received, NoBits

\* The initial states.
LEMMA InitEstablishes == Init => UartInv
<1> SUFFICES ASSUME Init PROVE UartInv
  OBVIOUS
<1>1. NoBits \in Chars
  BY DEF NoBits, Chars
<1>2. Level(STOP) = 1
  BY Sizes DEF Level
<1>3. SenderTypeOK
  BY <1>1, <1>2, Sizes DEF Init, SenderTypeOK
<1>4. UartTypeOK
  BY <1>1, Sizes DEF Init, UartTypeOK
<1>5. Quiet
  BY DEF Init, Quiet
<1> QED
  BY <1>3, <1>4, <1>5 DEF UartInv

\* A frame that begins while the receiver waits is in flight after the call.
LEMMA FrameStarts ==
  ASSUME UartInv, rx_is_sampling = 0, StartFrame, Sample, Post
  PROVE  /\ UartInv'
         /\ mail' = [state |-> "sent", char |-> frame'] /\ frame' \in Chars
<1>1. /\ SenderTypeOK' /\ Calls' = 0 /\ line' = 0
      /\ frame' \in Chars /\ period' \in Periods /\ slot' = 0 /\ age' = 1
  BY FrameBegins DEF UartInv
<1>2. /\ rx_sample_count' = 0 /\ rx_tick_count' = 0 /\ rx_char' = NoBits
      /\ rx_is_sampling' = 1
  BY <1>1 DEF Sample, StartSampling, Silent, StartBit, DataBit, StopBit
<1>3. mail' = [state |-> "sent", char |-> frame']
  BY <1>1 DEF Post
<1>4. NoBits \in Chars
  BY DEF NoBits, Chars
<1>5. UartTypeOK'
  BY <1>1, <1>2, <1>4, Sizes DEF UartTypeOK
<1>6. InFlight'
  <2>1. (Received(Taken(rx_sample_count)))' = NoBits
    <3>1. (Received(0))' = NoBits
      <4>1. ASSUME NEW i \in 1..BITS PROVE ~(i + 0 > BITS)
        BY Sizes
      <4> QED
        BY <4>1 DEF Received, NoBits
    <3> QED
      BY <1>2, <3>1 DEF Taken, Received
  <2>2. InSlot(0, 0)
    BY Sizes DEF InSlot
  <2>3. 0 < END
    BY Sizes
  <2>4. InSlot(Calls, rx_sample_count)'
    BY <1>1, <1>2, <2>2 DEF InSlot
  <2> QED
    BY <1>1, <1>2, <1>3, <2>1, <2>3, <2>4 DEF InFlight
<1> QED
  BY <1>1, <1>3, <1>5, <1>6 DEF UartInv

\* A quiet line stays quiet.
LEMMA QuietStays ==
  ASSUME UartInv, rx_is_sampling = 0, line' = 1, Sample, Post,
         ~(slot' = 0 /\ age' = 1)
  PROVE  UNCHANGED <<receiver, mail>> /\ UartTypeOK'
<1>1. UNCHANGED receiver
  BY DEF Sample, StartSampling, Silent, StartBit, DataBit, StopBit
<1>2. UNCHANGED mail
  BY DEF Post, Delivers
<1> QED
  BY <1>1, <1>2 DEF UartInv, UartTypeOK, receiver

\* After delivery the receiver waits for the frame to end.
LEMMA DoneStays ==
  ASSUME UartInv, Done, Hold \/ NextBit \/ Rest, Sample, Post
  PROVE  UartInv' /\ UNCHANGED mail
<1>1. /\ rx_is_sampling = 0 /\ period \in Periods /\ Calls >= END
      /\ mail = [state |-> "delivered", char |-> frame] /\ SenderTypeOK
  BY DEF UartInv, Done
<1>2. /\ SenderTypeOK' /\ line' = 1 /\ Calls' >= END
      /\ UNCHANGED <<period, frame>> /\ ~(slot' = 0 /\ age' = 1)
  <2>1. CASE Hold \/ NextBit
    <3>1. /\ SenderTypeOK' /\ Calls' = Calls + 1 /\ UNCHANGED <<period, frame>>
          /\ ~(slot' = 0 /\ age' = 1)
      BY <1>1, <2>1, FrameGoesOn
    <3>2. Calls \in Int
      BY <1>1, Pace DEF SenderTypeOK, Calls
    <3>3. Calls' > END
      BY <1>1, <3>1, <3>2, Sizes
    <3>4. slot' = STOP
      BY <1>1, <3>1, <3>3, LineIsUp DEF SenderTypeOK, Calls
    <3>5. line' = 1
      BY <3>1, <3>4, Sizes DEF SenderTypeOK, Level
    <3> QED
      BY <3>1, <3>3, <3>5, <3>2, Sizes
  <2>2. CASE Rest
    BY <1>1, <2>2, ProgramRests DEF sender
  <2> QED
    BY <2>1, <2>2
<1>3. UNCHANGED <<receiver, mail>> /\ UartTypeOK'
  BY <1>1, <1>2, QuietStays
<1>4. Done'
  BY <1>1, <1>2, <1>3 DEF Done, receiver
<1> QED
  BY <1>2, <1>3, <1>4 DEF UartInv

\* Before the first frame there is silence or that frame.
LEMMA QuietSteps ==
  ASSUME UartInv, Quiet, Rest, Sample, Post
  PROVE  UartInv' /\ UNCHANGED mail
<1>1. /\ SenderTypeOK' /\ line' = 1 /\ UNCHANGED <<sender, line>>
      /\ ~(slot' = 0 /\ age' = 1)
  BY ProgramRests DEF UartInv
<1>2. UNCHANGED <<receiver, mail>> /\ UartTypeOK'
  BY <1>1, QuietStays DEF Quiet
<1>3. Quiet'
  BY <1>1, <1>2 DEF Quiet, receiver, sender
<1> QED
  BY <1>1, <1>2, <1>3 DEF UartInv

\* The call after which the receiver has taken its q-th sample, or none.
LEMMA SampleTaken ==
  ASSUME UartInv, InFlight, Hold \/ NextBit, Sample, Post, RxSlot <= STOP
  PROVE  UartInv' /\ UNCHANGED mail
<1> DEFINE t == rx_tick_count
           n == rx_sample_count
           q == RxSlot
<1>1. /\ rx_is_sampling = 1 /\ period \in Periods /\ t = Calls /\ Calls < END
      /\ InSlot(t, n) /\ rx_char = Received(Taken(n))
      /\ mail = [state |-> "sent", char |-> frame] /\ SenderTypeOK
      /\ rx_char \in Chars /\ t \in Nat /\ n \in Nat
  BY Sizes DEF UartInv, InFlight, UartTypeOK
<1>2. /\ SenderTypeOK' /\ Calls' = Calls + 1 /\ UNCHANGED <<period, frame>>
      /\ ~(slot' = 0 /\ age' = 1)
  BY <1>1, FrameGoesOn
<1>3. q = t \div R
  BY <1>1 DEF RxSlot, Ticks, R
<1>4. q \in Nat /\ q * R <= t /\ t < (q + 1) * R
  BY <1>1, <1>3, SlotOf
<1>5. InSlot(t + 1, q) /\ (q = n \/ (q = n + 1 /\ t = q * R))
  BY <1>1, <1>4, SlotMoves
<1>6. q <= STOP
  OBVIOUS
<1> HIDE DEF t, n, q
<1>7. /\ rx_tick_count' = t + 1 /\ rx_is_sampling' = 1 /\ rx_sample_count' = q
      /\ rx_char' = IF q > 1 /\ q = n + 1 THEN Shifted(rx_char, line') ELSE rx_char
  <2>1. ~StartSampling /\ ~Silent /\ ~StopBit
    BY <1>1, <1>4, <1>6, Sizes DEF StartSampling, Silent, StopBit, q
  <2>2. CASE StartBit
    <3>1. q <= 1 /\ rx_tick_count' = t + 1 /\ rx_is_sampling' = 1 /\ rx_char' = rx_char
          /\ rx_sample_count' = IF q = 1 THEN 1 ELSE n
      BY <1>1, <2>2 DEF StartBit, Ticks, t, n, q
    <3> QED
      BY <1>1, <1>4, <1>5, <3>1
  <2>3. CASE DataBit
    <3>1. /\ q \in 2..STOP /\ rx_tick_count' = t + 1 /\ rx_is_sampling' = 1
          /\ \/ n = q - 1 /\ rx_char' = Shifted(rx_char, line') /\ rx_sample_count' = n + 1
             \/ n # q - 1 /\ rx_char' = rx_char /\ rx_sample_count' = n
      BY <1>1, <2>3 DEF DataBit, Ticks, t, n, q
    <3> QED
      BY <1>1, <1>4, <1>5, <3>1, Sizes
  <2> QED
    BY <2>1, <2>2, <2>3 DEF Sample
<1>8. rx_char' = Received(Taken(q)) /\ rx_char' \in Chars
  <2>1. CASE q > 1 /\ q = n + 1
    <3> DEFINE k == n - 1
    <3>1. /\ k \in Nat /\ k < BITS /\ Taken(n) = k /\ Taken(q) = k + 1
          /\ k + 1 \in 1..BITS /\ t + 1 = ((k + 1) + 1) * R + 1
      BY <1>1, <1>4, <1>5, <1>6, <2>1, Sizes DEF Taken
    <3> HIDE DEF k
    <3>2. slot' = k + 1
      <4>1. Calls' = ((k + 1) + 1) * R + 1
        BY <1>1, <1>2, <3>1
      <4>2. /\ period \in Periods /\ slot' \in 0..STOP /\ age' \in 1..period
            /\ slot' * period + age' - 1 = ((k + 1) + 1) * R + 1
        BY <1>1, <1>2, <4>1 DEF SenderTypeOK, Calls
      <4> QED
        BY <3>1, <4>2, BitOnLine
    <3>3. line' = frame[k + 1]
      BY <1>2, <3>1, <3>2, Sizes DEF SenderTypeOK, Level
    <3>4. rx_char' = Received(k + 1)
      BY <1>1, <1>7, <2>1, <3>1, <3>3, BitComesIn
    <3>5. line' \in 0..1
      BY <1>1, <3>1, <3>3 DEF SenderTypeOK, Chars
    <3> QED
      BY <1>1, <1>7, <2>1, <3>1, <3>4, <3>5, CharsShift
  <2>2. CASE ~(q > 1 /\ q = n + 1)
    <3>1. Taken(q) = Taken(n)
      BY <1>1, <1>4, <1>5, <2>2 DEF Taken
    <3> QED
      BY <1>1, <1>7, <2>2, <3>1
  <2> QED
    BY <2>1, <2>2
<1>9. UNCHANGED mail
  <2>1. ~Delivers
    BY <1>4, <1>6, Sizes DEF Delivers, q
  <2> QED
    BY <1>2, <2>1 DEF Post
<1>10. t + 1 < END
  <2>1. (q + 1) * R <= (STOP + 1) * R
    BY <1>4, <1>6, Sizes
  <2> QED
    BY <1>1, <1>4, <2>1, Sizes
<1>11. UartTypeOK'
  <2>1. line' \in 0..1
    <3>1. \A i \in 1..BITS : frame'[i] \in 0..1
      BY <1>2 DEF SenderTypeOK, Chars
    <3>2. slot' = 0 \/ slot' = STOP \/ slot' \in 1..BITS
      BY <1>2, Sizes DEF SenderTypeOK
    <3> QED
      BY <1>2, <3>1, <3>2, Sizes DEF SenderTypeOK, Level
  <2> QED
    BY <1>1, <1>4, <1>6, <1>7, <1>8, <1>10, <2>1, Sizes DEF UartTypeOK
<1>12. InFlight'
  <2>1. (Received(Taken(rx_sample_count)))' = Received(Taken(q))
    BY <1>2, <1>7 DEF Received, Taken
  <2>2. rx_tick_count' = Calls' /\ Calls' < END
    BY <1>1, <1>2, <1>7, <1>10
  <2>3. InSlot(Calls, rx_sample_count)'
    BY <1>1, <1>2, <1>5, <1>7 DEF InSlot
  <2> QED
    BY <1>1, <1>2, <1>7, <1>8, <1>9, <2>1, <2>2, <2>3 DEF InFlight
<1> QED
  BY <1>2, <1>9, <1>11, <1>12 DEF UartInv

\* The call that ends the stop bit delivers the character of the frame.
LEMMA CharDelivered ==
  ASSUME UartInv, InFlight, Hold \/ NextBit, Sample, Post, ~(RxSlot <= STOP)
  PROVE  /\ UartInv'
         /\ mail.state = "sent" /\ mail' = [mail EXCEPT !.state = "delivered"]
<1> DEFINE t == rx_tick_count
           n == rx_sample_count
           q == RxSlot
<1>1. /\ rx_is_sampling = 1 /\ period \in Periods /\ t = Calls /\ Calls < END
      /\ InSlot(t, n) /\ rx_char = Received(Taken(n))
      /\ mail = [state |-> "sent", char |-> frame] /\ SenderTypeOK
      /\ rx_char \in Chars /\ t \in Nat /\ n \in Nat /\ frame \in Chars
  BY Sizes DEF UartInv, InFlight, UartTypeOK, SenderTypeOK
<1>2. /\ SenderTypeOK' /\ Calls' = Calls + 1 /\ UNCHANGED <<period, frame>>
      /\ ~(slot' = 0 /\ age' = 1)
  BY <1>1, FrameGoesOn
<1>3. q = t \div R
  BY <1>1 DEF RxSlot, Ticks, R
<1>4. q \in Nat /\ q * R <= t /\ t < (q + 1) * R
  BY <1>1, <1>3, SlotOf
<1>5. q = n \/ (q = n + 1 /\ t = q * R)
  BY <1>1, <1>4, SlotMoves
<1>6. q > STOP
  BY <1>4, Sizes
<1> HIDE DEF t, n, q
<1>7. (BITS + 2) * R <= q * R
  BY <1>4, <1>6, Sizes
<1>8. t = (BITS + 2) * R
  BY <1>1, <1>4, <1>7, Sizes
<1>9. n = STOP
  <2>1. n < BITS + 2
    <3> SUFFICES ASSUME n >= BITS + 2 PROVE FALSE
      BY <1>1, Sizes
    <3>1. (BITS + 2) * R <= n * R
      BY <1>1, Sizes
    <3> QED
      BY <1>1, <1>8, <3>1, Sizes DEF InSlot
  <2> QED
    BY <1>1, <1>4, <1>5, <1>6, <2>1, Sizes
<1>10. rx_char = frame
  <2>1. Taken(n) = BITS
    BY <1>9, Sizes DEF Taken
  <2> QED
    BY <1>1, <2>1, AllComeIn
<1>11. /\ rx_tick_count' = t + 1 /\ rx_is_sampling' = 0
       /\ rx_sample_count' = n + 1 /\ rx_char' = rx_char /\ Delivers
  <2>1. ~StartSampling /\ ~Silent /\ ~StartBit /\ ~DataBit
    BY <1>1, <1>4, <1>6, Sizes DEF StartSampling, Silent, StartBit, DataBit, q
  <2>2. Delivers
    BY <1>1, <1>6, <1>9 DEF Delivers, n, q
  <2> QED
    BY <2>1, <2>2 DEF Sample, StopBit, Ticks, t, n
<1>12. mail' = [state |-> "delivered", char |-> frame]
  BY <1>2, <1>10, <1>11 DEF Post
<1>13. Done'
  <2>1. Calls' >= END
    BY <1>1, <1>2, <1>8, Sizes
  <2> QED
    BY <1>1, <1>2, <1>11, <1>12, <2>1 DEF Done
<1>14. UartTypeOK'
  <2>1. line' \in 0..1
    <3>1. \A i \in 1..BITS : frame'[i] \in 0..1
      BY <1>2 DEF SenderTypeOK, Chars
    <3>2. slot' = 0 \/ slot' = STOP \/ slot' \in 1..BITS
      BY <1>2, Sizes DEF SenderTypeOK
    <3> QED
      BY <1>2, <3>1, <3>2, Sizes DEF SenderTypeOK, Level
  <2> QED
    BY <1>1, <1>8, <1>9, <1>11, <2>1, Sizes DEF UartTypeOK
<1>15. mail.state = "sent" /\ mail' = [mail EXCEPT !.state = "delivered"]
  BY <1>1, <1>12
<1> QED
  BY <1>2, <1>13, <1>14, <1>15 DEF UartInv

\* While a frame is in flight its program neither rests nor begins another.
LEMMA FlightIsBusy ==
  ASSUME UartInv, InFlight
  PROVE  ~Rest /\ ~StartFrame
<1>1. period \in Periods /\ Calls < END
  BY DEF InFlight
<1>2. ~(age = period /\ slot = STOP)
  BY <1>1, Pace, FrameIsOver, Sizes DEF Calls
<1> QED
  BY <1>2 DEF Rest, StartFrame

-----------------------------------------------------------------------------
(***************************************************************************)
(* The theorems.                                                           *)
(***************************************************************************)

\* Every call keeps the invariant, and is a step of the mailbox or none.
LEMMA CallStep ==
  UartInv /\ [per_tick]_vars => UartInv' /\ [MailboxSpec!Next]_mail
<1> SUFFICES ASSUME UartInv, [per_tick]_vars PROVE UartInv' /\ [MailboxSpec!Next]_mail
  OBVIOUS
<1>1. CASE UNCHANGED vars
  <2>1. /\ UNCHANGED <<line, receiver, sender, mail>>
        /\ UNCHANGED <<rx_char, rx_is_sampling, rx_tick_count, rx_sample_count>>
        /\ UNCHANGED <<slot, age, period, frame>>
    BY <1>1 DEF vars, receiver, sender
  <2>2. UartTypeOK' /\ SenderTypeOK'
    BY <2>1 DEF UartInv, UartTypeOK, SenderTypeOK, Level
  <2>3. (Quiet \/ InFlight \/ Done)'
    BY <2>1 DEF UartInv, Quiet, InFlight, Done, Calls, InSlot, Received, Taken
  <2> QED
    BY <2>1, <2>2, <2>3 DEF UartInv
<1>2. CASE per_tick
  <2>1. (Hold \/ NextBit \/ Rest \/ StartFrame) /\ Sample /\ Post
    BY <1>2 DEF per_tick
  <2>2. CASE Quiet
    <3>1. rx_is_sampling = 0 /\ mail.state = "empty" /\ ~Hold /\ ~NextBit
      BY <2>2, Sizes DEF UartInv, SenderTypeOK, Quiet, Hold, NextBit
    <3>2. CASE Rest
      BY <2>1, <2>2, <3>2, QuietSteps
    <3>3. CASE StartFrame
      BY <2>1, <3>1, <3>3, FrameStarts DEF MailboxSpec!Next, MailboxSpec!Send
    <3> QED
      BY <2>1, <3>1, <3>2, <3>3
  <2>3. CASE InFlight
    <3>1. Hold \/ NextBit
      BY <2>1, <2>3, FlightIsBusy
    <3>2. CASE RxSlot <= STOP
      BY <2>1, <2>3, <3>1, <3>2, SampleTaken
    <3>3. CASE ~(RxSlot <= STOP)
      BY <2>1, <2>3, <3>1, <3>3, CharDelivered DEF MailboxSpec!Next, MailboxSpec!Deliver
    <3> QED
      BY <3>2, <3>3
  <2>4. CASE Done
    <3>1. rx_is_sampling = 0 /\ mail.state = "delivered"
      BY <2>4 DEF Done
    <3>2. CASE Hold \/ NextBit \/ Rest
      BY <2>1, <2>4, <3>2, DoneStays
    <3>3. CASE StartFrame
      BY <2>1, <3>1, <3>3, FrameStarts DEF MailboxSpec!Next, MailboxSpec!Send
    <3> QED
      BY <2>1, <3>2, <3>3
  <2> QED
    BY <2>2, <2>3, <2>4 DEF UartInv
<1> QED
  BY <1>1, <1>2

\* UartInv holds after every call.
THEOREM UartInvariance == Spec => []UartInv
BY InitEstablishes, CallStep, PTL DEF Spec

\* The receiver's counts stay in range, from one frame to the next.
THEOREM UartTypeCorrect == Spec => []UartTypeOK
<1>1. UartInv => UartTypeOK
  BY DEF UartInv
<1> QED
  BY <1>1, UartInvariance, PTL

\* Every byte bit-banged on TH reaches the callback once and unchanged.
THEOREM MailboxImplemented == Spec => ImplementsMailbox
<1>1. Init => MailboxSpec!Init
  BY DEF Init, MailboxSpec!Init, MailboxSpec!NoMail
<1>2. UartInv /\ [per_tick]_vars => [MailboxSpec!Next]_mail
  BY CallStep
<1> QED
  BY <1>1, <1>2, UartInvariance, PTL DEF Spec, ImplementsMailbox, MailboxSpec!Spec
=============================================================================
