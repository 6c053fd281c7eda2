--------------------------- MODULE SamplingProofs ---------------------------
(***************************************************************************)
(* Proofs about Sampling, for every interval, delay, width and traffic: the *)
(* loop that reads a counter is the loop of ReadLoop, so its readings are   *)
(* on time, and a rate calculated from them falls below what the line       *)
(* carries by no more than the time of a reading accounts for.              *)
(***************************************************************************)
EXTENDS Sampling, TLAPS

Steps == INSTANCE ReadLoopProofs

-----------------------------------------------------------------------------
(***************************************************************************)
(* The loop.                                                                *)
(***************************************************************************)
\* What ReadLoop assumes is assumed here.
LEMMA LoopAssumptions ==
  /\ Steps!SecondAssumption /\ Steps!IntervalAssumption
  /\ Steps!DelayAssumption /\ Steps!StartAssumption
BY LoopAssumption
   DEF Steps!SecondAssumption, Steps!IntervalAssumption, Steps!DelayAssumption,
       Steps!StartAssumption

\* The loop begins as it does without a counter.
LEMMA LoopInit == Init => Steps!Init
BY DEF Init, Loop!Init, Steps!Init, Loop!Stamp, Steps!Stamp

\* A step of the loop with a counter: where the loop is afterwards, and that
\* it is a step of the loop without one.
LEMMA LoopMove ==
  ASSUME Move
  PROVE  /\ Steps!Next /\ sampled' = sampled /\ spent' = spent /\ CountsMeanwhile /\ pc # "read"
         /\ \/ pc' # "read" /\ next_read' = next_read /\ last_read' = last_read
            \/ Steps!BeginRead
         /\ pc' = "exited" => now' = now
<1>1. /\ sampled' = sampled /\ spent' = spent /\ CountsMeanwhile
      /\ \/ Loop!OutputPre \/ Loop!BeginRead \/ Loop!NotDue \/ Loop!GoOn \/ Loop!BeginSleep
         \/ Loop!Wake \/ Loop!Quit
  BY DEF Move
<1> USE DEF Steps!Next, Steps!Round
<1>2. CASE Loop!OutputPre
  <2>1. Steps!OutputPre
    BY <1>2 DEF Loop!OutputPre, Steps!OutputPre, Loop!TimePasses, Steps!TimePasses,
                Loop!Stamp, Steps!Stamp
  <2> QED
    BY <1>1, <1>2, <2>1 DEF Loop!OutputPre
<1>3. CASE Loop!BeginRead
  <2>1. Steps!BeginRead
    BY <1>3 DEF Loop!BeginRead, Steps!BeginRead, Loop!TimestampLe, Steps!TimestampLe,
                Loop!NextRead, Steps!NextRead, Loop!TimestampAdd, Steps!TimestampAdd,
                Loop!TimestampSub, Steps!TimestampSub, Loop!Stamp, Steps!Stamp
  <2> QED
    BY <1>1, <1>3, <2>1 DEF Loop!BeginRead
<1>4. CASE Loop!NotDue
  <2>1. Steps!NotDue
    BY <1>4 DEF Loop!NotDue, Steps!NotDue, Loop!TimestampLe, Steps!TimestampLe
  <2> QED
    BY <1>1, <1>4, <2>1 DEF Loop!NotDue
<1>5. CASE Loop!GoOn
  <2>1. Steps!GoOn
    BY <1>5 DEF Loop!GoOn, Steps!GoOn, Loop!IsOverdue, Steps!IsOverdue,
                Loop!TimestampSub, Steps!TimestampSub
  <2> QED
    BY <1>1, <1>5, <2>1 DEF Loop!GoOn
<1>6. CASE Loop!BeginSleep
  <2>1. Steps!BeginSleep
    BY <1>6 DEF Loop!BeginSleep, Steps!BeginSleep, Loop!IsOverdue, Steps!IsOverdue,
                Loop!SleepFor, Steps!SleepFor, Loop!ConfiguredSleep, Steps!ConfiguredSleep,
                Loop!TimestampSub, Steps!TimestampSub
  <2> QED
    BY <1>1, <1>6, <2>1 DEF Loop!BeginSleep
<1>7. CASE Loop!Wake
  <2>1. Steps!Wake
    BY <1>7 DEF Loop!Wake, Steps!Wake
  <2> QED
    BY <1>1, <1>7, <2>1 DEF Loop!Wake
<1>8. CASE Loop!Quit
  <2>1. Steps!Quit
    BY <1>8 DEF Loop!Quit, Steps!Quit
  <2> QED
    BY <1>1, <1>8, <2>1 DEF Loop!Quit
<1> QED
  BY <1>1, <1>2, <1>3, <1>4, <1>5, <1>6, <1>7, <1>8

\* The end of a reading is that of the loop without a counter.
LEMMA LoopFinish ==
  ASSUME FinishRead
  PROVE  /\ Steps!EndRead /\ sampled /\ ~sampled' /\ CountsMeanwhile
         /\ pc = "read" /\ pc' = "wait" /\ next_read' = next_read
         /\ spent' = 0 /\ now' >= Clock
<1>1. Steps!EndRead
  BY DEF FinishRead, Loop!EndRead, Steps!EndRead, Loop!TimePasses, Steps!TimePasses
<1>2. /\ sampled /\ ~sampled' /\ CountsMeanwhile /\ pc = "read" /\ pc' = "wait"
      /\ next_read' = next_read /\ spent' = 0 /\ now' >= Clock
  BY DEF FinishRead, Loop!EndRead
<1> QED
  BY <1>1, <1>2

\* The reading of the counter itself is no step of the loop.
LEMMA LoopStep == [Next]_vars => [Steps!Next]_(Steps!vars)
<1>1. Sample \/ Delayed => UNCHANGED Steps!vars
  BY DEF Sample, Delayed, loop, Steps!vars
<1>2. FinishRead => Steps!Next
  BY LoopFinish DEF Steps!Next, Steps!Round
<1>3. Move => Steps!Next
  BY LoopMove
<1>4. UNCHANGED vars => UNCHANGED Steps!vars
  BY DEF vars, loop, Steps!vars
<1> QED
  BY <1>1, <1>2, <1>3, <1>4 DEF Next

\* A loop that reads a counter behaves, but for the counter, as ReadLoop
\* specifies it: what is proved of every loop is true of this one.
THEOREM SamplingIsReadLoop == Spec => Steps!Spec
BY LoopInit, LoopStep, PTL DEF Spec, Steps!Spec

\* Readings of a counter are on time.
THEOREM SamplesAlwaysOnTime ==
  ASSUME SleepTime <= Second, Keys + Reading + Late < ReadInterval
  PROVE  Spec => []OnTime
<1>1. Steps!Spec => []Steps!OnTime
  BY LoopAssumptions, Steps!AlwaysOnTime
<1>2. Steps!OnTime => OnTime
  BY DEF Steps!OnTime, OnTime, Loop!OnTime, Steps!Ticks, Loop!Ticks
<1> QED
  BY <1>1, <1>2, SamplingIsReadLoop, PTL

-----------------------------------------------------------------------------
(***************************************************************************)
(* The rate.                                                                *)
(***************************************************************************)
Slack == Keys + Reading + Late

NextDue == Steps!Ticks(next_read)

\* When the last reading of the counter was due.
Due == IF pc = "read" /\ ~sampled THEN NextDue - 2 * ReadInterval ELSE NextDue - ReadInterval

\* An update that was on time, and that the clock has not run far past.
Near(update, due, clock) ==
    update > 0 => /\ due <= update /\ update <= due + Slack
                  /\ update <= clock /\ clock - update <= ReadInterval + Slack

\* The last reading of the counter was on time.
Timely ==
    /\ sampled \in BOOLEAN
    /\ sampled => pc = "read"
    /\ pc = "read" => last_read = e
    /\ last_update \in Nat
    /\ Near(last_update, Due, now)
    /\ spent \in 0 .. Reading
    /\ pc # "read" => spent = 0

Wrapped(n) == IF n >= Width32 THEN n - Width32 ELSE n

\* What was counted since the counter was read, which was up to Reading after the
\* stamp, between the least and the most that is counted in a tick.
Flowing ==
    last_update > 0 =>
        \E p \in Nat : /\ Quiet * (Clock - last_update - Reading) <= p
                       /\ p <= Busy * (Clock - last_update)
                       /\ kernel = Wrapped(r_prev + p)

\* The least rate: what is counted all along in the shortest interval of a rate,
\* but for the time of a reading.
Least == (Quiet * Precision * (Attr!MinDiff - Reading)) \div Attr!MinDiff

\* Every reading calculates the rate, and none has been below the least.
Rated ==
    /\ kernel \in 0 .. Width32 - 1 /\ r_prev \in 0 .. Width32 - 1
    /\ r_total \in 0 .. Width64 - 1 /\ r_rate \in Nat
    /\ last_update = 0 => r_total = 0 /\ r_prev = 0
    /\ r_last_calc = last_update
    /\ r_rate > 0 => r_rate >= Least

\* The delays of the loop leave room for a rate's interval between readings,
\* and the counter does not turn twice between two readings.
Roomy ==
    /\ SleepTime <= Second
    /\ Slack < ReadInterval
    /\ RateInterval - RateVariance <= ReadInterval - Slack
    /\ Busy * (ReadInterval + Slack + Reading) < Width32

\* Where the clock is in a round.
ClockInRound ==
    /\ now \in Nat /\ NextDue \in Int /\ Steps!Ticks(e) \in Int
    /\ pc \in {"keys", "test", "read", "wait", "sleep", "exited"}
    /\ pc \in {"keys", "test", "wait", "sleep"} => now <= NextDue + Slack
    /\ pc = "read" => /\ NextDue - ReadInterval <= now /\ now <= NextDue - ReadInterval + Slack
                      /\ now > 0 /\ Steps!Ticks(e) = now

\* The schedule of the loop says where the clock is.
LEMMA ClockIsInRound == Steps!Schedule /\ Steps!Punctual => ClockInRound
<1> SUFFICES ASSUME Steps!Schedule, Steps!Punctual PROVE ClockInRound
  OBVIOUS
<1>1. /\ now \in Nat /\ next_read \in Steps!Timestamp /\ e \in Steps!Timestamp
      /\ last_read \in Steps!Timestamp /\ reads \in Nat
      /\ pc \in {"keys", "test", "read", "wait", "sleep", "exited"}
  BY DEF Steps!Schedule, Steps!TypeOK
<1>2. Steps!Ticks(next_read) \in Int /\ Steps!Ticks(e) \in Int /\ Steps!Ticks(last_read) \in Int
  BY <1>1, LoopAssumptions, Steps!SignFacts
<1>3. Keys \in Nat /\ Reading \in Nat /\ Late \in Nat /\ ReadInterval \in Nat /\ Start \in Nat \ {0}
  BY LoopAssumption
<1>4. /\ pc = "keys" => now <= NextDue + Reading + Late
      /\ pc = "test" => now <= NextDue + Keys + Reading + Late
      /\ pc = "read" => now <= NextDue - ReadInterval + Keys + Reading + Late
      /\ pc \in {"wait", "sleep"} => now <= Steps!Ticks(e) + Reading
      /\ pc \in {"wait", "sleep"} => Steps!Ticks(e) < NextDue
  BY DEF Steps!Punctual, NextDue
<1>5. pc = "read" => /\ Steps!Ticks(e) = now /\ reads > 0 /\ Start <= Steps!Ticks(e)
                     /\ Steps!Ticks(last_read) <= Steps!Ticks(e)
  BY DEF Steps!Schedule, Steps!RoundBegan
<1>6. pc = "read" => now >= NextDue - ReadInterval
  <2> SUFFICES ASSUME pc = "read" PROVE now >= NextDue - ReadInterval
    OBVIOUS
  <2>1. Steps!Ticks(last_read) >= Start + (reads - 1) * ReadInterval
    BY <1>5 DEF Steps!Schedule, Steps!NeverEarly
  <2>2. Steps!Ticks(next_read) = Start + reads * ReadInterval
    BY DEF Steps!Schedule, Steps!NoDrift
  <2>3. (reads - 1) * ReadInterval = reads * ReadInterval - ReadInterval /\ reads * ReadInterval \in Int
    BY <1>1, <1>3
  <2> HIDE DEF NextDue
  <2> QED
    BY <1>1, <1>2, <1>3, <1>5, <2>1, <2>2, <2>3 DEF NextDue
<1> QED
  BY <1>1, <1>2, <1>3, <1>4, <1>5, <1>6 DEF ClockInRound, NextDue, Slack

\* A reading moves the time the next one is due, no other step does.
LEMMA NextDueMoves ==
  ASSUME Steps!Schedule
  PROVE  /\ Steps!BeginRead => NextDue' = NextDue + ReadInterval
         /\ next_read' = next_read => NextDue' = NextDue
<1>1. ASSUME Steps!BeginRead PROVE NextDue' = NextDue + ReadInterval
  <2>1. next_read \in Steps!Timestamp /\ e \in Steps!Timestamp
    BY DEF Steps!Schedule, Steps!TypeOK
  <2>2. Steps!Ticks(Steps!NextRead(Steps!Stamp(ReadInterval))) = Steps!Ticks(next_read) + ReadInterval
    BY <2>1, LoopAssumptions, Steps!NextReadFacts
  <2>3. next_read' = Steps!NextRead(Steps!Stamp(ReadInterval))
    BY <1>1 DEF Steps!BeginRead
  <2> QED
    BY <2>2, <2>3 DEF NextDue, Steps!Ticks
<1>2. next_read' = next_read => NextDue' = NextDue
  BY DEF NextDue, Steps!Ticks
<1> QED
  BY <1>1, <1>2

\* A difference of natural numbers.
LEMMA NatDifference ==
  ASSUME NEW x \in Nat, NEW y \in Nat, x >= y
  PROVE  x - y \in Nat
OBVIOUS

\* The clock is monotonic.
LEMMA ClockMoves ==
  ASSUME Steps!Schedule, Steps!Next
  PROVE  now' \in Nat /\ now' >= now
<1>1. now \in Nat /\ st \in 0 .. Steps!ConfiguredSleep
  BY DEF Steps!Schedule, Steps!TypeOK
<1>2. Steps!ConfiguredSleep \in Nat /\ Keys \in Nat /\ Reading \in Nat /\ Late \in Nat
  BY LoopAssumption DEF Steps!ConfiguredSleep
<1>3. CASE Steps!OutputPre \/ Steps!EndRead
  BY <1>1, <1>2, <1>3 DEF Steps!OutputPre, Steps!EndRead, Steps!TimePasses
<1>4. CASE Steps!Wake
  <2>1. PICK slept \in 0 .. st + Late : now' = now + slept
    BY <1>4 DEF Steps!Wake
  <2> QED
    BY <1>1, <1>2, <2>1
<1>5. CASE Steps!BeginRead \/ Steps!NotDue \/ Steps!GoOn \/ Steps!BeginSleep \/ Steps!Quit
  BY <1>1, <1>5 DEF Steps!BeginRead, Steps!NotDue, Steps!GoOn, Steps!BeginSleep, Steps!Quit
<1> QED
  BY <1>3, <1>4, <1>5 DEF Steps!Next, Steps!Round

\* What flows meanwhile is all that happens to the counter.
LEMMA MeanwhileFacts ==
  ASSUME CountsMeanwhile, kernel \in Nat, NEW y \in Nat, Clock' - Clock = y
  PROVE  /\ UNCHANGED <<r_total, r_prev, r_rate, r_last_calc, last_update>>
         /\ last_update > 0 =>
               \E n \in Nat : /\ Quiet * y <= n /\ n <= Busy * y
                              /\ kernel' = Wrapped(kernel + n)
         /\ ~(last_update > 0) => kernel' = kernel
<1>1. Quiet * y \in Nat /\ Busy * y \in Nat
  BY CounterAssumption
<1>2. PICK n \in Quiet * y .. Busy * y : IF Attr!HasRead THEN Attr!Count(n) ELSE UNCHANGED attr
  BY DEF CountsMeanwhile
<1>3. n \in Nat /\ Quiet * y <= n /\ n <= Busy * y
  BY <1>1, <1>2
<1>4. CASE last_update > 0
  <2>1. Attr!Count(n)
    BY <1>2, <1>4 DEF Attr!HasRead
  <2>2. kernel' = Wrapped(kernel + n)
    <3>1. kernel' = IF kernel + n >= Width32 THEN kernel + n - Width32 ELSE kernel + n
      BY <2>1 DEF Attr!Count
    <3> QED
      BY <1>3, <3>1, CounterAssumption DEF Wrapped
  <2> QED
    BY <1>3, <1>4, <2>1, <2>2 DEF Attr!Count, Attr!rate
<1>5. CASE ~(last_update > 0)
  BY <1>2, <1>5 DEF Attr!HasRead, attr
<1> QED
  BY <1>4, <1>5

\* Only a reading updates the counter.
LEMMA UpdatesOnlyWhenRead ==
  ASSUME CountsMeanwhile
  PROVE  last_update' = last_update
BY DEF CountsMeanwhile, Attr!Count, attr

\* Longer times may count more.
LEMMA BusyGrows ==
  ASSUME NEW a \in Nat, NEW x \in Nat, NEW y \in Nat, x <= y
  PROVE  a * x <= a * y
OBVIOUS

\* The least and the most that is counted add up over two times.
LEMMA TrafficSum ==
  ASSUME NEW a \in Nat, NEW x \in Int, NEW y \in Int
  PROVE  a * (x + y) = a * x + a * y /\ a * x \in Int /\ a * y \in Int
OBVIOUS

\* What flows adds up while the counter turns at most once.
LEMMA FlowStep ==
  ASSUME Roomy, Rated, Flowing, CountsMeanwhile,
         Clock \in Nat, NEW y \in Nat, Clock' = Clock + y, last_update \in Nat,
         last_update > 0 => last_update <= Clock /\ Clock + y - last_update <= ReadInterval + Slack + Reading
  PROVE  Rated' /\ Flowing'
<1>0. kernel \in Nat /\ Clock' - Clock = y
  BY CounterAssumption DEF Rated
<1>1. UNCHANGED <<r_total, r_prev, r_rate, r_last_calc, last_update>>
  BY <1>0, MeanwhileFacts
<1>2. /\ kernel \in 0 .. Width32 - 1 /\ r_prev \in 0 .. Width32 - 1 /\ Width32 \in Nat \ {0}
      /\ Quiet \in Nat /\ Busy \in Nat /\ ReadInterval \in Nat /\ Slack \in Nat /\ Reading \in Nat
  BY LoopAssumption, CounterAssumption DEF Rated, Slack
<1>3. CASE ~(last_update > 0)
  BY <1>0, <1>1, <1>3, MeanwhileFacts DEF Rated, Flowing
<1>4. CASE last_update > 0
  <2> DEFINE x == Clock - last_update
             less == Clock - last_update - Reading
             most == ReadInterval + Slack + Reading
  <2>1. /\ x \in Nat /\ Clock' - last_update = x + y /\ x + y <= most /\ most \in Nat
        /\ less \in Int /\ Clock' - last_update - Reading = less + y
    <3>1. last_update <= Clock /\ Clock + y - last_update <= most
      BY <1>4
    <3> DEFINE c == Clock
    <3>2. c \in Nat /\ Clock' = c + y
      OBVIOUS
    <3> HIDE DEF c, Clock, Slack
    <3>3. c - last_update \in Nat /\ most \in Nat
      BY <1>2, <3>1, <3>2 DEF c
    <3> QED
      BY <1>2, <3>1, <3>2, <3>3 DEF c
  <2>2. PICK p \in Nat : Quiet * less <= p /\ p <= Busy * x /\ kernel = Wrapped(r_prev + p)
    BY <1>4, Zenon DEF Flowing
  <2>3. PICK n \in Nat : Quiet * y <= n /\ n <= Busy * y /\ kernel' = Wrapped(kernel + n)
    BY <1>0, <1>4, MeanwhileFacts
  <2>4. /\ Quiet * less <= p /\ p <= Busy * x /\ Quiet * y <= n /\ n <= Busy * y
        /\ kernel = Wrapped(r_prev + p) /\ kernel' = Wrapped(kernel + n)
    BY <2>2, <2>3
  <2>5. Busy * most < Width32
    BY DEF Roomy
  <2> HIDE DEF x, less, most, Clock
  <2>6. /\ Quiet * (less + y) = Quiet * less + Quiet * y /\ Quiet * less \in Int /\ Quiet * y \in Int
        /\ Busy * (x + y) = Busy * x + Busy * y /\ Busy * x \in Int /\ Busy * y \in Int
    BY <1>2, <2>1, TrafficSum
  <2>7. Quiet * (less + y) <= p + n /\ p + n <= Busy * (x + y)
    BY <2>4, <2>6
  <2>8. Busy * (x + y) <= Busy * most
    BY <1>2, <2>1, BusyGrows
  <2>9. p + n < Width32
    <3>1. Busy * (x + y) \in Int /\ Busy * most \in Int
      BY <1>2, <2>1
    <3> QED
      BY <1>2, <2>5, <2>7, <2>8, <3>1
  <2>10. kernel' = Wrapped(r_prev + (p + n)) /\ kernel' \in 0 .. Width32 - 1
    BY <1>2, <2>4, <2>9 DEF Wrapped
  <2>11. Flowing'
    <3>1. Clock' - last_update' = x + y /\ Clock' - last_update' - Reading = less + y
      BY <1>1, <2>1
    <3>2. r_prev' = r_prev /\ p + n \in Nat
      BY <1>1
    <3>3. \E q \in Nat : Quiet * (less + y) <= q /\ q <= Busy * (x + y) /\ kernel' = Wrapped(r_prev + q)
      BY <2>7, <2>10, <3>2
    <3> QED
      BY <3>1, <3>2, <3>3 DEF Flowing, Wrapped
  <2> QED
    BY <1>1, <2>10, <2>11 DEF Rated, Least
<1> QED
  BY <1>3, <1>4

\* A quotient: the largest number whose product with the divisor fits.
LEMMA DivFacts ==
  ASSUME NEW a \in Int, NEW k \in Nat \ {0}
  PROVE  /\ a \div k \in Int /\ (a \div k) * k <= a /\ a < (a \div k) * k + k
         /\ a >= 0 => a \div k \in Nat
<1>1. /\ a \div k \in Int /\ a % k \in Int /\ 0 <= a % k /\ a % k < k
      /\ a = (a \div k) * k + (a % k)
  OBVIOUS
<1>2. (a \div k) * k \in Int
  BY <1>1
<1>3. a >= 0 => a \div k \in Nat
  OBVIOUS
<1> QED
  BY <1>1, <1>2, <1>3

\* Whatever fits is at most the quotient.
LEMMA DivAtLeast ==
  ASSUME NEW a \in Int, NEW k \in Nat \ {0}, NEW m \in Int, m * k <= a
  PROVE  a \div k >= m
<1> DEFINE new == a \div k
<1>1. new \in Int /\ a < new * k + k
  BY DivFacts
<1> HIDE DEF new
<1> SUFFICES ASSUME new < m PROVE FALSE
  BY <1>1 DEF new
<1>2. (new + 1) * k <= m * k
  <2>1. new + 1 <= m
    BY <1>1
  <2> QED
    BY <1>1, <2>1, LoopAssumptions, Steps!TimesMonotone
<1>3. (new + 1) * k = new * k + k /\ new * k \in Int /\ m * k \in Int
  BY <1>1
<1> QED
  BY <1>1, <1>2, <1>3

\* The mean over k of at least q a tick in all but d of them is no less than the
\* mean over the shortest interval, m.
LEMMA MeanAtLeast ==
  ASSUME NEW p \in Nat, NEW q \in Nat, NEW c \in Nat, NEW k \in Nat, NEW m \in Nat \ {0},
         NEW d \in Nat, k >= m, q * (k - d) <= p
  PROVE  (p * c) \div k \in Nat /\ (p * c) \div k >= (q * c * (m - d)) \div m
<1> DEFINE a == q * c
           low == (a * (m - d)) \div m
<1>1. a \in Nat /\ m - d \in Int /\ k - m \in Nat /\ k \in Nat \ {0} /\ p * c \in Nat
  OBVIOUS
<1> HIDE DEF a
<1>2. low \in Int /\ low * m <= a * (m - d)
  <2>1. a * (m - d) \in Int
    BY <1>1
  <2> QED
    BY <2>1, DivFacts
<1> HIDE DEF low
<1>3. low <= a
  <2> SUFFICES ASSUME low > a PROVE FALSE
    BY <1>1, <1>2
  <2>1. (a + 1) * m <= low * m
    <3>1. a + 1 <= low
      BY <1>1, <1>2
    <3> QED
      BY <1>1, <1>2, <3>1, LoopAssumptions, Steps!TimesMonotone
  <2>2. /\ (a + 1) * m = a * m + m /\ a * (m - d) = a * m - a * d
        /\ a * m \in Nat /\ a * d \in Nat /\ low * m \in Int
    BY <1>1, <1>2
  <2> QED
    BY <1>2, <2>1, <2>2
<1>4. low * (k - m) <= a * (k - m)
  BY <1>1, <1>2, <1>3, LoopAssumptions, Steps!TimesMonotone
<1>5. low * k <= a * (k - d)
  <2>1. low * k = low * m + low * (k - m) /\ low * m \in Int /\ low * (k - m) \in Int
    BY <1>1, <1>2
  <2>2. a * (k - d) = a * (m - d) + a * (k - m) /\ a * (m - d) \in Int /\ a * (k - m) \in Int
    BY <1>1
  <2> QED
    BY <1>2, <1>4, <2>1, <2>2
<1>6. a * (k - d) <= p * c
  <2>1. k - d \in Int /\ q * (k - d) \in Int
    OBVIOUS
  <2>2. (q * (k - d)) * c <= p * c
    BY <2>1, LoopAssumptions, Steps!TimesMonotone
  <2>3. (q * (k - d)) * c = a * (k - d)
    BY DEF a
  <2> QED
    BY <2>2, <2>3
<1>7. low * k <= p * c
  <2>1. low * k \in Int /\ a * (k - d) \in Int
    BY <1>1, <1>2
  <2> QED
    BY <1>1, <1>5, <1>6, <2>1
<1>8. (p * c) \div k >= low
  <2> DEFINE b == p * c
  <2> HIDE DEF b
  <2>1. b \in Int /\ low * k <= b
    BY <1>1, <1>7 DEF b
  <2> QED
    BY <1>1, <1>2, <2>1, DivAtLeast DEF b
<1>9. (p * c) \div k \in Nat
  <2> DEFINE b == p * c
  <2> HIDE DEF b
  <2>1. b \in Int /\ b >= 0
    BY <1>1 DEF b
  <2> QED
    BY <1>1, <2>1, DivFacts DEF b
<1> QED
  BY <1>8, <1>9 DEF low, a

\* Smoothing does not fall below what it smooths.
LEMMA SmoothAtLeast ==
  ASSUME NEW new \in Nat, NEW old \in Nat, NEW m \in Int, new >= m, old > 0 => old >= m
  PROVE  Attr!Smooth(new, old) \in Nat /\ Attr!Smooth(new, old) >= m
<1>1. CASE old = 0
  BY <1>1 DEF Attr!Smooth
<1>2. CASE old # 0
  <2>1. 3 * new + old \in Nat /\ 3 * new + old >= 4 * m
    BY <1>2
  <2>2. (3 * new + old) \div 4 \in Nat /\ (3 * new + old) \div 4 >= m
    BY <2>1
  <2> QED
    BY <1>2, <2>2 DEF Attr!Smooth
<1> QED
  BY <1>1, <1>2

\* The difference that is added is what has flowed, whether the counter has
\* turned or not.
LEMMA DeltaIsFlow ==
  ASSUME Rated, NEW p \in Nat, p < Width32, kernel = Wrapped(r_prev + p)
  PROVE  Attr!Delta(kernel, r_prev) = p
<1>1. /\ kernel \in 0 .. Width32 - 1 /\ r_prev \in 0 .. Width32 - 1
      /\ Width32 \in Nat /\ Width64 \in Nat /\ Width32 < Width64
  BY CounterAssumption DEF Rated
<1>2. CASE r_prev + p >= Width32
  <2>1. kernel = r_prev + p - Width32 /\ kernel < r_prev
    BY <1>1, <1>2 DEF Wrapped
  <2>2. Width32 - 1 - r_prev + kernel + 1 = p
    <3>1. Width32 - 1 - r_prev + (r_prev + p - Width32) + 1 = p
      BY <1>1
    <3> QED
      BY <2>1, <3>1
  <2>3. Attr!Uint64(p) = p
    BY <1>1 DEF Attr!Uint64
  <2> QED
    BY <2>1, <2>2, <2>3 DEF Attr!Delta
<1>3. CASE ~(r_prev + p >= Width32)
  <2>1. kernel = r_prev + p /\ ~(kernel < r_prev)
    BY <1>1, <1>3 DEF Wrapped
  <2> QED
    BY <1>1, <2>1 DEF Attr!Delta
<1> QED
  BY <1>2, <1>3

\* What a reading of the counter does, stamped with the clock at its beginning.
LEMMA SampleFacts ==
  ASSUME ClockInRound, Timely, Sample
  PROVE  LET total == Attr!Uint64(r_total + Attr!Delta(kernel, r_prev))
         IN  /\ r_total' = total /\ r_prev' = kernel /\ kernel' = kernel
             /\ r_rate' = Attr!Rate(total, now) /\ r_last_calc' = Attr!LastCalc(total, now)
             /\ last_update' = now /\ now' = now /\ next_read' = next_read
             /\ last_read' = last_read /\ e' = e /\ pc = "read" /\ pc' = "read"
             /\ ~sampled /\ sampled' = TRUE /\ spent' = spent
<1>1. /\ pc = "read" /\ ~sampled /\ Attr!UpdateAt(StampOfReading) /\ sampled' = TRUE
      /\ UNCHANGED loop /\ spent' = spent
  BY DEF Sample
<1>2. StampOfReading = now
  <2>1. last_read = e /\ Steps!Ticks(e) = now
    BY <1>1 DEF ClockInRound, Timely
  <2> QED
    BY <2>1 DEF StampOfReading, Loop!Ticks, Steps!Ticks
<1>3. /\ r_current' = kernel /\ Attr!CalcCounterRate(now) /\ last_update' = now
      /\ kernel' = kernel
  BY <1>1, <1>2 DEF Attr!UpdateAt
<1>4. LET total == Attr!Uint64(r_total + Attr!Delta(kernel, r_prev))
      IN  /\ r_total' = total /\ r_prev' = kernel
          /\ r_rate' = Attr!Rate(total, now) /\ r_last_calc' = Attr!LastCalc(total, now)
  BY <1>3 DEF Attr!CalcCounterRate
<1> QED
  BY <1>1, <1>3, <1>4 DEF loop

\* The least rate is a whole number, negative when a reading may take longer
\* than the shortest interval of a rate.
LEMMA LeastIsInt == Least \in Int
<1> DEFINE m == Attr!MinDiff
           a == Quiet * Precision * (m - Reading)
<1>1. m \in Nat \ {0}
  BY CounterAssumption DEF Attr!MinDiff
<1> HIDE DEF m
<1>2. a \in Int
  BY <1>1, LoopAssumption, CounterAssumption
<1> HIDE DEF a
<1>3. a \div m \in Int
  BY <1>1, <1>2, DivFacts
<1> QED
  BY <1>3 DEF Least, a, m

\* A first reading sets what the next one is compared with.
LEMMA FirstSample ==
  ASSUME Rated, NEW ts \in Nat, r_total = 0
  PROVE  \A total : Attr!Rate(total, ts) = r_rate /\ Attr!LastCalc(total, ts) = ts
BY DEF Attr!Rate, Attr!LastCalc, Attr!IsFirst

\* Time enough lies between two readings of the counter, and not too much.
LEMMA SampleGap ==
  ASSUME Roomy, ClockInRound, Timely, pc = "read", ~sampled, last_update > 0
  PROVE  /\ now - last_update \in Nat \ {0}
         /\ now - last_update >= RateInterval - RateVariance
         /\ now - last_update <= ReadInterval + Slack
<1>1. /\ Due = NextDue - 2 * ReadInterval /\ Due <= last_update /\ last_update <= Due + Slack
      /\ last_update <= now /\ now - last_update <= ReadInterval + Slack /\ last_update \in Nat
  BY DEF Timely, Near, Due
<1>2. now \in Nat /\ NextDue \in Int /\ now >= NextDue - ReadInterval
  BY DEF ClockInRound
<1>3. /\ ReadInterval \in Nat /\ Slack \in Nat
      /\ RateInterval \in Nat /\ RateVariance \in Nat /\ RateInterval > RateVariance
  BY LoopAssumption, CounterAssumption DEF Slack
<1>4. Slack < ReadInterval /\ RateInterval - RateVariance <= ReadInterval - Slack
  BY DEF Roomy
<1> HIDE DEF Slack, NextDue, Due
<1>5. now - last_update >= ReadInterval - Slack
  BY <1>1, <1>2, <1>3
<1> QED
  BY <1>1, <1>2, <1>3, <1>4, <1>5

\* A reading calculates the rate, which is not below what is counted.
LEMMA SampleStep ==
  ASSUME Roomy, ClockInRound, Timely, Flowing, Rated, Sample
  PROVE  Rated' /\ Flowing'
<1> DEFINE d == Attr!Delta(kernel, r_prev)
           total == Attr!Uint64(r_total + d)
<1>1. /\ r_total' = total /\ r_prev' = kernel /\ kernel' = kernel
      /\ r_rate' = Attr!Rate(total, now) /\ r_last_calc' = Attr!LastCalc(total, now)
      /\ last_update' = now /\ now' = now /\ pc = "read" /\ ~sampled /\ spent' = spent
  BY SampleFacts
<1>2. /\ now \in Nat /\ now > 0 /\ last_update \in Nat
      /\ spent \in Nat /\ spent <= Reading /\ Reading \in Nat
  BY <1>1, LoopAssumption DEF ClockInRound, Timely
<1>3. /\ kernel \in 0 .. Width32 - 1 /\ r_prev \in 0 .. Width32 - 1
      /\ r_total \in 0 .. Width64 - 1 /\ r_rate \in Nat
      /\ Width32 \in Nat \ {0} /\ Width64 \in Nat /\ Width32 < Width64
      /\ Quiet \in Nat /\ Busy \in Nat /\ Precision \in Nat \ {0}
      /\ ReadInterval \in Nat /\ Slack \in Nat
  BY LoopAssumption, CounterAssumption DEF Rated, Slack
<1>4. Flowing'
  <2>1. Clock' - last_update' = spent
    BY <1>1, <1>2 DEF Clock
  <2>2. Quiet * (spent - Reading) <= 0 /\ 0 <= Busy * spent
    <3>1. Quiet * (spent - Reading) = 0 - Quiet * (Reading - spent) /\ Quiet * (Reading - spent) \in Nat
      BY <1>2, <1>3
    <3> QED
      BY <1>2, <1>3, <3>1
  <2>3. kernel' = Wrapped(r_prev' + 0)
    BY <1>1, <1>3 DEF Wrapped
  <2> QED
    BY <2>1, <2>2, <2>3 DEF Flowing, Wrapped
<1>5. CASE last_update = 0
  <2>1. r_total = 0 /\ r_prev = 0
    BY <1>5 DEF Rated
  <2>2. d = kernel
    BY <1>3, <2>1 DEF Attr!Delta
  <2>3. total \in 0 .. Width64 - 1
    BY <1>3, <2>1, <2>2 DEF Attr!Uint64
  <2>4. r_rate' = r_rate /\ r_last_calc' = now
    BY <1>1, <1>2, <2>1, FirstSample
  <2> HIDE DEF total
  <2> QED
    BY <1>1, <1>2, <1>3, <1>4, <2>3, <2>4 DEF Rated, Least
<1>6. CASE last_update > 0
  <2> DEFINE k == now - last_update
  <2>1. k \in Nat \ {0} /\ k >= RateInterval - RateVariance /\ k <= ReadInterval + Slack
    BY <1>1, <1>6, SampleGap
  <2>2. PICK p \in Nat : /\ Quiet * (k - Reading) <= p /\ p <= Busy * (k + spent)
                          /\ kernel = Wrapped(r_prev + p)
    <3>1. PICK p \in Nat : /\ Quiet * (Clock - last_update - Reading) <= p
                            /\ p <= Busy * (Clock - last_update)
                            /\ kernel = Wrapped(r_prev + p)
      BY <1>6, Zenon DEF Flowing
    <3> HIDE DEF k
    <3>2. Clock - last_update = k + spent /\ Clock - last_update - Reading = (k - Reading) + spent
      BY <1>2 DEF Clock, k
    <3>3. /\ Quiet * ((k - Reading) + spent) = Quiet * (k - Reading) + Quiet * spent
          /\ Quiet * (k - Reading) \in Int /\ Quiet * spent \in Nat
      BY <1>2, <1>3, <2>1
    <3>4. Quiet * (k - Reading) <= p
      BY <3>1, <3>2, <3>3
    <3> QED
      BY <3>1, <3>2, <3>4
  <2> HIDE DEF k
  <2>3. p < Width32
    <3>1. k + spent \in Nat /\ ReadInterval + Slack + Reading \in Nat
          /\ k + spent <= ReadInterval + Slack + Reading
      <4> HIDE DEF Slack
      <4> QED
        BY <1>2, <1>3, <2>1
    <3>2. Busy * (k + spent) <= Busy * (ReadInterval + Slack + Reading)
      BY <1>3, <3>1, BusyGrows
    <3>3. Busy * (k + spent) \in Nat /\ Busy * (ReadInterval + Slack + Reading) \in Nat
      BY <1>3, <3>1
    <3>4. Busy * (ReadInterval + Slack + Reading) < Width32
      BY DEF Roomy
    <3> QED
      BY <1>3, <2>2, <3>2, <3>3, <3>4
  <2>4. d = p
    BY <2>2, <2>3, DeltaIsFlow
  <2>5. total \in 0 .. Width64 - 1 /\ Attr!Uint64(total - r_total) = p
    <3>1. total = Attr!Uint64(r_total + p)
      BY <2>4
    <3> QED
      BY <1>3, <2>3, <3>1 DEF Attr!Uint64
  <2> HIDE DEF total
  <2>6. r_last_calc' = now
    <3>1. now - r_last_calc = k
      BY DEF k, Rated
    <3>2. ~Attr!IsEarly(now)
      BY <2>1, <3>1, CounterAssumption DEF Attr!IsEarly, Attr!MinDiff
    <3> QED
      BY <1>1, <3>2 DEF Attr!LastCalc
  <2>7. r_rate' \in Nat /\ (r_rate' > 0 => r_rate' >= Least)
    <3>1. CASE r_total = 0
      <4>1. r_rate' = r_rate
        BY <1>1, <1>2, <3>1, FirstSample
      <4> QED
        BY <1>3, <4>1 DEF Rated
    <3>2. CASE r_total # 0
      <4> DEFINE new == (p * Precision) \div k
                 m == Least
      <4>1. new \in Nat /\ new >= m
        <5>1. Attr!MinDiff \in Nat \ {0} /\ k >= Attr!MinDiff /\ k \in Nat
          BY <2>1, CounterAssumption DEF Attr!MinDiff
        <5> QED
          BY <1>2, <1>3, <2>2, <5>1, MeanAtLeast DEF Least
      <4>2. now - r_last_calc = k
        BY DEF k, Rated
      <4>3. ~Attr!IsEarly(now) /\ ~Attr!IsFirst(r_total)
        BY <2>1, <3>2, <4>2, CounterAssumption DEF Attr!IsEarly, Attr!MinDiff, Attr!IsFirst
      <4>4. r_rate' = Attr!Smooth(new, r_rate)
        BY <1>1, <2>5, <4>2, <4>3, Zenon DEF Attr!Rate
      <4>5. m \in Int /\ (r_rate > 0 => r_rate >= m)
        BY LeastIsInt DEF Rated
      <4> HIDE DEF new, m
      <4>6. Attr!Smooth(new, r_rate) \in Nat /\ Attr!Smooth(new, r_rate) >= m
        BY <1>3, <4>1, <4>5, SmoothAtLeast
      <4> QED
        BY <4>4, <4>6 DEF m
    <3> QED
      BY <3>1, <3>2
  <2> QED
    BY <1>1, <1>2, <1>3, <1>4, <2>5, <2>6, <2>7 DEF Rated, Least
<1> QED
  BY <1>2, <1>5, <1>6

\* A clock that has moved on, but not far past the time the next reading is due.
LEMMA NearLater ==
  ASSUME NEW update \in Nat, NEW due \in Int, NEW clock \in Int, NEW later \in Int,
         Near(update, due, clock), clock <= later, later <= due + ReadInterval + Slack
  PROVE  Near(update, due, later)
<1>1. ReadInterval \in Nat /\ Slack \in Nat
  BY LoopAssumption DEF Slack
<1> HIDE DEF Slack
<1> QED
  BY <1>1 DEF Near

\* An update that has just been made, on time.
LEMMA NearNow ==
  ASSUME NEW due \in Int, NEW clock \in Int, due <= clock, clock <= due + Slack
  PROVE  Near(clock, due, clock)
<1>1. ReadInterval \in Nat /\ Slack \in Nat
  BY LoopAssumption DEF Slack
<1> HIDE DEF Slack
<1> QED
  BY <1>1 DEF Near

\* The last reading stays on time, and the clock within reach of it.
LEMMA TimelyStep ==
  ASSUME Steps!Schedule, Timely, ClockInRound, ClockInRound', [Next]_vars
  PROVE  Timely'
<1>1. ReadInterval \in Nat /\ Slack \in Nat
  BY LoopAssumption DEF Slack
<1> DEFINE c == now'
           due == NextDue'
<1>2. /\ now \in Nat /\ NextDue \in Int /\ last_update \in Nat /\ sampled \in BOOLEAN
      /\ spent \in 0 .. Reading /\ Reading \in Nat
  BY LoopAssumption DEF ClockInRound, Timely
<1>3. /\ c \in Nat /\ due \in Int
      /\ pc' \in {"keys", "test", "read", "wait", "sleep", "exited"}
      /\ pc' \in {"keys", "test", "wait", "sleep"} => c <= due + Slack
      /\ pc' = "read" => due - ReadInterval <= c /\ c <= due - ReadInterval + Slack
  BY DEF ClockInRound
<1>4. CASE Sample
  <2>1. /\ last_update' = c /\ last_read' = last_read /\ e' = e /\ pc = "read" /\ pc' = "read"
        /\ sampled' = TRUE /\ spent' = spent
    BY <1>4, SampleFacts
  <2>2. Due' = due - ReadInterval
    BY <2>1 DEF Due
  <2>3. last_read' = e'
    BY <2>1 DEF Timely
  <2> HIDE DEF Slack, c, due
  <2>4. Near(c, due - ReadInterval, c)
    BY <1>1, <1>3, <2>1, NearNow
  <2>5. Near(last_update', Due', now')
    BY <2>1, <2>2, <2>4 DEF c
  <2>6. last_update' \in Nat
    BY <1>3, <2>1
  <2> QED
    BY <1>2, <2>1, <2>3, <2>5, <2>6 DEF Timely, Near
<1>5. ASSUME Steps!Next, CountsMeanwhile, sampled' \in BOOLEAN, sampled' => pc' = "read",
             spent' = 0,
             pc' = "read" => last_read' = e', Due' = Due,
             c <= Due + ReadInterval + Slack \/ c = now
      PROVE  Timely'
  <2>1. c >= now
    BY <1>5, ClockMoves
  <2>2. last_update' = last_update
    BY <1>5, UpdatesOnlyWhenRead
  <2>3. Due \in Int /\ Near(last_update, Due, now)
    BY <1>1, <1>2 DEF Due, Timely
  <2> HIDE DEF c, due, Slack, Due
  <2>4. Near(last_update, Due, c)
    <3>1. CASE c = now
      BY <2>3, <3>1
    <3>2. CASE c <= Due + ReadInterval + Slack
      BY <1>2, <1>3, <2>1, <2>3, <3>2, NearLater
    <3> QED
      BY <1>5, <3>1, <3>2
  <2>5. Near(last_update', Due', now')
    BY <1>5, <2>2, <2>4 DEF c
  <2>6. last_update' \in Nat
    BY <1>2, <2>2
  <2> QED
    BY <1>2, <1>5, <2>5, <2>6 DEF Timely, Near
<1>6. CASE FinishRead
  <2>1. /\ Steps!EndRead /\ sampled /\ ~sampled' /\ CountsMeanwhile /\ pc' = "wait"
        /\ next_read' = next_read /\ spent' = 0
    BY <1>6, LoopFinish
  <2>2. due = NextDue
    BY <2>1, NextDueMoves
  <2>3. Due' = NextDue - ReadInterval /\ Due = NextDue - ReadInterval
    BY <2>1, <2>2 DEF Due
  <2>4. sampled' \in BOOLEAN
    BY <1>6 DEF FinishRead
  <2>5. c <= NextDue + Slack
    BY <1>3, <2>1, <2>2
  <2>6. c <= Due + ReadInterval + Slack
    <3> HIDE DEF c, NextDue, Slack, due, Due
    <3> QED
      BY <1>1, <1>2, <1>3, <2>3, <2>5
  <2>7. Steps!Next
    BY <2>1 DEF Steps!Next, Steps!Round
  <2>8. Due' = Due
    BY <2>3
  <2> QED
    BY <1>5, <2>1, <2>4, <2>6, <2>7, <2>8
<1>7. CASE Move
  <2>1. /\ Steps!Next /\ sampled' = sampled /\ CountsMeanwhile /\ pc # "read"
        /\ \/ pc' # "read" /\ next_read' = next_read
           \/ Steps!BeginRead
        /\ pc' = "exited" => now' = now
        /\ spent' = spent
    BY <1>7, LoopMove
  <2>2. ~sampled /\ ~sampled' /\ sampled' \in BOOLEAN /\ spent' = 0
    BY <1>2, <2>1 DEF Timely
  <2>3. Due = NextDue - ReadInterval
    BY <2>1, <2>2 DEF Due
  <2>4. CASE pc' # "read" /\ next_read' = next_read
    <3>1. due = NextDue
      BY <2>4, NextDueMoves
    <3>2. Due' = NextDue - ReadInterval
      BY <2>4, <3>1 DEF Due
    <3>3. Due' = Due
      BY <2>3, <3>2
    <3>4. c <= NextDue + Slack \/ c = now
      BY <1>3, <2>1, <2>4, <3>1
    <3>5. c <= Due + ReadInterval + Slack \/ c = now
      <4> HIDE DEF c, NextDue, Slack, due, Due
      <4> QED
        BY <1>1, <1>2, <1>3, <2>3, <3>4
    <3> QED
      BY <1>5, <2>1, <2>2, <2>4, <3>3, <3>5
  <2>5. CASE Steps!BeginRead
    <3>1. pc' = "read" /\ last_read' = e' /\ c = now
      BY <2>5 DEF Steps!BeginRead
    <3>2. due = NextDue + ReadInterval
      BY <2>5, NextDueMoves
    <3>3. Due' = due - 2 * ReadInterval
      BY <2>2, <3>1 DEF Due
    <3>4. Due' = Due
      <4> HIDE DEF NextDue, Due, due
      <4> QED
        BY <1>1, <1>2, <2>3, <3>2, <3>3
    <3> QED
      BY <1>5, <2>1, <2>2, <3>1, <3>4
  <2> QED
    BY <2>1, <2>4, <2>5
<1>8. CASE UNCHANGED vars
  BY <1>8 DEF vars, loop, attr, Timely, Near, Due, NextDue, Steps!Ticks
<1>9. CASE Delayed
  <2>1. /\ spent < Reading /\ spent' = spent + 1 /\ UNCHANGED <<loop, sampled>>
        /\ CountsMeanwhile /\ pc = "read"
    BY <1>9 DEF Delayed
  <2>2. last_update' = last_update
    BY <2>1, UpdatesOnlyWhenRead
  <2>3. spent' \in 0 .. Reading
    BY <1>2, <2>1
  <2> QED
    BY <2>1, <2>2, <2>3 DEF loop, Timely, Near, Due, NextDue, Steps!Ticks
<1> QED
  BY <1>4, <1>6, <1>7, <1>8, <1>9 DEF Next

\* The clock after a step.
LEMMA ClockAfter ==
  ASSUME NEW t \in Nat, NEW s \in Nat, now' = t, spent' = s
  PROVE  Clock' = t + s /\ Clock' \in Nat
BY DEF Clock

\* What is counted and calculated, over any step.
LEMMA CountedStep ==
  ASSUME Roomy, Steps!Schedule, ClockInRound, ClockInRound', Timely, Timely', Flowing, Rated,
         [Next]_vars
  PROVE  Flowing' /\ Rated'
<1>1. CASE Sample
  BY <1>1, SampleStep
<1>7. PICK t \in Nat : now' = t
  BY Zenon DEF ClockInRound
<1>8. PICK s \in 0 .. Reading : spent' = s
  BY Zenon DEF Timely
<1>9. /\ now \in Nat /\ last_update \in Nat /\ spent \in Nat /\ Reading \in Nat
        /\ t \in Nat /\ s \in Nat /\ s <= Reading /\ Clock' = t + s /\ Clock = now + spent
  BY <1>7, <1>8, ClockAfter, LoopAssumption DEF ClockInRound, Timely, Clock
<1>2. ASSUME CountsMeanwhile, t + s >= now + spent PROVE Flowing' /\ Rated'
  <2>1. last_update' = last_update
    BY <1>2, UpdatesOnlyWhenRead
  <2>2. last_update > 0 => last_update <= now /\ t - last_update <= ReadInterval + Slack
    BY <1>7, <2>1 DEF Timely, Near
  <2> DEFINE y == (t + s) - (now + spent)
  <2>3. y \in Nat /\ t + s = (now + spent) + y
    BY <1>2, <1>9
  <2>4. ReadInterval \in Nat /\ Slack \in Nat
    BY LoopAssumption DEF Slack
  <2>5. Clock \in Nat /\ Clock' = Clock + y
    BY <1>9, <2>3
  <2> HIDE DEF y, Slack
  <2>6. last_update > 0 => /\ last_update <= Clock
                           /\ Clock + y - last_update <= ReadInterval + Slack + Reading
    BY <1>9, <2>2, <2>3, <2>4
  <2> QED
    BY <1>2, <1>9, <2>3, <2>5, <2>6, FlowStep
<1>3. CASE FinishRead
  <2>1. CountsMeanwhile /\ spent' = 0 /\ now' >= Clock
    BY <1>3, LoopFinish
  <2>2. t + s >= now + spent
    BY <1>7, <1>8, <1>9, <2>1
  <2> QED
    BY <1>2, <2>1, <2>2
<1>4. CASE Move
  <2>1. CountsMeanwhile /\ spent' = spent /\ Steps!Next
    BY <1>4, LoopMove
  <2>2. now' >= now
    BY <2>1, ClockMoves
  <2>3. t + s >= now + spent
    BY <1>7, <1>8, <1>9, <2>1, <2>2
  <2> QED
    BY <1>2, <2>1, <2>3
<1>6. CASE Delayed
  <2>1. CountsMeanwhile /\ spent' = spent + 1 /\ now' = now
    BY <1>6 DEF Delayed, loop
  <2>2. t + s >= now + spent
    BY <1>7, <1>8, <1>9, <2>1
  <2> QED
    BY <1>2, <2>1, <2>2
<1>5. CASE UNCHANGED vars
  BY <1>5 DEF vars, loop, attr, Flowing, Rated, Wrapped, Clock, Least
<1> QED
  BY <1>1, <1>3, <1>4, <1>5, <1>6 DEF Next

\* A rate that is shown is never below what the line has carried all along, less
\* what a slow reading can shift out of the shortest interval of a rate, whatever
\* the delays of the loop were, as long as they leave room for a rate's interval
\* between two readings.
THEOREM RateNeverUnder ==
  ASSUME Roomy
  PROVE  Spec => []RateNotUnder
<1> DEFINE Loops == Steps!Schedule /\ Steps!Punctual
<1>1. Spec => []Loops
  <2>1. Keys + Reading + Late < ReadInterval /\ SleepTime <= Second
    BY DEF Roomy, Slack
  <2>2. Steps!Spec => []Steps!Punctual
    BY <2>1, LoopAssumptions, Steps!PunctualInvariance
  <2>3. Steps!Spec => []Steps!Schedule
    BY LoopAssumptions, Steps!ScheduleInvariance
  <2> QED
    BY <2>2, <2>3, SamplingIsReadLoop, PTL
<1>2. Init => Timely /\ Flowing /\ Rated
  <2> SUFFICES ASSUME Init PROVE Timely /\ Flowing /\ Rated
    OBVIOUS
  <2>1. /\ pc = "keys" /\ sampled = FALSE /\ last_update = 0 /\ kernel \in 0 .. Width32 - 1
        /\ r_total = 0 /\ r_prev = 0 /\ r_rate = 0 /\ r_last_calc = 0 /\ spent = 0
    BY DEF Init, Loop!Init
  <2>2. Timely
    <3>1. sampled \in BOOLEAN /\ ~sampled /\ pc # "read"
      BY <2>1, Zenon
    <3>2. Near(last_update, Due, now)
      BY <2>1 DEF Near
    <3> QED
      BY <2>1, <3>1, <3>2, LoopAssumption DEF Timely
  <2>3. Flowing
    BY <2>1 DEF Flowing
  <2>4. Rated
    BY <2>1, CounterAssumption DEF Rated
  <2> QED
    BY <2>2, <2>3, <2>4
<1>3. Loops => ClockInRound
  BY ClockIsInRound
<1>4. Loops /\ ClockInRound /\ ClockInRound' /\ Timely /\ [Next]_vars => Timely'
  BY TimelyStep
<1>5. Loops /\ ClockInRound /\ ClockInRound' /\ Timely /\ Timely' /\ Flowing /\ Rated /\ [Next]_vars
         => Flowing' /\ Rated'
  BY CountedStep
<1>6. Rated => RateNotUnder
  BY DEF Rated, Least, RateNotUnder, Attr!RateNotUnder
<1> HIDE DEF Loops
<1> QED
  BY <1>1, <1>2, <1>3, <1>4, <1>5, <1>6, PTL DEF Spec
=============================================================================
