--------------------------- MODULE ReadLoopProofs ---------------------------
(***************************************************************************)
(* Proofs about ReadLoop, for every interval and every delay of the         *)
(* environment: the schedule never drifts, no reading is early, the loop    *)
(* sleeps only when it has begun every reading that was due at E, and,      *)
(* while a round fits into the read interval, every reading begins on time. *)
(***************************************************************************)
EXTENDS ReadLoop, TLAPS

-----------------------------------------------------------------------------
(***************************************************************************)
(* Arithmetic of timestamps (src/utils.c).                                  *)
(***************************************************************************)
\* update_timestamp() keeps the time it is given.
LEMMA StampFacts ==
  ASSUME NEW t \in Nat
  PROVE  Stamp(t) \in Timestamp /\ Ticks(Stamp(t)) = t
BY SecondAssumption DEF Stamp, Timestamp, Ticks

\* timestamp_add() adds, and its carry keeps the result normalised.
LEMMA AddFacts ==
  ASSUME NEW a \in Timestamp, NEW b \in Timestamp
  PROVE  TimestampAdd(a, b) \in Timestamp /\ Ticks(TimestampAdd(a, b)) = Ticks(a) + Ticks(b)
BY SecondAssumption DEF TimestampAdd, Timestamp, Ticks

\* timestamp_sub() subtracts, and its borrow keeps the result normalised.
LEMMA SubFacts ==
  ASSUME NEW a \in Timestamp, NEW b \in Timestamp
  PROVE  TimestampSub(a, b) \in Timestamp /\ Ticks(TimestampSub(a, b)) = Ticks(a) - Ticks(b)
BY SecondAssumption DEF TimestampSub, Timestamp, Ticks

\* Multiplication by a positive number is monotone.
LEMMA TimesMonotone ==
  ASSUME NEW m \in Int, NEW n \in Int, NEW k \in Nat, m <= n
  PROVE  m * k <= n * k
OBVIOUS

\* A timestamp is negative exactly when its seconds are.
LEMMA SignFacts ==
  ASSUME NEW a \in Timestamp
  PROVE  /\ Ticks(a) \in Int
         /\ a.tv_sec < 0 <=> Ticks(a) < 0
         /\ a.tv_sec = 0 => Ticks(a) = a.tv_usec
         /\ a.tv_sec > 0 => Ticks(a) >= Second
<1>1. a.tv_sec \in Int /\ a.tv_usec \in 0 .. Second - 1 /\ Second \in Nat \ {0}
  BY SecondAssumption DEF Timestamp
<1>2. CASE a.tv_sec < 0
  <2>1. a.tv_sec * Second <= (-1) * Second
    BY <1>1, <1>2, TimesMonotone
  <2> QED
    BY <1>1, <1>2, <2>1 DEF Ticks
<1>3. CASE a.tv_sec = 0
  BY <1>1, <1>3 DEF Ticks
<1>4. CASE a.tv_sec > 0
  <2>1. 1 * Second <= a.tv_sec * Second
    BY <1>1, <1>4, TimesMonotone
  <2> QED
    BY <1>1, <1>4, <2>1 DEF Ticks
<1> QED
  BY <1>1, <1>2, <1>3, <1>4

\* timestamp_le() compares.
LEMMA LeFacts ==
  ASSUME NEW a \in Timestamp, NEW b \in Timestamp
  PROVE  TimestampLe(a, b) <=> Ticks(a) <= Ticks(b)
<1>1. /\ a.tv_sec \in Int /\ a.tv_usec \in 0 .. Second - 1
      /\ b.tv_sec \in Int /\ b.tv_usec \in 0 .. Second - 1
      /\ Second \in Nat \ {0}
  BY SecondAssumption DEF Timestamp
<1>2. CASE a.tv_sec < b.tv_sec
  <2>1. (a.tv_sec + 1) * Second <= b.tv_sec * Second
    BY <1>1, <1>2, TimesMonotone
  <2>2. (a.tv_sec + 1) * Second = a.tv_sec * Second + Second
    BY <1>1
  <2>3. Ticks(a) <= Ticks(b)
    BY <1>1, <2>1, <2>2 DEF Ticks
  <2> QED
    BY <1>1, <1>2, <2>3 DEF TimestampLe
<1>3. CASE a.tv_sec = b.tv_sec
  BY <1>1, <1>3 DEF TimestampLe, Ticks
<1>4. CASE b.tv_sec < a.tv_sec
  <2>1. (b.tv_sec + 1) * Second <= a.tv_sec * Second
    BY <1>1, <1>4, TimesMonotone
  <2>2. (b.tv_sec + 1) * Second = b.tv_sec * Second + Second
    BY <1>1
  <2>3. ~ Ticks(a) <= Ticks(b)
    BY <1>1, <2>1, <2>2 DEF Ticks
  <2> QED
    BY <1>1, <1>4, <2>3 DEF TimestampLe
<1> QED
  BY <1>1, <1>2, <1>3, <1>4

\* The quotient is the number whose multiples enclose the dividend.
LEMMA QuotientFacts ==
  ASSUME NEW x \in Nat, NEW k \in Nat \ {0}, NEW q \in Nat, q * k <= x, x < (q + 1) * k
  PROVE  x \div k = q
<1> DEFINE d == x \div k
<1>1. d \in Int /\ d * k <= x /\ x < (d + 1) * k
  OBVIOUS
<1> HIDE DEF d
<1>2. ASSUME d < q PROVE FALSE
  <2>1. (d + 1) * k <= q * k
    BY <1>1, <1>2, TimesMonotone
  <2> QED
    BY <1>1, <2>1
<1>3. ASSUME q < d PROVE FALSE
  <2>1. (q + 1) * k <= d * k
    BY <1>1, <1>3, TimesMonotone
  <2> QED
    BY <1>1, <2>1
<1>4. d = q
  BY <1>1, <1>2, <1>3
<1> QED
  BY <1>4 DEF d

-----------------------------------------------------------------------------
(***************************************************************************)
(* The schedule.  NoDrift and NeverEarly are inductive with the types and   *)
(* with where E stands: never behind the reading it began.                  *)
(***************************************************************************)
\* E is the clock of this round; from the first test on, a reading was begun.
RoundBegan ==
    /\ Ticks(e) <= now
    /\ pc \in {"test", "read"} => Ticks(e) = now
    /\ pc \in {"read", "wait", "sleep"} => reads > 0
    /\ Start <= Ticks(e)
    /\ reads > 0 => Ticks(last_read) <= Ticks(e)

\* A sleep is chosen by the time left at E.
SleepChosen == pc = "sleep" => Ticks(e) <= Ticks(next_read) /\ st = SleepFor(TimestampSub(next_read, e))

Schedule == TypeOK /\ NoDrift /\ NeverEarly /\ RoundBegan /\ SleepChosen

\* ST is never more than what is configured.
LEMMA SleepForFacts ==
  ASSUME NEW tmp \in Timestamp
  PROVE  SleepFor(tmp) \in 0 .. ConfiguredSleep
<1>1. ConfiguredSleep \in Nat
  BY IntervalAssumption DEF ConfiguredSleep
<1>2. tmp.tv_usec \in Nat
  BY SecondAssumption DEF Timestamp
<1> QED
  BY <1>1, <1>2 DEF SleepFor

\* The schedule holds when the loop is entered.
LEMMA InitSchedule == Init => Schedule
<1> SUFFICES ASSUME Init PROVE Schedule
  OBVIOUS
<1>1. Stamp(Start) \in Timestamp /\ Ticks(Stamp(Start)) = Start
  BY StampFacts, StartAssumption
<1>2. [tv_sec |-> 0, tv_usec |-> 0] \in Timestamp
  BY SecondAssumption DEF Timestamp
<1>3. ConfiguredSleep \in Nat
  BY IntervalAssumption DEF ConfiguredSleep
<1>4. TypeOK
  BY <1>1, <1>2, <1>3, StartAssumption DEF Init, TypeOK
<1>5. NoDrift /\ NeverEarly /\ RoundBegan /\ SleepChosen
  BY <1>1, StartAssumption, IntervalAssumption DEF Init, NoDrift, NeverEarly, RoundBegan, SleepChosen
<1> QED
  BY <1>4, <1>5 DEF Schedule

\* NR := E + RI + (NR - E) is NR + RI, carries and borrows included.
LEMMA NextReadFacts ==
  ASSUME next_read \in Timestamp, e \in Timestamp
  PROVE  /\ NextRead(Stamp(ReadInterval)) \in Timestamp
         /\ Ticks(NextRead(Stamp(ReadInterval))) = Ticks(next_read) + ReadInterval
<1> DEFINE ri == Stamp(ReadInterval)
<1>1. ri \in Timestamp /\ Ticks(ri) = ReadInterval
  BY StampFacts, IntervalAssumption
<1> HIDE DEF ri
<1>2. TimestampAdd(e, ri) \in Timestamp /\ Ticks(TimestampAdd(e, ri)) = Ticks(e) + Ticks(ri)
  BY <1>1, AddFacts
<1>3. TimestampSub(next_read, e) \in Timestamp
      /\ Ticks(TimestampSub(next_read, e)) = Ticks(next_read) - Ticks(e)
  BY SubFacts
<1>4. /\ NextRead(ri) \in Timestamp
      /\ Ticks(NextRead(ri)) = Ticks(TimestampAdd(e, ri)) + Ticks(TimestampSub(next_read, e))
  BY <1>2, <1>3, AddFacts DEF NextRead
<1>5. Ticks(e) \in Int /\ Ticks(next_read) \in Int /\ ReadInterval \in Int
  BY SignFacts, IntervalAssumption
<1> QED
  BY <1>1, <1>2, <1>3, <1>4, <1>5 DEF ri

\* Every step of the loop preserves the schedule.
LEMMA ScheduleStep == Schedule /\ [Next]_vars => Schedule'
<1> SUFFICES ASSUME Schedule, [Next]_vars PROVE Schedule'
  OBVIOUS
<1>1. /\ now \in Nat /\ reads \in Nat /\ ConfiguredSleep \in Nat /\ st \in 0 .. ConfiguredSleep
      /\ next_read \in Timestamp /\ last_read \in Timestamp /\ e \in Timestamp
  BY IntervalAssumption DEF Schedule, TypeOK, ConfiguredSleep
<1>2. Ticks(e) \in Int /\ Ticks(next_read) \in Int /\ Ticks(last_read) \in Int
  BY <1>1, SignFacts
<1> DEFINE tmp == TimestampSub(next_read, e)
<1>3. tmp \in Timestamp /\ Ticks(tmp) = Ticks(next_read) - Ticks(e)
  BY <1>1, SubFacts
<1>4. TimestampLe(next_read, e) <=> Ticks(next_read) <= Ticks(e)
  BY <1>1, LeFacts
<1> USE DEF Schedule
<1>5. CASE OutputPre
  <2>1. PICK d \in 0 .. Keys : now' = now + d
    BY <1>5 DEF OutputPre, TimePasses
  <2>2. now' \in Nat /\ now <= now'
    BY <1>1, <2>1, DelayAssumption
  <2>3. e' \in Timestamp /\ Ticks(e') = now'
    BY <1>5, <2>2, StampFacts DEF OutputPre
  <2>4. UNCHANGED <<next_read, last_read, st, reads>> /\ pc' = "test" /\ pc = "keys"
    BY <1>5 DEF OutputPre
  <2> QED
    BY <1>1, <1>2, <2>2, <2>3, <2>4, StartAssumption
       DEF TypeOK, NoDrift, NeverEarly, RoundBegan, SleepChosen, Ticks
<1>6. CASE Quit
  BY <1>6 DEF Quit, TypeOK, NoDrift, NeverEarly, RoundBegan, SleepChosen, Ticks
<1>7. CASE BeginRead
  <2>1. Ticks(next_read) <= Ticks(e)
    BY <1>4, <1>7 DEF BeginRead
  <2>2. next_read' \in Timestamp /\ Ticks(next_read)' = Ticks(next_read) + ReadInterval
    BY <1>1, <1>7, NextReadFacts DEF BeginRead, Ticks
  <2>3. /\ last_read' = e /\ reads' = reads + 1 /\ pc = "test" /\ pc' = "read"
        /\ UNCHANGED <<now, e, st>>
    BY <1>7 DEF BeginRead
  <2>4. TypeOK'
    BY <1>1, <2>2, <2>3 DEF TypeOK
  <2>5. (reads + 1) * ReadInterval = reads * ReadInterval + ReadInterval
    BY <1>1, IntervalAssumption
  <2>6. NoDrift'
    BY <1>1, <2>2, <2>3, <2>5, StartAssumption, IntervalAssumption DEF NoDrift
  <2>7. NeverEarly'
    BY <1>1, <1>2, <2>1, <2>3, StartAssumption, IntervalAssumption DEF NeverEarly, NoDrift, Ticks
  <2>8. RoundBegan' /\ SleepChosen'
    BY <1>1, <1>2, <2>3 DEF RoundBegan, SleepChosen, Ticks
  <2> QED
    BY <2>4, <2>6, <2>7, <2>8
<1>8. CASE NotDue
  <2>1. reads > 0
    <3>1. Ticks(e) < Ticks(next_read) /\ Start <= Ticks(e)
      BY <1>2, <1>4, <1>8 DEF NotDue, RoundBegan
    <3>2. CASE reads = 0
      BY <1>2, <3>1, <3>2, StartAssumption, IntervalAssumption DEF NoDrift
    <3> QED
      BY <1>1, <3>2
  <2> QED
    BY <1>1, <1>2, <1>8, <2>1
       DEF NotDue, TypeOK, NoDrift, NeverEarly, RoundBegan, SleepChosen, Ticks
<1>9. CASE EndRead
  <2>1. PICK d \in 0 .. Reading : now' = now + d
    BY <1>9 DEF EndRead, TimePasses
  <2>2. now' \in Nat /\ now <= now'
    BY <1>1, <2>1, DelayAssumption
  <2> QED
    BY <1>1, <1>2, <1>9, <2>2
       DEF EndRead, TypeOK, NoDrift, NeverEarly, RoundBegan, SleepChosen, Ticks
<1>10. CASE GoOn
  BY <1>10 DEF GoOn, TypeOK, NoDrift, NeverEarly, RoundBegan, SleepChosen, Ticks
<1>11. CASE BeginSleep
  <2>1. st' \in 0 .. ConfiguredSleep
    BY <1>3, <1>11, SleepForFacts DEF BeginSleep
  <2>2. Ticks(e) <= Ticks(next_read)
    BY <1>2, <1>3, <1>11, SignFacts DEF BeginSleep, IsOverdue
  <2>3. TypeOK' /\ NoDrift' /\ NeverEarly' /\ RoundBegan'
    BY <1>1, <1>2, <1>11, <2>1 DEF BeginSleep, TypeOK, NoDrift, NeverEarly, RoundBegan, Ticks,
       ConfiguredSleep
  <2>4. SleepChosen'
    BY <1>11, <2>2 DEF BeginSleep, SleepChosen, Ticks, SleepFor, TimestampSub, ConfiguredSleep
  <2> QED
    BY <2>3, <2>4
<1>12. CASE Wake
  <2>1. PICK slept \in 0 .. st + Late : now' = now + slept
    BY <1>12 DEF Wake
  <2>2. now' \in Nat /\ now <= now'
    BY <1>1, <2>1, DelayAssumption
  <2> QED
    BY <1>1, <1>2, <1>12, <2>2
       DEF Wake, TypeOK, NoDrift, NeverEarly, RoundBegan, SleepChosen, Ticks
<1>13. CASE UNCHANGED vars
  BY <1>13 DEF vars, TypeOK, NoDrift, NeverEarly, RoundBegan, SleepChosen, Ticks
<1> QED
  BY <1>5, <1>6, <1>7, <1>8, <1>9, <1>10, <1>11, <1>12, <1>13 DEF Next, Round

\* The schedule holds at every moment.
LEMMA ScheduleInvariance == Spec => []Schedule
BY InitSchedule, ScheduleStep, PTL DEF Spec

\* Timestamps stay normalised, and ST stays within the configured sleep time.
THEOREM LoopTypeCorrect == Spec => []TypeOK
<1>1. Schedule => TypeOK
  BY DEF Schedule
<1> QED
  BY <1>1, ScheduleInvariance, PTL

\* The next reading is always due at the start plus a read interval for every
\* reading begun, whatever the delays were.
THEOREM NeverDrifts == Spec => []NoDrift
<1>1. Schedule => NoDrift
  BY DEF Schedule
<1> QED
  BY <1>1, ScheduleInvariance, PTL

\* No reading begins before it is due.
THEOREM ReadsNeverEarly == Spec => []NeverEarly
<1>1. Schedule => NeverEarly
  BY DEF Schedule
<1> QED
  BY <1>1, ScheduleInvariance, PTL

\* The loop never sleeps while a reading that was due at E has not begun.
THEOREM AlwaysCaughtUp == Spec => []CaughtUp
<1>1. Schedule => CaughtUp
  <2> SUFFICES ASSUME Schedule, pc = "sleep", st > 0
               PROVE  reads = (Ticks(e) - Start) \div ReadInterval + 1
    BY DEF CaughtUp
  <2>1. /\ next_read \in Timestamp /\ e \in Timestamp /\ last_read \in Timestamp /\ reads \in Nat
        /\ reads > 0
    BY DEF Schedule, TypeOK, RoundBegan
  <2>2. Ticks(e) \in Int /\ Ticks(next_read) \in Int /\ Ticks(last_read) \in Int
    BY <2>1, SignFacts
  <2>3. Ticks(e) < Ticks(next_read)
    <3> DEFINE tmp == TimestampSub(next_read, e)
    <3>1. tmp \in Timestamp /\ Ticks(tmp) = Ticks(next_read) - Ticks(e)
      BY <2>1, SubFacts
    <3>2. Ticks(e) <= Ticks(next_read) /\ st = SleepFor(tmp)
      BY DEF Schedule, SleepChosen
    <3> HIDE DEF tmp
    <3>3. CASE Ticks(tmp) = 0
      <4>1. tmp.tv_sec = 0 /\ tmp.tv_usec = 0
        BY <3>1, <3>3, SignFacts, SecondAssumption DEF Timestamp
      <4>2. SleepFor(tmp) = 0
        BY <4>1, IntervalAssumption DEF SleepFor, ConfiguredSleep
      <4> QED
        BY <3>2, <4>2
    <3> QED
      BY <2>2, <3>1, <3>2, <3>3
  <2>4. (reads - 1) * ReadInterval <= Ticks(e) - Start
    BY <2>1, <2>2, IntervalAssumption, StartAssumption DEF Schedule, NeverEarly, RoundBegan
  <2>5. Ticks(e) - Start < reads * ReadInterval
    BY <2>1, <2>2, <2>3, IntervalAssumption, StartAssumption DEF Schedule, NoDrift
  <2>6. Ticks(e) - Start \in Nat /\ reads - 1 \in Nat
    BY <2>1, <2>2, StartAssumption DEF Schedule, RoundBegan
  <2>7. (Ticks(e) - Start) \div ReadInterval = reads - 1
    <3>1. (reads - 1) + 1 = reads
      BY <2>1
    <3>2. Ticks(e) - Start < ((reads - 1) + 1) * ReadInterval
      BY <2>5, <3>1
    <3> HIDE DEF Ticks
    <3> QED
      BY <2>4, <2>6, <3>2, QuotientFacts, IntervalAssumption
  <2> QED
    BY <2>1, <2>7
<1> QED
  BY <1>1, ScheduleInvariance, PTL

\* The sleep chosen is no longer than the time that was left at E
\* (bmon.c:361-374), which a reading uses up before the sleep begins.
SleepFitsAtE == pc = "sleep" => st <= Ticks(next_read) - Ticks(e)

\* It is so with a sleep time of a second at most.
LEMMA SleepFits ==
  ASSUME SleepTime <= Second
  PROVE  Spec => []SleepFitsAtE
<1>1. Schedule => SleepFitsAtE
  <2> SUFFICES ASSUME Schedule, pc = "sleep" PROVE st <= Ticks(next_read) - Ticks(e)
    BY DEF SleepFitsAtE
  <2> DEFINE tmp == TimestampSub(next_read, e)
  <2>1. next_read \in Timestamp /\ e \in Timestamp
    BY DEF Schedule, TypeOK
  <2>2. tmp \in Timestamp /\ Ticks(tmp) = Ticks(next_read) - Ticks(e)
        /\ Ticks(next_read) \in Int /\ Ticks(e) \in Int
    BY <2>1, SubFacts, SignFacts
  <2>3. Ticks(e) <= Ticks(next_read) /\ st = SleepFor(tmp)
    BY DEF Schedule, SleepChosen
  <2> HIDE DEF tmp
  <2>4. ConfiguredSleep \in Nat /\ ConfiguredSleep <= Second
    BY IntervalAssumption, SecondAssumption DEF ConfiguredSleep
  <2>5. ~ tmp.tv_sec < 0 /\ tmp.tv_sec \in Int /\ tmp.tv_usec \in 0 .. Second - 1
    BY <2>2, <2>3, SignFacts DEF Timestamp
  <2>6. CASE tmp.tv_sec = 0
    <3>1. Ticks(tmp) = tmp.tv_usec
      BY <2>2, <2>6, SignFacts
    <3> QED
      BY <2>2, <2>3, <2>4, <2>5, <2>6, <3>1 DEF SleepFor
  <2>7. CASE tmp.tv_sec > 0
    <3>1. Ticks(tmp) >= Second
      BY <2>2, <2>7, SignFacts
    <3>2. st = ConfiguredSleep
      BY <2>3, <2>7, <2>5 DEF SleepFor
    <3> QED
      BY <2>2, <2>4, <3>1, <3>2, SecondAssumption
  <2> QED
    BY <2>5, <2>6, <2>7
<1> QED
  BY <1>1, ScheduleInvariance, PTL

-----------------------------------------------------------------------------
(***************************************************************************)
(* Punctuality.  OnTime speaks of the moment a reading begins; what carries *)
(* it from one reading to the next is how far the clock may have run past   *)
(* the time the next reading is due, at each place of the loop.             *)
(***************************************************************************)
Punctual ==
    /\ pc = "keys" => now <= Ticks(next_read) + Reading + Late
    /\ pc = "test" => now <= Ticks(next_read) + Keys + Reading + Late
    /\ pc = "read" => now <= Ticks(next_read) - ReadInterval + Keys + Reading + Late
    /\ pc \in {"wait", "sleep"} => now <= Ticks(e) + Reading
    /\ pc \in {"wait", "sleep"} => Ticks(e) < Ticks(next_read)

\* Every step preserves punctuality when a round fits into the read interval
\* and no sleep is longer than the time left at E.
LEMMA PunctualStep ==
  ASSUME Keys + Reading + Late < ReadInterval
  PROVE  Schedule /\ SleepFitsAtE /\ Punctual /\ [Next]_vars => Punctual'
<1> SUFFICES ASSUME Schedule, SleepFitsAtE, Punctual, [Next]_vars PROVE Punctual'
  OBVIOUS
<1>1. /\ now \in Nat /\ st \in Nat
      /\ next_read \in Timestamp /\ e \in Timestamp
      /\ ReadInterval \in Nat /\ Keys \in Nat /\ Reading \in Nat /\ Late \in Nat
  BY IntervalAssumption, DelayAssumption DEF Schedule, TypeOK, ConfiguredSleep
<1>2. Ticks(e) \in Int /\ Ticks(next_read) \in Int
  BY <1>1, SignFacts
<1>3. TimestampLe(next_read, e) <=> Ticks(next_read) <= Ticks(e)
  BY <1>1, LeFacts
<1>4. pc \in {"test", "read"} => Ticks(e) = now
  BY DEF Schedule, RoundBegan
<1>5. CASE OutputPre
  <2>1. PICK d \in 0 .. Keys : now' = now + d
    BY <1>5 DEF OutputPre, TimePasses
  <2> QED
    BY <1>1, <1>2, <1>5, <2>1 DEF OutputPre, Punctual, Ticks
<1>6. CASE Quit
  BY <1>6 DEF Quit, Punctual
<1>7. CASE BeginRead
  <2>1. Ticks(next_read)' = Ticks(next_read) + ReadInterval
    BY <1>1, <1>7, NextReadFacts DEF BeginRead, Ticks
  <2> QED
    BY <1>1, <1>2, <1>7, <2>1 DEF BeginRead, Punctual
<1>8. CASE NotDue
  BY <1>1, <1>2, <1>3, <1>4, <1>8 DEF NotDue, Punctual, Ticks
<1>9. CASE EndRead
  <2>1. PICK d \in 0 .. Reading : now' = now + d
    BY <1>9 DEF EndRead, TimePasses
  <2> QED
    BY <1>1, <1>2, <1>4, <1>9, <2>1 DEF EndRead, Punctual, Ticks
<1>10. CASE GoOn
  <2>1. Ticks(next_read) - Ticks(e) < 0
    BY <1>1, <1>10, SubFacts, SignFacts DEF GoOn, IsOverdue
  <2> QED
    BY <1>2, <1>10, <2>1 DEF GoOn, Punctual
<1>11. CASE BeginSleep
  BY <1>11 DEF BeginSleep, Punctual, Ticks
<1>12. CASE Wake
  <2>1. PICK slept \in 0 .. st + Late : now' = now + slept
    BY <1>12 DEF Wake
  <2>2. st <= Ticks(next_read) - Ticks(e)
    BY <1>12 DEF Wake, SleepFitsAtE
  <2> QED
    BY <1>1, <1>2, <1>12, <2>1, <2>2 DEF Wake, Punctual, Ticks
<1>13. CASE UNCHANGED vars
  BY <1>13 DEF vars, Punctual, Ticks
<1> QED
  BY <1>5, <1>6, <1>7, <1>8, <1>9, <1>10, <1>11, <1>12, <1>13 DEF Next, Round

\* The clock never runs further past the next reading than that.
LEMMA PunctualInvariance ==
  ASSUME SleepTime <= Second, Keys + Reading + Late < ReadInterval
  PROVE  Spec => []Punctual
<1>1. Init => Punctual
  BY StampFacts, StartAssumption, DelayAssumption DEF Init, Punctual
<1>2. Spec => []SleepFitsAtE
  BY SleepFits
<1>3. Schedule /\ SleepFitsAtE /\ Punctual /\ [Next]_vars => Punctual'
  BY PunctualStep
<1> QED
  BY <1>1, <1>2, <1>3, ScheduleInvariance, PTL DEF Spec

\* A reading that has begun is on time.
LEMMA PunctualIsOnTime == Schedule /\ Punctual => OnTime
<1> SUFFICES ASSUME Schedule, Punctual, pc = "read"
             PROVE  Ticks(last_read) - (Ticks(next_read) - ReadInterval) <= Keys + Reading + Late
  BY DEF OnTime
<1>1. /\ next_read \in Timestamp /\ last_read \in Timestamp /\ e \in Timestamp /\ reads > 0
      /\ now \in Nat
  BY DEF Schedule, TypeOK, RoundBegan
<1>2. Ticks(last_read) \in Int /\ Ticks(next_read) \in Int
  BY <1>1, SignFacts
<1>3. Ticks(last_read) <= Ticks(e) /\ Ticks(e) = now
  BY <1>1 DEF Schedule, RoundBegan
<1>4. now <= Ticks(next_read) - ReadInterval + Keys + Reading + Late
  BY DEF Punctual
<1> QED
  BY <1>1, <1>2, <1>3, <1>4, IntervalAssumption, DelayAssumption

\* While a round's work and a late wake-up fit into the read interval, and the
\* sleep time into a second, no reading begins later than that after it was due.
THEOREM AlwaysOnTime ==
  ASSUME SleepTime <= Second, Keys + Reading + Late < ReadInterval
  PROVE  Spec => []OnTime
BY PunctualInvariance, PunctualIsOnTime, ScheduleInvariance, PTL
=============================================================================
