--------------------------- MODULE CounterProofs ---------------------------
(***************************************************************************)
(* Proofs about Counter, for every width of the counters, every interval    *)
(* and every traffic: types; for a 32-bit counter, as long as the kernel     *)
(* does not start it again, that the total is exact and no rate a spike;     *)
(* and that the total does not fall even when it does.                      *)
(***************************************************************************)
EXTENDS Counter, TLAPS

-----------------------------------------------------------------------------
(***************************************************************************)
(* Arithmetic.                                                              *)
(***************************************************************************)
\* One carry or borrow brings a sum or a difference back into 64 bits.
LEMMA Uint64Facts ==
  ASSUME NEW n \in Int, - Width64 <= n, n < 2 * Width64
  PROVE  Uint64(n) \in 0 .. Width64 - 1
BY WidthAssumption DEF Uint64

\* Adding modulo 2^64 in two portions is adding their sum.
LEMMA Uint64Sum ==
  ASSUME NEW x \in 0 .. Width64 - 1, NEW p \in 0 .. Width32, NEW n \in 0 .. Width32, p + n < Width32
  PROVE  Uint64(Uint64(x + p) + n) = Uint64(x + (p + n))
BY WidthAssumption DEF Uint64

\* A quotient of natural numbers is one.
LEMMA QuotientNat ==
  ASSUME NEW x \in Nat, NEW k \in Nat \ {0}
  PROVE  x \div k \in Nat
OBVIOUS

\* What is added to the total fits into 64 bits, whatever the kernel shows.
LEMMA DeltaFacts ==
  ASSUME NEW cur \in 0 .. KernelWidth - 1, NEW prev \in 0 .. KernelWidth - 1
  PROVE  Delta(cur, prev) \in 0 .. Width64 - 1
<1>1. KernelWidth \in Nat /\ Width64 \in Nat /\ KernelWidth <= Width64 /\ Width32 < Width64
  BY WidthAssumption
<1>2. CASE cur < prev
  <2> DEFINE n == Width32 - 1 - prev + cur + 1
  <2>1. n \in Int /\ - Width64 <= n /\ n < 2 * Width64
    BY <1>1, <1>2, WidthAssumption
  <2>2. Uint64(n) \in 0 .. Width64 - 1
    BY <2>1, Uint64Facts
  <2>3. cur \in 0 .. Width64 - 1
    BY <1>1
  <2>4. Delta(cur, prev) = IF IgnoreOverflows THEN cur ELSE Uint64(n)
    BY <1>2 DEF Delta
  <2> QED
    BY <2>2, <2>3, <2>4
<1>3. CASE ~ cur < prev
  <2>1. cur - prev \in 0 .. Width64 - 1
    BY <1>1, <1>3
  <2> QED
    BY <1>3, <2>1 DEF Delta
<1> QED
  BY <1>2, <1>3

-----------------------------------------------------------------------------
(***************************************************************************)
(* Types.                                                                   *)
(***************************************************************************)
\* An attribute that has not been read is all zeroes, and the last
\* calculation is not later than the last update.
Fresh ==
    /\ ~HasRead => /\ r_total = 0 /\ r_prev = 0 /\ r_reset = 0
                   /\ flow = kernel /\ flow_read = 0 /\ flow_reset = 0
    /\ r_last_calc <= last_update /\ last_update <= time

Typed == TypeOK /\ Fresh

\* The types hold when the attribute is created.
LEMMA InitTyped == Init => Typed
<1>1. Init => restarted \in BOOLEAN
  BY Zenon DEF Init
<1> QED
  BY <1>1, WidthAssumption, IntervalAssumption DEF Init, Typed, TypeOK, Fresh, HasRead

\* calc_counter_rate() keeps the rate a natural number and the time of the
\* last calculation one that has been.
LEMMA RateFacts ==
  ASSUME Typed, NEW ts \in Nat, last_update <= ts, NEW total \in 0 .. Width64 - 1
  PROVE  Rate(total, ts) \in Nat /\ LastCalc(total, ts) \in Nat /\ LastCalc(total, ts) <= ts
<1>1. /\ r_rate \in Nat /\ r_last_calc \in Nat /\ r_last_calc <= ts /\ last_update \in Nat
      /\ r_total \in 0 .. Width64 - 1 /\ MinDiff \in Int /\ MinDiff > 0
      /\ Width64 \in Nat /\ Precision \in Nat
  BY WidthAssumption, IntervalAssumption DEF Typed, TypeOK, Fresh, MinDiff
<1>2. LastCalc(total, ts) \in Nat /\ LastCalc(total, ts) <= ts
  BY <1>1 DEF LastCalc
<1>3. CASE IsFirst(r_total) \/ IsEarly(ts)
  BY <1>1, <1>2, <1>3 DEF Rate
<1>4. CASE ~(IsFirst(r_total) \/ IsEarly(ts))
  <2> DEFINE d == Uint64(total - r_total)
             k == ts - r_last_calc
             new == (d * Precision) \div k
  <2>1. d \in Nat
    BY <1>1, Uint64Facts
  <2>2. k \in Nat \ {0}
    BY <1>1, <1>4 DEF IsEarly
  <2> HIDE DEF d, k
  <2>3. d * Precision \in Nat
    BY <1>1, <2>1
  <2>4. new \in Nat
    BY <2>2, <2>3, QuotientNat
  <2> HIDE DEF new
  <2>5. (3 * new + r_rate) \div 4 \in Nat
    BY <1>1, <2>4
  <2>6. Smooth(new, r_rate) \in Nat
    BY <2>4, <2>5 DEF Smooth
  <2> QED
    BY <1>2, <1>4, <2>6 DEF Rate, new, d, k
<1> QED
  BY <1>3, <1>4

\* Every step keeps the types.
LEMMA TypedStep == Typed /\ [Next]_vars => Typed'
<1> SUFFICES ASSUME Typed, [Next]_vars PROVE Typed'
  OBVIOUS
<1>1. /\ KernelWidth \in Nat /\ Width64 \in Nat /\ KernelWidth <= Width64 /\ Width32 <= KernelWidth
      /\ Width32 \in Nat \ {0} /\ Quiet \in Nat /\ Busy \in Nat /\ Busy < Width32 /\ Delay \in Nat
      /\ MinGap \in Nat \ {0}
  BY WidthAssumption, TrafficAssumption, GapAssumption
<1> USE DEF Typed
<1>2. CASE Elapse
  <2>1. PICK n \in Quiet .. Busy : Tick(n)
    BY <1>2 DEF Elapse
  <2>2. HasRead
    BY <1>2 DEF Elapse
  <2>3. kernel' \in 0 .. KernelWidth - 1 /\ flow' \in 0 .. Width64 - 1 /\ time' = time + 1
    BY <1>1, <2>1, Uint64Facts DEF Tick, Count, TypeOK
  <2>4. UNCHANGED <<r_total, r_current, r_prev, r_reset, r_rate, r_last_calc,
                    last_update, flow_read, flow_reset, restarted>>
    BY <2>1 DEF Tick, Count, rate
  <2> QED
    BY <2>2, <2>3, <2>4 DEF TypeOK, Fresh, HasRead
<1>3. CASE Restart
  <2>1. HasRead
    BY <1>3 DEF Restart
  <2>2. restarted' \in BOOLEAN
    BY <1>3, Zenon DEF Restart
  <2> QED
    BY <1>1, <1>3, <2>1, <2>2 DEF Restart, TypeOK, Fresh, HasRead, rate
<1>4. CASE Update
  <2>1. PICK ts \in time - Delay .. time :
          ts > 0 /\ UpdateAt(ts) /\ (HasRead => ts - last_update \in MinGap .. MaxGap)
    BY <1>4 DEF Update
  <2>2. ts \in Nat /\ ts <= time /\ last_update <= ts /\ time \in Nat
    <3>1. time \in Nat /\ last_update \in Nat
      BY DEF TypeOK
    <3>2. ts \in Nat /\ ts <= time
      BY <1>1, <2>1, <3>1
    <3>3. CASE last_update = 0
      BY <3>1, <3>2, <3>3
    <3>4. CASE last_update > 0
      <4>1. ts - last_update \in MinGap .. MaxGap
        BY <2>1, <3>4 DEF HasRead
      <4> QED
        BY <1>1, <3>1, <3>2, <4>1, GapAssumption
    <3> QED
      BY <3>1, <3>2, <3>3, <3>4
  <2> DEFINE total == Uint64(r_total + Delta(kernel, r_prev))
  <2>3. total \in 0 .. Width64 - 1
    BY <1>1, DeltaFacts, Uint64Facts DEF TypeOK
  <2> HIDE DEF total
  <2>4. Rate(total, ts) \in Nat /\ LastCalc(total, ts) \in Nat /\ LastCalc(total, ts) <= ts
    BY <2>2, <2>3, RateFacts
  <2>5. /\ r_total' = total /\ r_prev' = kernel /\ r_current' = kernel
        /\ r_rate' = Rate(total, ts) /\ r_last_calc' = LastCalc(total, ts)
        /\ last_update' = ts /\ flow_read' = flow
        /\ UNCHANGED <<time, kernel, flow, r_reset, flow_reset, restarted>>
    <3>1. r_current' = kernel /\ CalcCounterRate(ts) /\ last_update' = ts /\ flow_read' = flow
          /\ UNCHANGED <<time, kernel, flow, r_reset, flow_reset, restarted>>
      BY <2>1 DEF UpdateAt
    <3>2. Uint64(r_total + Delta(r_current', r_prev)) = total
      BY <3>1 DEF total
    <3> QED
      BY <3>1, <3>2 DEF CalcCounterRate
  <2>6. TypeOK'
    BY <2>2, <2>3, <2>4, <2>5 DEF TypeOK
  <2>7. Fresh'
    BY <2>1, <2>2, <2>4, <2>5 DEF Fresh, HasRead
  <2> QED
    BY <2>6, <2>7
<1>5. CASE ResetCounter
  BY <1>5 DEF ResetCounter, ResetTo, TypeOK, Fresh, HasRead
<1>6. CASE UNCHANGED vars
  BY <1>6 DEF vars, rate, TypeOK, Fresh, HasRead
<1> QED
  BY <1>2, <1>3, <1>4, <1>5, <1>6 DEF Next

\* The types hold at every moment.
LEMMA TypedInvariance == Spec => []Typed
BY InitTyped, TypedStep, PTL DEF Spec

\* Every variable keeps its type: no total leaves 64 bits and no rate is
\* negative, whatever the kernel's counter does.
THEOREM CounterTypeCorrect == Spec => []TypeOK
<1>1. Typed => TypeOK
  BY DEF Typed
<1> QED
  BY <1>1, TypedInvariance, PTL

-----------------------------------------------------------------------------
(***************************************************************************)
(* Exactness.  The kernel's counter wraps around at 32 bits and counts less  *)
(* than 2^32 between two readings.                                          *)
(***************************************************************************)
Counter32 ==
    /\ KernelWidth = Width32 /\ ~IgnoreOverflows
    /\ Busy * (MaxGap + Delay) < Width32

\* p has been counted since the last reading.
Pending(p) ==
    /\ flow = Uint64(flow_read + p)
    /\ kernel = IF r_prev + p >= Width32 THEN r_prev + p - Width32 ELSE r_prev + p

PendingBounded ==
    HasRead => /\ time - last_update <= MaxGap + Delay
               /\ \E p \in 0 .. Busy * (time - last_update) : Pending(p)

Exact == TotalExact /\ r_reset = flow_reset /\ PendingBounded

ExactSoFar == ~restarted => Exact

\* What is pending stays below 2^32.
LEMMA PendingSmall ==
  ASSUME Counter32, Typed, PendingBounded, HasRead
  PROVE  \E p \in 0 .. Busy * (time - last_update) : Pending(p) /\ p < Width32
<1>1. /\ time - last_update \in Nat /\ time - last_update <= MaxGap + Delay
      /\ Busy \in Nat /\ MaxGap \in Nat /\ Delay \in Nat /\ Width32 \in Nat
  BY WidthAssumption, TrafficAssumption, GapAssumption DEF Typed, TypeOK, Fresh, PendingBounded
<1>2. Busy * (time - last_update) <= Busy * (MaxGap + Delay)
  BY <1>1
<1>3. PICK p \in 0 .. Busy * (time - last_update) : Pending(p)
  BY DEF PendingBounded
<1>4. p < Width32
  BY <1>1, <1>2, <1>3 DEF Counter32
<1> QED
  BY <1>3, <1>4

\* The difference calc_counter_rate() adds is what was pending, wrapped or not.
LEMMA DeltaIsPending ==
  ASSUME Counter32, Typed, NEW p \in Nat, p < Width32, Pending(p)
  PROVE  Delta(kernel, r_prev) = p
<1>1. /\ Width32 \in Nat /\ Width64 \in Nat /\ Width32 < Width64
      /\ r_prev \in 0 .. Width32 - 1 /\ kernel \in 0 .. Width32 - 1
  BY WidthAssumption DEF Counter32, Typed, TypeOK
<1>2. CASE r_prev + p >= Width32
  <2>1. kernel = r_prev + p - Width32 /\ kernel < r_prev
    BY <1>1, <1>2 DEF Pending
  <2>2. Width32 - 1 - r_prev + kernel + 1 = p
    BY <1>1, <2>1
  <2>3. Uint64(p) = p
    BY <1>1 DEF Uint64
  <2> QED
    BY <2>1, <2>2, <2>3 DEF Delta, Counter32
<1>3. CASE ~ r_prev + p >= Width32
  <2>1. kernel = r_prev + p /\ ~ kernel < r_prev
    BY <1>1, <1>3 DEF Pending
  <2> QED
    BY <1>1, <2>1 DEF Delta
<1> QED
  BY <1>2, <1>3

\* A tick adds to what is pending.
LEMMA ExactElapse ==
  ASSUME Counter32, Typed, Exact, ~restarted, Elapse
  PROVE  Exact'
<1>1. HasRead /\ time - last_update < MaxGap + Delay
  BY DEF Elapse
<1>2. PICK n \in Quiet .. Busy : Tick(n)
  BY DEF Elapse
<1>3. /\ time' = time + 1 /\ flow' = Uint64(flow + n)
      /\ kernel' = IF kernel + n >= Width32 THEN kernel + n - Width32 ELSE kernel + n
      /\ UNCHANGED <<r_total, r_reset, r_prev, last_update, flow_read, flow_reset>>
  BY <1>2 DEF Tick, Count, rate, Counter32
<1>4. /\ time \in Nat /\ last_update \in Nat /\ last_update <= time
      /\ flow_read \in 0 .. Width64 - 1
      /\ r_prev \in 0 .. Width32 - 1 /\ kernel \in 0 .. Width32 - 1
      /\ Width32 \in Nat /\ Width64 \in Nat /\ Width32 < Width64
      /\ Busy \in Nat /\ n \in Nat /\ n <= Busy /\ MaxGap \in Nat /\ Delay \in Nat
  BY WidthAssumption, TrafficAssumption, GapAssumption DEF Typed, TypeOK, Fresh, Counter32
<1>5. PICK p \in 0 .. Busy * (time - last_update) : Pending(p)
  BY <1>1 DEF Exact, PendingBounded
<1>6. Busy * (time' - last_update') = Busy * (time - last_update) + Busy
  BY <1>3, <1>4
<1>7. Busy * (time - last_update) \in Nat
  BY <1>4
<1>8. p \in Nat /\ p + n \in 0 .. Busy * (time' - last_update')
  BY <1>4, <1>5, <1>6, <1>7
<1>9. time' - last_update' <= MaxGap + Delay /\ HasRead'
  BY <1>1, <1>3, <1>4 DEF HasRead
<1>10. Busy * (time' - last_update') <= Busy * (MaxGap + Delay)
  BY <1>3, <1>4, <1>9
<1>11. p + n < Width32
  <2>1. Busy * (MaxGap + Delay) < Width32 /\ Busy * (MaxGap + Delay) \in Nat
    BY <1>4 DEF Counter32
  <2>2. Busy * (time' - last_update') \in Nat
    BY <1>4, <1>6, <1>7
  <2> QED
    BY <1>4, <1>8, <1>10, <2>1, <2>2
<1>12. Pending(p + n)'
  <2>1. flow' = Uint64(flow_read + (p + n))
    <3>1. p \in 0 .. Width32 /\ n \in 0 .. Width32
      BY <1>4, <1>8, <1>11
    <3>2. Uint64(Uint64(flow_read + p) + n) = Uint64(flow_read + (p + n))
      BY <1>4, <1>11, <3>1, Uint64Sum
    <3> QED
      BY <1>3, <1>5, <3>2 DEF Pending
  <2>2. kernel' = IF r_prev + (p + n) >= Width32 THEN r_prev + (p + n) - Width32 ELSE r_prev + (p + n)
    BY <1>3, <1>4, <1>5, <1>8, <1>11 DEF Pending
  <2> QED
    BY <1>3, <2>1, <2>2 DEF Pending
<1>13. PendingBounded'
  BY <1>8, <1>9, <1>12 DEF PendingBounded
<1> QED
  BY <1>3, <1>13 DEF Exact, TotalExact

\* A reading adds exactly what was pending to the total.
LEMMA ExactUpdate ==
  ASSUME Counter32, Typed, Exact, ~restarted, Update
  PROVE  Exact'
<1>1. PICK ts \in time - Delay .. time : ts > 0 /\ UpdateAt(ts)
  BY DEF Update
<1>2. /\ r_total' = Uint64(r_total + Delta(kernel, r_prev)) /\ r_prev' = kernel
      /\ last_update' = ts /\ flow_read' = flow
      /\ UNCHANGED <<time, kernel, flow, r_reset, flow_reset>>
  <2>1. r_current' = kernel /\ CalcCounterRate(ts) /\ last_update' = ts /\ flow_read' = flow
        /\ UNCHANGED <<time, kernel, flow, r_reset, flow_reset>>
    BY <1>1 DEF UpdateAt
  <2> QED
    BY <2>1 DEF CalcCounterRate
<1>3. /\ time \in Nat /\ Delay \in Nat /\ MaxGap \in Nat /\ Busy \in Nat
      /\ flow \in 0 .. Width64 - 1 /\ kernel \in 0 .. Width32 - 1 /\ r_prev \in 0 .. Width32 - 1
      /\ Width32 \in Nat /\ Width64 \in Nat /\ Width32 < Width64
  BY WidthAssumption, TrafficAssumption, GapAssumption DEF Typed, TypeOK, Counter32
<1>4. r_total' = flow
  <2>1. CASE HasRead
    <3>1. PICK p \in 0 .. Busy * (time - last_update) : Pending(p) /\ p < Width32
      BY <2>1, PendingSmall DEF Exact
    <3>2. p \in Nat
      OBVIOUS
    <3>3. Delta(kernel, r_prev) = p
      BY <3>1, <3>2, DeltaIsPending
    <3> QED
      BY <1>2, <3>1, <3>3 DEF Exact, TotalExact, Pending
  <2>2. CASE ~HasRead
    <3>1. r_total = 0 /\ r_prev = 0 /\ flow = kernel
      BY <2>2 DEF Typed, Fresh
    <3>2. Delta(kernel, r_prev) = kernel
      BY <1>3, <3>1 DEF Delta
    <3> QED
      BY <1>2, <1>3, <3>1, <3>2 DEF Uint64
  <2> QED
    BY <2>1, <2>2
<1>5. time' - last_update' \in Nat /\ time' - last_update' <= MaxGap + Delay
  BY <1>1, <1>2, <1>3
<1>6. Pending(0)'
  BY <1>2, <1>3 DEF Pending, Uint64
<1>7. 0 \in 0 .. Busy * (time' - last_update')
  BY <1>3, <1>5
<1>8. PendingBounded'
  BY <1>5, <1>6, <1>7 DEF PendingBounded
<1> QED
  BY <1>2, <1>4, <1>8 DEF Exact, TotalExact

\* What has not started again had not before the step.
LEMMA NotYet == [Next]_vars /\ ~restarted' => ~restarted /\ ~Restart
BY DEF Next, vars, Elapse, Tick, Count, Restart, Update, UpdateAt, ResetCounter

\* Exactness is preserved by every step, until the kernel starts again.
LEMMA ExactStep == Counter32 /\ Typed /\ ExactSoFar /\ [Next]_vars => ExactSoFar'
<1> SUFFICES ASSUME Counter32, Typed, ExactSoFar, [Next]_vars, ~restarted' PROVE Exact'
  BY DEF ExactSoFar
<1>1. ~restarted /\ ~Restart /\ Exact
  BY NotYet DEF ExactSoFar
<1>2. CASE Elapse
  BY <1>1, <1>2, ExactElapse
<1>3. CASE Update
  BY <1>1, <1>3, ExactUpdate
<1>4. CASE ResetCounter
  BY <1>1, <1>4 DEF ResetCounter, ResetTo, Exact, TotalExact, PendingBounded, Pending, HasRead
<1>5. CASE UNCHANGED vars
  BY <1>1, <1>5 DEF vars, rate, Exact, TotalExact, PendingBounded, Pending, HasRead
<1> QED
  BY <1>1, <1>2, <1>3, <1>4, <1>5 DEF Next

\* It holds at every moment.
LEMMA ExactInvariance == ASSUME Counter32 PROVE Spec => []ExactSoFar
<1>1. Init => ExactSoFar
  BY DEF Init, ExactSoFar, Exact, TotalExact, PendingBounded, HasRead
<1>2. Typed /\ ExactSoFar /\ [Next]_vars => ExactSoFar'
  BY ExactStep
<1> QED
  BY <1>1, <1>2, TypedInvariance, PTL DEF Spec

\* A total is exact: it is what the kernel has counted, however often its
\* 32-bit counter has wrapped around.
THEOREM TotalAlwaysExact ==
  ASSUME Counter32
  PROVE  Spec => []TotalExact
<1>1. ExactSoFar => TotalExact
  BY DEF ExactSoFar, Exact, TotalExact
<1> QED
  BY <1>1, ExactInvariance, PTL

\* What is shown is what was counted since the last reset.
THEOREM ShownAlwaysSinceReset ==
  ASSUME Counter32
  PROVE  Spec => []ShownSinceReset
<1>1. ExactSoFar => ShownSinceReset
  BY DEF ExactSoFar, Exact, TotalExact, ShownSinceReset, RateGetTotal
<1> QED
  BY <1>1, ExactInvariance, PTL

-----------------------------------------------------------------------------
(***************************************************************************)
(* No spikes.                                                               *)
(***************************************************************************)
\* A product of natural numbers is one, and grows with each of its factors.
LEMMA ProductMonotone ==
  ASSUME NEW a \in Nat, NEW b \in Nat, NEW c \in Nat, a <= b
  PROVE  a * c \in Nat /\ a * c <= b * c /\ c * a = a * c /\ c * b = b * c
OBVIOUS

\* A common positive factor can be taken out of a comparison.
LEMMA Cancel ==
  ASSUME NEW a \in Nat, NEW b \in Nat, NEW k \in Nat \ {0}, a * k <= b * k
  PROVE  a <= b
<1>1. CASE b < a
  <2>1. (b + 1) * k <= a * k
    BY <1>1, ProductMonotone
  <2>2. (b + 1) * k = b * k + k /\ b * k \in Nat /\ a * k \in Nat
    OBVIOUS
  <2> QED
    BY <2>1, <2>2
<1> QED
  BY <1>1

\* The mean over k of at most b a tick, of which d more ticks may be counted,
\* bounded by what the shortest interval m allows.
LEMMA MeanBounded ==
  ASSUME NEW p \in Nat, NEW prec \in Nat, NEW b \in Nat, NEW d \in Nat,
         NEW k \in Nat \ {0}, NEW m \in Nat \ {0}, m <= k, p <= b * (k + d)
  PROVE  ((p * prec) \div k) * m <= b * prec * (m + d)
<1> DEFINE new == (p * prec) \div k
           c == b * prec
<1>1. new \in Nat /\ new * k <= p * prec /\ c \in Nat /\ p * prec \in Nat
  OBVIOUS
<1>2. p * prec <= c * (k + d)
  <2>1. p * prec <= (b * (k + d)) * prec
    BY ProductMonotone
  <2>2. (b * (k + d)) * prec = c * (k + d)
    OBVIOUS
  <2> QED
    BY <2>1, <2>2
<1> HIDE DEF new, c
<1>3. (new * k) * m <= (c * (k + d)) * m
  <2>1. new * k <= c * (k + d) /\ new * k \in Nat /\ c * (k + d) \in Nat
    BY <1>1, <1>2
  <2> QED
    BY <2>1, ProductMonotone
<1>4. d * m <= d * k
  OBVIOUS
<1>5. (c * (k + d)) * m <= (c * (m + d)) * k
  <2>1. c * (d * m) <= c * (d * k)
    BY <1>1, <1>4, ProductMonotone
  <2>2. (c * (k + d)) * m = c * (k * m) + c * (d * m)
    BY <1>1
  <2>3. (c * (m + d)) * k = c * (k * m) + c * (d * k)
    BY <1>1
  <2>4. c * (k * m) \in Nat /\ c * (d * m) \in Nat /\ c * (d * k) \in Nat
    BY <1>1
  <2> QED
    BY <2>1, <2>2, <2>3, <2>4
<1>6. (new * m) * k <= (c * (m + d)) * k
  <2>1. (new * k) * m = (new * m) * k
    BY <1>1
  <2>2. (new * m) * k \in Nat /\ (c * (k + d)) * m \in Nat /\ (c * (m + d)) * k \in Nat
    BY <1>1
  <2> QED
    BY <1>3, <1>5, <2>1, <2>2
<1>7. new * m \in Nat /\ c * (m + d) \in Nat
  BY <1>1
<1>8. new * m <= c * (m + d)
  BY <1>6, <1>7, Cancel
<1> QED
  BY <1>8 DEF new, c

\* Smoothing stays within a bound of what it smooths.
LEMMA SmoothBounded ==
  ASSUME NEW new \in Nat, NEW old \in Nat, NEW m \in Nat, NEW c \in Nat, new * m <= c, old * m <= c
  PROVE  Smooth(new, old) * m <= c
<1> DEFINE q == (3 * new + old) \div 4
<1>1. q \in Nat /\ q * 4 <= 3 * new + old
  OBVIOUS
<1> HIDE DEF q
<1>2. (q * 4) * m <= (3 * new + old) * m
  BY <1>1, ProductMonotone
<1>3. (q * 4) * m = (q * m) * 4 /\ (3 * new + old) * m = 3 * (new * m) + old * m
      /\ q * m \in Nat /\ new * m \in Nat /\ old * m \in Nat
  BY <1>1
<1>4. q * m <= c
  BY <1>2, <1>3
<1> QED
  BY <1>4 DEF Smooth, q

\* A calculated rate is bounded by what the line carries.
LEMMA RateBounded ==
  ASSUME Counter32, Typed, Exact, NoSpike, ~restarted, NEW ts \in Nat, ts >= time - Delay, ts <= time,
         HasRead => last_update <= ts
  PROVE  Rate(flow, ts) * MinDiff <= Busy * Precision * (MinDiff + Delay)
<1> DEFINE c == Busy * Precision * (MinDiff + Delay)
           k == ts - r_last_calc
           new == (Uint64(flow - r_total) * Precision) \div k
<1>1. /\ r_rate \in Nat /\ r_last_calc \in Nat /\ last_update \in Nat /\ time \in Nat
      /\ r_last_calc <= last_update /\ last_update <= time
      /\ flow \in 0 .. Width64 - 1 /\ r_total \in 0 .. Width64 - 1
      /\ Width32 \in Nat /\ Width64 \in Nat /\ Width32 < Width64
      /\ Busy \in Nat /\ Delay \in Nat /\ Precision \in Nat
      /\ MinDiff \in Nat \ {0}
  BY WidthAssumption, IntervalAssumption, TrafficAssumption, GapAssumption
     DEF Typed, TypeOK, Fresh, MinDiff
<1>2. CASE IsFirst(r_total) \/ IsEarly(ts)
  BY <1>2 DEF Rate, NoSpike
<1>3. CASE ~(IsFirst(r_total) \/ IsEarly(ts))
  <2>1. HasRead
    BY <1>3 DEF IsFirst, Typed, Fresh
  <2>2. PICK p \in 0 .. Busy * (time - last_update) : Pending(p) /\ p < Width32
    BY <2>1, PendingSmall DEF Exact
  <2>3. p \in Nat /\ k \in Nat \ {0} /\ MinDiff <= k
    BY <1>1, <1>3 DEF IsEarly
  <2>4. Uint64(flow - r_total) = p
    BY <1>1, <2>2, <2>3 DEF Pending, Uint64, Exact, TotalExact
  <2>5. p <= Busy * (k + Delay)
    <3>1. time - last_update \in Nat /\ k + Delay \in Nat /\ time - last_update <= k + Delay
      BY <1>1, <2>3
    <3>2. Busy * (time - last_update) <= Busy * (k + Delay)
      BY <1>1, <3>1, ProductMonotone
    <3>3. Busy * (time - last_update) \in Nat /\ Busy * (k + Delay) \in Nat
      BY <1>1, <3>1
    <3> QED
      BY <2>2, <2>3, <3>2, <3>3
  <2> HIDE DEF k
  <2>6. new * MinDiff <= c
    BY <1>1, <2>3, <2>4, <2>5, MeanBounded
  <2>7. new \in Nat
    <3>1. p * Precision \in Nat
      BY <1>1, <2>3
    <3> QED
      BY <2>3, <2>4, <3>1, QuotientNat
  <2>8. r_rate * MinDiff <= c /\ c \in Nat
    BY <1>1 DEF NoSpike
  <2> HIDE DEF c, new
  <2>9. Smooth(new, r_rate) * MinDiff <= c
    BY <1>1, <2>6, <2>7, <2>8, SmoothBounded
  <2> QED
    BY <1>3, <2>9 DEF Rate, new, c, k
<1> QED
  BY <1>2, <1>3

\* The rate never exceeds what the line carries, wrap-arounds, resets and the
\* counter's past included.
THEOREM NeverSpikes ==
  ASSUME Counter32
  PROVE  Spec => []NoSpike
<1>1. Init => NoSpike
  <2>1. MinDiff \in Nat /\ Busy * Precision * (MinDiff + Delay) \in Nat
    BY IntervalAssumption, TrafficAssumption, GapAssumption DEF MinDiff
  <2> QED
    BY <2>1 DEF Init, NoSpike
<1>2. Typed /\ ExactSoFar /\ ExactSoFar' /\ NoSpike /\ [Next]_vars => NoSpike'
  <2> SUFFICES ASSUME Typed, ExactSoFar, ExactSoFar', NoSpike, [Next]_vars, ~restarted'
               PROVE  NoSpike'
    BY DEF NoSpike
  <2>1. ~restarted /\ ~Restart /\ Exact /\ Exact'
    BY NotYet DEF ExactSoFar
  <2>2. CASE Update
    <3>1. PICK ts \in time - Delay .. time :
            ts > 0 /\ UpdateAt(ts) /\ (HasRead => ts - last_update \in MinGap .. MaxGap)
      BY <2>2 DEF Update
    <3>2. ts \in Nat /\ ts >= time - Delay /\ ts <= time
      BY <3>1, GapAssumption DEF Typed, TypeOK
    <3>3. HasRead => last_update <= ts
      BY <3>1, <3>2, GapAssumption DEF Typed, TypeOK
    <3>4. r_total' = flow /\ r_rate' = Rate(r_total', ts)
      BY <2>1, <3>1 DEF Exact, TotalExact, UpdateAt, CalcCounterRate
    <3> QED
      BY <2>1, <3>2, <3>3, <3>4, RateBounded DEF NoSpike, MinDiff
  <2>3. CASE ~Update
    <3>1. r_rate' = r_rate
      BY <2>3 DEF Next, Elapse, Tick, Count, Restart, ResetCounter, vars, rate
    <3> QED
      BY <2>1, <3>1 DEF NoSpike, MinDiff
  <2> QED
    BY <2>2, <2>3
<1> QED
  BY <1>1, <1>2, ExactInvariance, TypedInvariance, PTL DEF Spec

-----------------------------------------------------------------------------
(***************************************************************************)
(* The total never falls, not even when the kernel starts its counter again, *)
(* while the readings are too few to fill 64 bits 32 at a time.              *)
(***************************************************************************)
\* A counter of 32 bits, followed for no longer than 2^64 / 2^32 ticks.
Followed ==
    /\ KernelWidth = Width32
    /\ RateInterval <= Horizon /\ Width32 * Horizon <= Width64

\* Every reading adds less than 2^32, and no two have the same stamp.
Accumulated == time <= Horizon /\ r_total <= Width32 * last_update

\* What a reading adds is less than the counter's width.
LEMMA DeltaSmall ==
  ASSUME NEW cur \in 0 .. Width32 - 1, NEW prev \in 0 .. Width32 - 1
  PROVE  Delta(cur, prev) \in 0 .. Width32 - 1
<1>1. Width32 \in Nat \ {0} /\ Width64 \in Nat /\ Width32 < Width64
  BY WidthAssumption
<1>2. CASE cur < prev
  <2>1. Width32 - 1 - prev + cur + 1 \in 0 .. Width32 - 1
    BY <1>1, <1>2
  <2>2. Uint64(Width32 - 1 - prev + cur + 1) = Width32 - 1 - prev + cur + 1
    BY <1>1, <2>1 DEF Uint64
  <2> QED
    BY <1>2, <2>1, <2>2 DEF Delta
<1>3. CASE ~(cur < prev)
  BY <1>1, <1>3 DEF Delta
<1> QED
  BY <1>2, <1>3

\* A reading adds to the total, and the sum fits into 64 bits.
LEMMA UpdateAdds ==
  ASSUME Followed, Typed, Accumulated, Update
  PROVE  /\ r_total' >= r_total
         /\ r_total' <= Width32 * last_update' /\ time' = time
<1>1. PICK ts \in time - Delay .. time :
        ts > 0 /\ UpdateAt(ts) /\ (HasRead => ts - last_update \in MinGap .. MaxGap)
  BY DEF Update
<1>2. /\ time \in Nat /\ last_update \in Nat /\ time <= Horizon /\ Horizon \in Nat
      /\ kernel \in 0 .. Width32 - 1 /\ r_prev \in 0 .. Width32 - 1
      /\ r_total \in 0 .. Width64 - 1
      /\ Width32 \in Nat \ {0} /\ Width64 \in Nat /\ Delay \in Nat
  BY WidthAssumption, GapAssumption DEF Typed, TypeOK, Accumulated, Followed
<1>3. ts \in Nat /\ ts <= Horizon /\ last_update + 1 <= ts
  <2>1. ts \in Nat /\ ts > 0 /\ ts <= time
    BY <1>1, <1>2
  <2>2. CASE last_update = 0
    BY <1>2, <2>1, <2>2
  <2>3. CASE last_update > 0
    <3>1. ts - last_update \in MinGap .. MaxGap
      BY <1>1, <2>3 DEF HasRead
    <3> QED
      BY <1>2, <2>1, <3>1, GapAssumption
  <2> QED
    BY <1>2, <2>1, <2>2, <2>3
<1> DEFINE d == Delta(kernel, r_prev)
<1>4. r_total' = Uint64(r_total + d) /\ last_update' = ts /\ time' = time
  BY <1>1 DEF UpdateAt, CalcCounterRate
<1>5. d \in 0 .. Width32 - 1
  BY <1>2, DeltaSmall
<1> HIDE DEF d
<1>6. r_total <= last_update * Width32
  BY <1>2 DEF Accumulated
<1>7. /\ (last_update + 1) * Width32 = last_update * Width32 + Width32
      /\ last_update * Width32 \in Nat
  BY <1>2
<1>8. (last_update + 1) * Width32 <= ts * Width32 /\ ts * Width32 <= Horizon * Width32
      /\ ts * Width32 \in Nat /\ ts * Width32 = Width32 * ts /\ Horizon * Width32 \in Nat
      /\ Horizon * Width32 = Width32 * Horizon
  BY <1>2, <1>3, ProductMonotone
<1>9. r_total + d < ts * Width32
  BY <1>2, <1>5, <1>6, <1>7, <1>8
<1>10. r_total + d < Width64 /\ r_total + d \in Nat
  <2>1. Width32 * Horizon <= Width64
    BY DEF Followed
  <2> QED
    BY <1>2, <1>5, <1>8, <1>9, <2>1
<1>11. Uint64(r_total + d) = r_total + d
  BY <1>2, <1>10 DEF Uint64
<1> QED
  BY <1>2, <1>4, <1>5, <1>8, <1>9, <1>11

\* No total falls: not at a wrap-around, not at a restart of the kernel's
\* counter, not at a reset of what is shown.
THEOREM TotalAlwaysGrows ==
  ASSUME Followed
  PROVE  Spec => TotalNeverFalls
<1>1. Init => Accumulated
  <2> SUFFICES ASSUME Init PROVE Accumulated
    OBVIOUS
  <2>1. time <= Horizon
    BY IntervalAssumption, GapAssumption DEF Init, Followed
  <2>2. r_total <= Width32 * last_update
    BY WidthAssumption DEF Init
  <2> QED
    BY <2>1, <2>2 DEF Accumulated
<1>2. Typed /\ Accumulated /\ [Next]_vars => Accumulated' /\ [r_total' >= r_total]_vars
  <2> SUFFICES ASSUME Typed, Accumulated, [Next]_vars
               PROVE  Accumulated' /\ r_total' >= r_total
    OBVIOUS
  <2>1. r_total \in Nat /\ time \in Nat /\ Horizon \in Nat
    BY WidthAssumption, GapAssumption DEF Typed, TypeOK
  <2>2. CASE Update
    BY <2>2, UpdateAdds DEF Accumulated
  <2>3. CASE Elapse
    <3>1. time' = time + 1 /\ time < Horizon /\ UNCHANGED <<r_total, last_update>>
      BY <2>3 DEF Elapse, Tick, Count, rate
    <3> QED
      BY <2>1, <3>1 DEF Accumulated
  <2>4. CASE Restart \/ ResetCounter \/ UNCHANGED vars
    <3>1. UNCHANGED <<time, r_total, last_update>>
      BY <2>4 DEF Restart, ResetCounter, vars, rate
    <3> QED
      BY <2>1, <3>1 DEF Accumulated
  <2> QED
    BY <2>2, <2>3, <2>4 DEF Next
<1> QED
  BY <1>1, <1>2, TypedInvariance, PTL DEF Spec, TotalNeverFalls
=============================================================================
