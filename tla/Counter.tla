------------------------------ MODULE Counter ------------------------------
(***************************************************************************)
(* One direction of a counter attribute (struct rate, src/attr.c): its      *)
(* total is accumulated over the wrap-arounds of the kernel's counter, and  *)
(* its rate is calculated every rate interval.                              *)
(*                                                                          *)
(* The kernel's counter and the traffic it counts are external.  Time is in *)
(* ticks; r_rate, a float, is in fractions of 1/Precision per tick, and a   *)
(* division truncates.                                                      *)
(***************************************************************************)
EXTENDS Integers

CONSTANTS
    Width32, Width64,    \* 2^32 and 2^64, or smaller stand-ins
    KernelWidth,         \* the kernel's counter wraps around at this value
    Restarts,            \* TRUE when the kernel may start the counter again
    IgnoreOverflows,     \* ATTR_IGNORE_OVERFLOWS
    RateInterval, RateVariance,    \* cfg_rate_interval, cfg_rate_variance
    Precision,
    Quiet, Busy,         \* least and most that is counted in a tick
    MinGap, MaxGap,      \* least and most time between two readings
    Delay,               \* longest time from E to the reading of the counter
    Horizon              \* bound: the counter is followed up to this time

MinDiff == RateInterval - RateVariance

ASSUME WidthAssumption == /\ Width32 \in Nat \ {0} /\ Width64 \in Nat
                          /\ Width32 < Width64 /\ KernelWidth \in {Width32, Width64}
ASSUME FlagAssumption == Restarts \in BOOLEAN /\ IgnoreOverflows \in BOOLEAN
ASSUME IntervalAssumption == /\ RateInterval \in Nat /\ RateVariance \in Nat /\ MinDiff > 0
                             /\ Precision \in Nat \ {0}
ASSUME TrafficAssumption == Quiet \in Nat /\ Busy \in Nat /\ Quiet <= Busy /\ Busy < Width32
ASSUME GapAssumption == /\ MinGap \in Nat \ {0} /\ MaxGap \in Nat /\ MinGap <= MaxGap
                        /\ Delay \in Nat /\ Horizon \in Nat

VARIABLES
    time,
    kernel,         \* external: what the kernel's counter shows
    flow,           \* auxiliary: what the kernel has counted, modulo 2^64
    r_total, r_current, r_prev, r_reset, r_rate, r_last_calc,
    last_update,    \* auxiliary: timestamp of the last update
    flow_read,      \* auxiliary: flow at the last update
    flow_reset,     \* auxiliary: flow_read at the last reset
    restarted       \* auxiliary: the kernel has started its counter again

rate == <<r_total, r_current, r_prev, r_reset, r_rate, r_last_calc>>
vars == <<time, kernel, flow, rate, last_update, flow_read, flow_reset, restarted>>

-----------------------------------------------------------------------------
\* One carry or borrow of uint64_t arithmetic.
Uint64(n) == IF n >= Width64 THEN n - Width64 ELSE IF n < 0 THEN n + Width64 ELSE n

\* The attribute is about to be created by its first attr_update(); the kernel
\* may have counted for long.
Init ==
    /\ time \in 1 .. RateInterval
    /\ kernel \in 0 .. Width32 - 1
    /\ flow = kernel
    /\ r_total = 0 /\ r_current = 0 /\ r_prev = 0 /\ r_reset = 0
    /\ r_rate = 0 /\ r_last_calc = 0
    /\ last_update = 0
    /\ flow_read = 0 /\ flow_reset = 0 /\ restarted = FALSE

HasRead == last_update > 0

\* The kernel counts n, which is less than its counter's width.
Count(n) ==
    /\ kernel' = IF kernel + n >= KernelWidth THEN kernel + n - KernelWidth ELSE kernel + n
    /\ flow' = Uint64(flow + n)
    /\ UNCHANGED <<rate, last_update, flow_read, flow_reset, restarted>>

\* A tick passes, in which the kernel counts n.
Tick(n) ==
    /\ time < Horizon
    /\ time' = time + 1
    /\ Count(n)

\* The main loop reads again within MaxGap.
Elapse ==
    /\ HasRead /\ time - last_update < MaxGap + Delay
    /\ \E n \in Quiet .. Busy : Tick(n)

\* The driver or the device starts its counter again.  Bound: once.
Restart ==
    /\ Restarts /\ HasRead /\ kernel > 0 /\ ~restarted
    /\ kernel' = 0
    /\ restarted' = TRUE
    /\ UNCHANGED <<time, flow, rate, last_update, flow_read, flow_reset>>

-----------------------------------------------------------------------------
(***************************************************************************)
(* attr_update() and attr_notify_update() of an ATTR_TYPE_COUNTER: the      *)
(* value read becomes r_current, then calc_counter_rate().                  *)
(***************************************************************************)
\* Mutants: an overflow is off by one, or goes unnoticed.
DeltaOffByOne(cur, prev) ==
    IF cur < prev THEN Uint64(Width32 - 1 - prev + cur) ELSE cur - prev
DeltaUnchecked(cur, prev) == Uint64(cur - prev)

Delta(cur, prev) ==
    IF cur < prev
    THEN IF IgnoreOverflows THEN cur ELSE Uint64(Width32 - 1 - prev + cur + 1)
    ELSE cur - prev

\* Mutant: the first difference is taken for traffic.
IsFirstNever(prev_total) == FALSE

\* "No previous records exists".
IsFirst(prev_total) == prev_total = 0

IsEarly(ts) == ts - r_last_calc < MinDiff

Smooth(new, old) == IF old # 0 THEN (3 * new + old) \div 4 ELSE new

LastCalc(total, ts) == IF ~IsFirst(r_total) /\ IsEarly(ts) THEN r_last_calc ELSE ts

Rate(total, ts) ==
    IF IsFirst(r_total) \/ IsEarly(ts) THEN r_rate
    ELSE Smooth((Uint64(total - r_total) * Precision) \div (ts - r_last_calc), r_rate)

CalcCounterRate(ts) ==
    LET total == Uint64(r_total + Delta(r_current', r_prev))
    IN  /\ r_total' = total
        /\ r_prev' = r_current'
        /\ r_rate' = Rate(total, ts)
        /\ r_last_calc' = LastCalc(total, ts)

\* The reading stamped ts, the counter read up to Delay after it.
UpdateAt(ts) ==
    /\ r_current' = kernel
    /\ CalcCounterRate(ts)
    /\ last_update' = ts
    /\ flow_read' = flow
    /\ UNCHANGED <<time, kernel, flow, r_reset, flow_reset, restarted>>

Update ==
    \E ts \in time - Delay .. time :
        /\ ts > 0
        /\ HasRead => ts - last_update \in MinGap .. MaxGap
        /\ UpdateAt(ts)

\* Mutant: the value shown is that of the kernel's counter.
ResetToCurrent == r_reset' = r_current

ResetTo == r_reset' = r_total

\* attr_reset_counter(): the key 'r'.
ResetCounter ==
    /\ HasRead
    /\ ResetTo
    /\ flow_reset' = flow_read
    /\ UNCHANGED <<time, kernel, flow, r_total, r_current, r_prev, r_rate, r_last_calc,
                   last_update, flow_read, restarted>>

\* rate_get_total()
RateGetTotal == Uint64(r_total - r_reset)

Next == Elapse \/ Restart \/ Update \/ ResetCounter

Spec == Init /\ [][Next]_vars

-----------------------------------------------------------------------------
TypeOK ==
    /\ time \in Nat /\ last_update \in Nat /\ r_last_calc \in Nat /\ r_rate \in Nat
    /\ {kernel, r_current, r_prev} \subseteq 0 .. KernelWidth - 1
    /\ {flow, flow_read, flow_reset, r_total, r_reset} \subseteq 0 .. Width64 - 1
    /\ restarted \in BOOLEAN

\* As long as the kernel does not start again, the total is what it has counted,
\* over any number of wrap-arounds of its 32-bit counter: nothing is lost or
\* counted twice (attr.h:36).
TotalExact == ~restarted => r_total = flow_read

\* What is shown is what was counted since the key 'r', wherever the counter
\* stood then and however often it has wrapped around since.
ShownSinceReset == ~restarted => RateGetTotal = Uint64(flow_read - flow_reset)

\* The rate never exceeds what the line carries: neither the first reading of
\* a counter that has been running for long, nor a wrap-around, nor a reset
\* shows as a spike, until the kernel starts again.  A reading is stamped with E, so the delay of the
\* reading itself adds to what one interval can seem to carry.
NoSpike == ~restarted => r_rate * MinDiff <= Busy * Precision * (MinDiff + Delay)

\* "Rate per second calculated every `rate_interval'" (attr.h:48): on a line
\* that is never idle a rate that is shown is at least what the line has
\* carried all along, truncated, but for the delay of the reading.
RateNotUnder == r_rate > 0 => r_rate >= (Quiet * Precision * (MinDiff - Delay)) \div MinDiff

\* "Total value of attribute with eventual overflows accumulated" (attr.h:36):
\* it never falls, even when the kernel starts its counter again.
TotalNeverFalls == [][r_total' >= r_total]_vars
=============================================================================
