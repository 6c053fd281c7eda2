------------------------------ MODULE Sampling ------------------------------
(***************************************************************************)
(* A counter read by the main loop: ReadLoop decides when a reading begins, *)
(* and the reading stamps the counter of Counter with rt_last_read, as      *)
(* element_notify_update() does (src/element.c:299).  The stamp is the time *)
(* the reading began; the counter is read at any time during the reading.   *)
(* ReadLoop takes a reading in one step at its end, so that until then now  *)
(* is the time it began, and spent what has passed since.                   *)
(***************************************************************************)
EXTENDS Integers

CONSTANTS
    Second, ReadInterval, SleepTime, Keys, Reading, Late, Start, Horizon,
    Width32, Width64, RateInterval, RateVariance, Precision, Quiet, Busy

ASSUME LoopAssumption ==
    /\ Second \in Nat \ {0} /\ ReadInterval \in Nat \ {0} /\ SleepTime \in Nat
    /\ Keys \in Nat /\ Reading \in Nat /\ Late \in Nat
    /\ Start \in Nat \ {0} /\ Horizon \in Nat
ASSUME CounterAssumption ==
    /\ Width32 \in Nat \ {0} /\ Width64 \in Nat /\ Width32 < Width64
    /\ RateInterval \in Nat /\ RateVariance \in Nat /\ RateInterval > RateVariance
    /\ Precision \in Nat \ {0}
    /\ Quiet \in Nat /\ Busy \in Nat /\ Quiet <= Busy

VARIABLES
    pc, now, next_read, last_read, e, st, reads,
    kernel, flow, r_total, r_current, r_prev, r_reset, r_rate, r_last_calc,
    last_update, flow_read, flow_reset, restarted,
    sampled,   \* the reading under way has read the counter
    spent      \* time that has passed in the reading under way

Clock == now + spent

Loop == INSTANCE ReadLoop
Attr == INSTANCE Counter WITH
    time <- Clock, KernelWidth <- Width32, Restarts <- FALSE, IgnoreOverflows <- FALSE,
    MinGap <- 1, MaxGap <- Horizon, Delay <- Reading

loop == <<pc, now, next_read, last_read, e, st, reads>>
attr == <<kernel, flow, r_total, r_current, r_prev, r_reset, r_rate, r_last_calc,
          last_update, flow_read, flow_reset, restarted>>
vars == <<loop, attr, sampled, spent>>

Init ==
    /\ Loop!Init
    /\ kernel \in 0 .. Width32 - 1
    /\ flow = kernel
    /\ r_total = 0 /\ r_current = 0 /\ r_prev = 0 /\ r_reset = 0
    /\ r_rate = 0 /\ r_last_calc = 0
    /\ last_update = 0 /\ flow_read = 0 /\ flow_reset = 0 /\ restarted = FALSE
    /\ sampled = FALSE /\ spent = 0

\* While the loop is busy or sleeps, traffic flows.
CountsMeanwhile ==
    \E n \in Quiet * (Clock' - Clock) .. Busy * (Clock' - Clock) :
        IF Attr!HasRead THEN Attr!Count(n) ELSE UNCHANGED attr

\* Mutant: the counter is stamped with the time the next reading is due.
StampOfNext == Loop!Ticks(next_read)

StampOfReading == Loop!Ticks(last_read)

\* The reading takes a tick more to come to the counter.
Delayed ==
    /\ pc = "read" /\ ~sampled /\ spent < Reading
    /\ spent' = spent + 1
    /\ UNCHANGED <<loop, sampled>>
    /\ CountsMeanwhile

\* input_read(): attr_update(), then element_notify_update() with rt_last_read.
Sample ==
    /\ pc = "read" /\ ~sampled
    /\ UNCHANGED <<loop, spent>>
    /\ Attr!UpdateAt(StampOfReading)
    /\ sampled' = TRUE

\* The rest of the reading and the drawing of the screen.
FinishRead ==
    /\ sampled /\ Loop!EndRead
    /\ sampled' = FALSE /\ spent' = 0
    /\ now' >= Clock
    /\ CountsMeanwhile

\* The loop's other steps.
Move ==
    /\ Loop!OutputPre \/ Loop!BeginRead \/ Loop!NotDue \/ Loop!GoOn \/ Loop!BeginSleep
       \/ Loop!Wake \/ Loop!Quit
    /\ UNCHANGED <<sampled, spent>>
    /\ CountsMeanwhile

Next == Delayed \/ Sample \/ FinishRead \/ Move

Spec == Init /\ [][Next]_vars

-----------------------------------------------------------------------------
\* "Rate per second calculated every `rate_interval'" (attr.h:48): on a line
\* that is never idle the rate is never below what the line has carried all
\* along, less what a slow reading has shifted into the interval before, because
\* a counter is stamped with the time the reading began.  It takes readings that
\* are late by less than the variance.
RateNotUnder == Attr!RateNotUnder

\* While a round's work and a late wake-up fit into a read interval, every
\* reading, and with it every rate, is stamped within their sum of when it
\* was due.
OnTime == Loop!OnTime
=============================================================================
