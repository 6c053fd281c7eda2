------------------------------ MODULE ReadLoop ------------------------------
(***************************************************************************)
(* The timing of bmon's main loop (src/bmon.c, main()): keys are polled, a  *)
(* reading is taken when it is due, and the loop sleeps until the next one. *)
(* Time is CLOCK_MONOTONIC in ticks, Second of them in a second; a          *)
(* timestamp is a pair of seconds and ticks with the carry and the borrow   *)
(* of src/utils.c.                                                           *)
(*                                                                          *)
(* How long a key, a reading or a late wake-up takes is chosen by the       *)
(* environment within Keys, Reading and Late.                               *)
(***************************************************************************)
EXTENDS Integers

CONSTANTS
    Second,          \* ticks in a second: 10^6, or a smaller stand-in
    ReadInterval,    \* read_interval, in ticks
    SleepTime,       \* sleep_time as configured, in ticks
    Keys,            \* longest time output_pre() takes
    Reading,         \* longest time from E to the end of output_post()
    Late,            \* longest delay of a wake-up from usleep()
    Start,           \* the clock when main() enters the loop
    Horizon          \* bound: the loop is followed up to this time

ASSUME SecondAssumption == Second \in Nat \ {0}
ASSUME IntervalAssumption == ReadInterval \in Nat \ {0} /\ SleepTime \in Nat
ASSUME DelayAssumption == Keys \in Nat /\ Reading \in Nat /\ Late \in Nat
ASSUME StartAssumption == Start \in Nat /\ Horizon \in Nat

VARIABLES
    pc,         \* where the loop is
    now,        \* the clock
    next_read,  \* rtiming.rt_next_read, NR in the comments of main()
    last_read,  \* rtiming.rt_last_read, LR
    e,          \* when this round began, E
    st,         \* the sleep main() asks usleep() for, ST
    reads       \* auxiliary: readings begun

vars == <<pc, now, next_read, last_read, e, st, reads>>

-----------------------------------------------------------------------------
(***************************************************************************)
(* Timestamps.                                                              *)
(***************************************************************************)
Timestamp == [tv_sec : Int, tv_usec : 0 .. Second - 1]
Stamp(t) == [tv_sec |-> t \div Second, tv_usec |-> t % Second]
Ticks(ts) == ts.tv_sec * Second + ts.tv_usec

TimestampAdd(a, b) ==
    LET sec == a.tv_sec + b.tv_sec
        usec == a.tv_usec + b.tv_usec
    IN  IF usec >= Second THEN [tv_sec |-> sec + 1, tv_usec |-> usec - Second]
        ELSE [tv_sec |-> sec, tv_usec |-> usec]

TimestampSub(a, b) ==
    LET sec == a.tv_sec - b.tv_sec
        usec == a.tv_usec - b.tv_usec
    IN  IF usec < 0 THEN [tv_sec |-> sec - 1, tv_usec |-> usec + Second]
        ELSE [tv_sec |-> sec, tv_usec |-> usec]

\* Mutant: a comparison of the fractions alone.
TimestampLeFraction(a, b) == a.tv_sec < b.tv_sec \/ a.tv_usec <= b.tv_usec

TimestampLe(a, b) ==
    /\ a.tv_sec <= b.tv_sec
    /\ a.tv_sec < b.tv_sec \/ a.tv_usec <= b.tv_usec

-----------------------------------------------------------------------------
\* The sleep time is cut down to the read interval before the loop is entered.
ConfiguredSleep == IF SleepTime > ReadInterval THEN ReadInterval ELSE SleepTime

Init ==
    /\ pc = "keys"
    /\ now = Start
    /\ next_read = Stamp(Start)
    /\ last_read = [tv_sec |-> 0, tv_usec |-> 0]
    /\ e = Stamp(Start)
    /\ st = 0
    /\ reads = 0

TimePasses(most) == \E d \in 0 .. most : now' = now + d

\* output_pre(), then E := NOW.
OutputPre ==
    /\ pc = "keys" /\ now < Horizon
    /\ TimePasses(Keys)
    /\ e' = Stamp(now')
    /\ pc' = "test"
    /\ UNCHANGED <<next_read, last_read, st, reads>>

\* The user quits.
Quit ==
    /\ pc = "keys"
    /\ pc' = "exited"
    /\ UNCHANGED <<now, next_read, last_read, e, st, reads>>

\* Mutant: the next reading is an interval from now, without the correction.
NextReadFromNow(ri) == TimestampAdd(e, ri)

\* NR := E + RI + C, where the correction C is NR - E.
NextRead(ri) == TimestampAdd(TimestampAdd(e, ri), TimestampSub(next_read, e))

\* IF NR <= E: a reading is due.
BeginRead ==
    /\ pc = "test" /\ TimestampLe(next_read, e)
    /\ last_read' = e
    /\ next_read' = NextRead(Stamp(ReadInterval))
    /\ reads' = reads + 1
    /\ pc' = "read"
    /\ UNCHANGED <<now, e, st>>

NotDue ==
    /\ pc = "test" /\ ~TimestampLe(next_read, e)
    /\ pc' = "wait"
    /\ UNCHANGED <<now, next_read, last_read, e, st, reads>>

\* reset_update_flags() to output_post().
EndRead ==
    /\ pc = "read"
    /\ TimePasses(Reading)
    /\ pc' = "wait"
    /\ UNCHANGED <<next_read, last_read, e, st, reads>>

\* Mutant: the sleep time as it is.
SleepWholly(tmp) == ConfiguredSleep

SleepFor(tmp) ==
    IF tmp.tv_sec = 0 /\ tmp.tv_usec < ConfiguredSleep THEN tmp.tv_usec ELSE ConfiguredSleep

\* Mutants: no sleep in the second of the next reading, or a sleep in the one
\* after it.
IsOverdueSoon(tmp) == tmp.tv_sec <= 0
IsOverdueLate(tmp) == tmp.tv_sec < -1

\* "if (tmp.tv_sec < 0) continue;"
IsOverdue(tmp) == tmp.tv_sec < 0

\* The next reading is overdue at E: continue without a sleep.
GoOn ==
    /\ pc = "wait" /\ IsOverdue(TimestampSub(next_read, e))
    /\ pc' = "keys"
    /\ UNCHANGED <<now, next_read, last_read, e, st, reads>>

BeginSleep ==
    /\ pc = "wait" /\ ~IsOverdue(TimestampSub(next_read, e))
    /\ st' = SleepFor(TimestampSub(next_read, e))
    /\ pc' = "sleep"
    /\ UNCHANGED <<now, next_read, last_read, e, reads>>

\* usleep() returns: late, or early when a signal interrupts it.
Wake ==
    /\ pc = "sleep"
    /\ \E slept \in 0 .. st + Late : now' = now + slept /\ (st > 0 => slept > 0)
    /\ pc' = "keys"
    /\ UNCHANGED <<next_read, last_read, e, st, reads>>

Round == OutputPre \/ BeginRead \/ NotDue \/ EndRead \/ GoOn \/ BeginSleep \/ Wake

Next == Round \/ Quit

Spec == Init /\ [][Next]_vars

\* The loop is a process the kernel runs, and its calls return.
FairSpec == Spec /\ WF_vars(Round)

-----------------------------------------------------------------------------
TypeOK ==
    /\ pc \in {"keys", "test", "read", "wait", "sleep", "exited"}
    /\ now \in Nat
    /\ next_read \in Timestamp /\ last_read \in Timestamp /\ e \in Timestamp
    /\ st \in 0 .. ConfiguredSleep
    /\ reads \in Nat

\* However late a reading begins, the schedule does not move: the next one is
\* due a whole number of read intervals after the start, one per reading.
NoDrift == Ticks(next_read) = Start + reads * ReadInterval

\* A reading is never taken before it is due, so input modules are never
\* polled more often than the read interval allows in the long run.
NeverEarly == reads > 0 => Ticks(last_read) >= Start + (reads - 1) * ReadInterval

\* The loop goes to sleep only when every reading that was due at E has been
\* begun: what a slow reading delays is caught up, one keyboard poll apart.
CaughtUp ==
    pc = "sleep" /\ st > 0 => reads = (Ticks(e) - Start) \div ReadInterval + 1

\* While a round's work and a late wake-up fit into a read interval, no
\* reading begins later than that work and that delay after it was due.
OnTime ==
    pc = "read" =>
        Ticks(last_read) - (Ticks(next_read) - ReadInterval) <= Keys + Reading + Late

\* Readings go on for ever: after any number of them another one begins,
\* unless the user quits (or the bound on time is reached).
ReadsGoOn ==
    \A k \in 0 .. Horizon \div ReadInterval :
        reads = k ~> (reads > k \/ pc = "exited" \/ now >= Horizon)
=============================================================================
