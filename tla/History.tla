------------------------------ MODULE History ------------------------------
(***************************************************************************)
(* The history of one direction of an attribute (src/history.c): a ring of  *)
(* means that history_update() fills, at the pace of the readings, with one  *)
(* slot per history interval, and that the graph (src/graph.c, fill_table()) *)
(* reads from the newest slot back.                                         *)
(*                                                                          *)
(* Times are in ticks.  A mean is a quotient that is calculated with floats *)
(* and truncated, and is cut to the width of a slot.  What a rate or a      *)
(* percentage stores is the mean of its change, as if it were a counter.    *)
(***************************************************************************)
EXTENDS Integers, Sequences

CONSTANTS
    Size,            \* hd_size
    Intervals,       \* hd_interval of the history definitions
    ReadInterval,    \* cfg_read_interval
    Tolerance,       \* 1 / cfg_history_variance
    Gaps,            \* times that may lie between two readings
    Types,           \* ATTR_TYPE_*: "counter", and "rate" for a rate or a percentage
    Amounts,         \* what a counter may grow by between two readings, or a rate be
    Widths, Width64, \* 2^8 to 2^64 for hd_type, and 2^64, or smaller stand-ins
    Accuracy,        \* a quotient of floats is right to one part in Accuracy
    Unknown,         \* HISTORY_UNKNOWN
    Horizon          \* bound: the attribute is followed up to this time

ASSUME SizeAssumption == Size \in Nat \ {0}
ASSUME IntervalAssumption ==
    Intervals \subseteq Nat \ {0} /\ ReadInterval \in Nat \ {0} /\ Tolerance \in Nat \ {0}
ASSUME InputAssumption ==
    Types \subseteq {"counter", "rate"} /\ Gaps \subseteq Nat \ {0} /\ Amounts \subseteq Nat
ASSUME WidthAssumption == Widths \subseteq 2 .. Width64 /\ Width64 \in Nat
ASSUME AccuracyAssumption == Accuracy \in Nat \ {0}
ASSUME UnknownAssumption == Unknown \notin Nat
ASSUME HorizonAssumption == Horizon \in Nat

Slots == 0 .. Size - 1

VARIABLES
    time,             \* of the last reading
    r_total,          \* the attribute's total
    ad_type, hd_interval, hd_type,    \* of the definitions; they never change
    h_index, h_last_update,
    hs_allocated,     \* hs_data is not NULL
    hs_data, hs_prev_total,
    log               \* auxiliary: what was stored, newest first, when and at which total

defs == <<ad_type, hd_interval, hd_type>>
vars == <<time, r_total, defs, h_index, h_last_update, hs_allocated, hs_data, hs_prev_total, log>>

\* n slots of a value, in a log that is cut to what the ring can hold.
Remember(n, value) ==
    LET entry == [to |-> time', total |-> r_total', value |-> value,
                  stored |-> hs_allocated']
        all == [k \in 1 .. n |-> entry] \o log
    IN  log' = SubSeq(all, 1, IF Len(all) < Size THEN Len(all) ELSE Size)

MaxInterval == Tolerance * hd_interval

-----------------------------------------------------------------------------
Init ==
    /\ time \in Gaps
    /\ r_total \in Amounts
    /\ ad_type \in Types /\ hd_interval \in Intervals /\ hd_type \in Widths
    /\ h_index = 0 /\ h_last_update = 0
    /\ hs_allocated = FALSE
    /\ hs_data = [s \in Slots |-> 0]
    /\ hs_prev_total = 0
    /\ log = <<>>

\* inc_history_index()
IncIndex(i) == IF i < Size - 1 THEN i + 1 ELSE 0

\* The index after n slots, from i on, and the slots passed.
IndexAfter(i, n) ==
    LET after[k \in 0 .. n] == IF k = 0 THEN i ELSE IncIndex(after[k - 1])
    IN  after
Passed(i, n) == {IndexAfter(i, n)[k] : k \in 0 .. n - 1}

IsFirstUpdate == h_last_update = 0

\* timediff < h_min_interval
IsEarly(diff) == 2 * diff < 2 * hd_interval - ReadInterval

\* cfg_read_interval > hd_interval, or timediff > h_max_interval
IsDiscarded(diff) ==
    ReadInterval > hd_interval \/ (ReadInterval < hd_interval /\ diff > MaxInterval)

\* The iterations of "while (timediff >= (def->hd_interval / 2))".
Missed(diff) == (2 * diff + hd_interval) \div (2 * hd_interval)

\* "delta /= diff" in single precision: delta, diff and the quotient are rounded,
\* which together are a part in 2^22, and the result is truncated.
IsQuotient(q, delta, diff) ==
    /\ Accuracy * q * diff <= (Accuracy + 1) * delta
    /\ (Accuracy - 1) * delta < Accuracy * (q + 1) * diff

\* What a float that no uint64_t can hold, infinity too, is converted to.
Unconvertible == {0, Width64 \div 2, Width64 - 1}

\* The difference is unsigned.
Means(diff) ==
    LET delta == (r_total' - hs_prev_total) % Width64
    IN  IF delta = 0 THEN {0}
        ELSE IF diff = 0 THEN Unconvertible
        ELSE {q \in 0 .. Width64 - 1 : IsQuotient(q, delta, diff)}
             \cup {q \in Unconvertible : IsQuotient(Width64, delta, diff)}

\* Mutant: the total of the last store is kept while slots are discarded.
PrevAfterDiscardStale == hs_prev_total

PrevAfterDiscard == r_total'

\* The first update of a counter sets what the next one is compared with.
FirstUpdate ==
    /\ IsFirstUpdate /\ ad_type = "counter"
    /\ hs_prev_total' = r_total' /\ h_last_update' = time'
    /\ UNCHANGED <<h_index, hs_allocated, hs_data, log>>

IsUpdate == ~IsFirstUpdate \/ ad_type # "counter"

\* Not a history interval yet.
TooEarly(diff) ==
    /\ IsUpdate /\ ReadInterval < hd_interval
    /\ ~IsDiscarded(diff) /\ IsEarly(diff)
    /\ UNCHANGED <<h_index, h_last_update, hs_allocated, hs_data, hs_prev_total, log>>

\* history_store_data() of a value: the ring is allocated on first use.
Store(diff) ==
    /\ IsUpdate /\ ~IsDiscarded(diff)
    /\ ReadInterval = hd_interval \/ ~IsEarly(diff)
    /\ hs_allocated' = TRUE
    /\ \E mean \in Means(diff) :
          /\ hs_data' = [hs_data EXCEPT ![h_index] = mean % hd_type]
          /\ Remember(1, mean)
    /\ h_index' = IncIndex(h_index)
    /\ hs_prev_total' = r_total' /\ h_last_update' = time'

\* The read interval or the gap is too long: the slots missed are unknown.
Discard(diff) ==
    /\ IsUpdate /\ IsDiscarded(diff)
    /\ UNCHANGED hs_allocated
    /\ hs_data' = IF hs_allocated
                  THEN [s \in Slots |-> IF s \in Passed(h_index, Missed(diff)) THEN hd_type - 1
                                        ELSE hs_data[s]]
                  ELSE hs_data
    /\ h_index' = IndexAfter(h_index, Missed(diff))[Missed(diff)]
    /\ hs_prev_total' = PrevAfterDiscard /\ h_last_update' = time'
    /\ Remember(Missed(diff), Unknown)

\* A reading: the total has grown by n since the last one, or the rate is n, and
\* attr_notify_update() calls history_update(), for which the time since an
\* update that was never made is 0.
Update(gap, n) ==
    /\ time + gap <= Horizon
    /\ time' = time + gap
    /\ r_total' = IF ad_type = "counter" THEN r_total + n ELSE n
    /\ UNCHANGED defs
    /\ LET diff == IF IsFirstUpdate THEN 0 ELSE time + gap - h_last_update
       IN  FirstUpdate \/ TooEarly(diff) \/ Store(diff) \/ Discard(diff)

Next == \E gap \in Gaps, n \in Amounts : Update(gap, n)

Spec == Init /\ [][Next]_vars

-----------------------------------------------------------------------------
(***************************************************************************)
(* What fill_table() shows in column i, counted from the newest.            *)
(***************************************************************************)
\* history_data(): the largest value of a slot's width is unknown.
HistoryData(v) == IF v = hd_type - 1 THEN Unknown ELSE v

\* Mutant: the walk begins at h_index, which is the oldest slot.
ColumnFromIndex(i) == HistoryData(hs_data[(h_index - i + 1) % Size])

Column(i) == HistoryData(hs_data[(h_index - i) % Size])

\* The graph's columns are the last slots passed, newest first, over any
\* number of turns of the ring, and what does not fit into one slot is seen in
\* no other; they are empty before the first value, also where slots were
\* discarded then.
GraphIsRecent ==
    hs_allocated => \A i \in 1 .. Size :
        IF i <= Len(log) /\ log[i].stored
        THEN log[i].value \in 0 .. hd_type - 2 \cup {Unknown} => Column(i) = log[i].value
        ELSE Column(i) = 0

\* The mean of a slot is, as near as a float comes, what was counted since the
\* slot before it over the time since then: no traffic is lost between slots or
\* counted twice, also where readings that came too early or were discarded lie
\* between them.
MeansAddUp ==
    ad_type = "counter" => \A i \in 1 .. Len(log) - 1 : log[i].value # Unknown =>
        IsQuotient(log[i].value, log[i].total - log[i + 1].total, log[i].to - log[i + 1].to)
=============================================================================
