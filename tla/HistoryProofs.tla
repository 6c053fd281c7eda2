--------------------------- MODULE HistoryProofs ---------------------------
(***************************************************************************)
(* Proofs about History, for every size of the ring, every history and read *)
(* interval, every timing of the readings and every traffic.                *)
(***************************************************************************)
EXTENDS History, Lemmas, TLAPS

-----------------------------------------------------------------------------
(***************************************************************************)
(* The ring's indices.                                                      *)
(***************************************************************************)
\* Residues below the modulus, and one turn of the ring up or down.
LEMMA SmallMod ==
  ASSUME NEW w \in Nat \ {0}, NEW x \in Int
  PROVE  /\ x % w \in 0 .. w - 1
         /\ x \in 0 .. w - 1 => x % w = x
         /\ (x + w) % w = x % w
         /\ (x - w) % w = x % w
<1>1. x = w * (x \div w) + (x % w) /\ x \div w \in Int /\ x % w \in 0 .. w - 1
  BY DivMod
<1> DEFINE q == x \div w
           r == x % w
<1> HIDE DEF q, r
<1>2. x = w * q + r /\ q \in Int /\ r \in 0 .. w - 1
  BY <1>1 DEF q, r
<1>3. w * (q + 1) = w * q + w /\ w * (q - 1) = w * q - w /\ w * 0 = 0
  BY <1>2
<1>4. x + w = w * (q + 1) + r /\ x - w = w * (q - 1) + r
  BY <1>2, <1>3
<1>5. (x + w) % w = r
  BY <1>2, <1>4, ModUnique
<1>6. (x - w) % w = r
  BY <1>2, <1>4, ModUnique
<1>7. x \in 0 .. w - 1 => x % w = x
  <2> SUFFICES ASSUME x \in 0 .. w - 1 PROVE x % w = x
    OBVIOUS
  <2>1. x = w * 0 + x
    OBVIOUS
  <2> QED
    BY <2>1, ModUnique
<1> QED
  BY <1>1, <1>5, <1>6, <1>7 DEF r

\* A residue depends on the residue only.
LEMMA ModShift ==
  ASSUME NEW w \in Nat \ {0}, NEW x \in Int, NEW y \in Int
  PROVE  ((x % w) + y) % w = (x + y) % w
<1> DEFINE q == x \div w
           r == x % w
           u == (r + y) \div w
           v == (r + y) % w
<1>1. x = w * q + r /\ q \in Int /\ r \in 0 .. w - 1
  BY DivMod
<1> HIDE DEF q, r
<1>2. r + y = w * u + v /\ u \in Int /\ v \in 0 .. w - 1
  <2>1. r + y \in Int
    BY <1>1
  <2> QED
    BY <2>1, DivMod
<1> HIDE DEF u, v
<1>3. w * (q + u) = w * q + w * u
  BY <1>1, <1>2
<1>4. x + y = w * (q + u) + v /\ q + u \in Int /\ x + y \in Int
  BY <1>1, <1>2, <1>3
<1>5. (x + y) % w = v
  BY <1>2, <1>4, ModUnique
<1> QED
  BY <1>5 DEF v, r

\* Places less than a turn apart are different.
LEMMA ModApart ==
  ASSUME NEW w \in Nat \ {0}, NEW x \in Int, NEW y \in Int, x < y, y - x < w
  PROVE  x % w # y % w
<1> DEFINE q == x \div w
           r == x % w
           u == y \div w
<1> SUFFICES ASSUME r = y % w PROVE FALSE
  OBVIOUS
<1>1. x = w * q + r /\ q \in Int /\ r \in 0 .. w - 1
  BY DivMod
<1>2. y = w * u + (y % w) /\ u \in Int
  BY DivMod
<1>3. y = w * u + r
  BY <1>2
<1> HIDE DEF q, r, u
<1>4. w * (u - q) = w * u - w * q
  BY <1>1, <1>2
<1>5. w * (u - q) = y - x
  <2> DEFINE a == w * u
             b == w * q
  <2>1. a \in Int /\ b \in Int /\ x = b + r /\ y = a + r /\ w * (u - q) = a - b
    BY <1>1, <1>2, <1>3, <1>4
  <2> HIDE DEF a, b
  <2> QED
    BY <1>1, <2>1
<1>6. u - q = 0
  <2>1. u - q \in Int /\ - w < w * (u - q) /\ w * (u - q) < w
    BY <1>1, <1>2, <1>5
  <2> QED
    BY <2>1, Multiple
<1>7. w * (u - q) = 0
  BY <1>6
<1> QED
  BY <1>5, <1>7

\* inc_history_index() is an addition modulo the size of the ring.
LEMMA IncIsMod ==
  ASSUME NEW x \in Int
  PROVE  IncIndex(x % Size) = (x + 1) % Size
<1> DEFINE r == x % Size
<1>1. Size \in Nat \ {0} /\ r \in 0 .. Size - 1 /\ (r + 1) % Size = (x + 1) % Size
  <2>1. Size \in Nat \ {0}
    BY SizeAssumption
  <2>2. x % Size \in 0 .. Size - 1
    BY <2>1, SmallMod
  <2>3. ((x % Size) + 1) % Size = (x + 1) % Size
    <3>1. 1 \in Int
      OBVIOUS
    <3> QED
      BY <2>1, <3>1, ModShift, Zenon
  <2> QED
    BY <2>1, <2>2, <2>3
<1> HIDE DEF r
<1>2. CASE r < Size - 1
  <2>1. r + 1 \in 0 .. Size - 1
    BY <1>1, <1>2
  <2>2. (r + 1) % Size = r + 1
    <3>1. r + 1 \in Int /\ Size \in Nat \ {0}
      BY <1>1
    <3>2. r + 1 \in 0 .. Size - 1 => (r + 1) % Size = r + 1
      BY <3>1, SmallMod, Zenon
    <3> QED
      BY <2>1, <3>2
  <2> QED
    BY <1>1, <1>2, <2>2 DEF IncIndex, r
<1>3. CASE ~(r < Size - 1)
  <2>1. r + 1 = 0 + Size /\ 0 \in 0 .. Size - 1
    BY <1>1, <1>3
  <2>2. (0 + Size) % Size = 0
    BY <1>1, <2>1, SmallMod
  <2> QED
    BY <1>1, <1>3, <2>1, <2>2 DEF IncIndex, r
<1> QED
  BY <1>2, <1>3

\* The index after k slots, in closed form.
LEMMA IndexAfterIsMod ==
  ASSUME NEW i \in Slots, NEW n \in Nat
  PROVE  IndexAfter(i, n) = [k \in 0 .. n |-> (i + k) % Size]
<1> DEFINE F(f) == f = [k \in 0 .. n |-> IF k = 0 THEN i ELSE IncIndex(f[k - 1])]
           c == [k \in 0 .. n |-> (i + k) % Size]
<1>1. IndexAfter(i, n) = CHOOSE f : F(f)
  BY DEF IndexAfter
<1>2. F(c)
  <2>1. ASSUME NEW k \in 0 .. n
        PROVE  c[k] = IF k = 0 THEN i ELSE IncIndex(c[k - 1])
    <3>1. CASE k = 0
      <4>1. i + 0 = i /\ i \in 0 .. Size - 1 /\ i \in Int
        BY SizeAssumption DEF Slots
      <4>2. i % Size = i
        BY <4>1, SizeAssumption, SmallMod
      <4> QED
        BY <3>1, <4>1, <4>2
    <3>2. CASE k # 0
      <4>1. k - 1 \in 0 .. n /\ i + (k - 1) \in Int /\ i + (k - 1) + 1 = i + k
        BY <3>2, SizeAssumption DEF Slots
      <4>2. IncIndex((i + (k - 1)) % Size) = (i + k) % Size
        BY <4>1, IncIsMod
      <4> QED
        BY <3>2, <4>1, <4>2
    <3> QED
      BY <3>1, <3>2
  <2> QED
    BY <2>1
<1>3. ASSUME NEW f, F(f) PROVE f = c
  <2>1. DOMAIN f = 0 .. n /\ f = [k \in 0 .. n |-> f[k]]
    BY <1>3
  <2> DEFINE bad == {k \in 0 .. n : f[k] # c[k]}
  <2>2. bad = {}
    <3> SUFFICES ASSUME bad # {} PROVE FALSE
      OBVIOUS
    <3>1. bad \subseteq 0 .. n
      OBVIOUS
    <3> HIDE DEF bad
    <3>2. PICK m \in bad : \A y \in bad : m <= y
      BY <3>1, MinIsLeast
    <3>3. m \in 0 .. n /\ f[m] # c[m]
      BY <3>2 DEF bad
    <3>4. f[m] = (IF m = 0 THEN i ELSE IncIndex(f[m - 1])) /\ c[m] = (IF m = 0 THEN i ELSE IncIndex(c[m - 1]))
      BY <1>2, <1>3, <3>3
    <3>5. m # 0 /\ m - 1 \in 0 .. n
      BY <3>3, <3>4
    <3>6. m - 1 \notin bad
      BY <3>2, <3>3, <3>5
    <3> QED
      BY <3>3, <3>4, <3>5, <3>6 DEF bad
  <2> QED
    BY <2>1, <2>2
<1> HIDE DEF F, c
<1>4. F(CHOOSE f : F(f))
  BY <1>2
<1> QED
  BY <1>1, <1>3, <1>4 DEF c

-----------------------------------------------------------------------------
(***************************************************************************)
(* Types.                                                                   *)
(***************************************************************************)
Entry == [to : Nat, total : Nat, value : Nat \cup {Unknown}, stored : BOOLEAN]

Typed ==
    /\ time \in Nat \ {0} /\ r_total \in Nat
    /\ ad_type \in Types /\ hd_interval \in Intervals /\ hd_type \in Widths
    /\ h_index \in Slots /\ h_last_update \in 0 .. time
    /\ hs_allocated \in BOOLEAN
    /\ hs_data \in [Slots -> Nat] /\ hs_prev_total \in Nat
    /\ log \in Seq(Entry) /\ Len(log) <= Size

\* The time since the last update, as Update has it.
Elapsed(gap) == IF IsFirstUpdate THEN 0 ELSE time + gap - h_last_update

NewEntry(value) ==
    [to |-> time', total |-> r_total', value |-> value,
     stored |-> hs_allocated']

\* The log has n more entries of a value in front.
Added(n, value) ==
    /\ log' \in Seq(Entry)
    /\ Len(log') = IF n + Len(log) < Size THEN n + Len(log) ELSE Size
    /\ \A i \in 1 .. Len(log') : log'[i] = IF i <= n THEN NewEntry(value) ELSE log[i - n]

\* The constants, as the provers like them.
LEMMA Constants ==
  /\ Size \in Nat \ {0} /\ Slots = 0 .. Size - 1
  /\ ReadInterval \in Nat \ {0} /\ Tolerance \in Nat \ {0}
  /\ \A x \in Intervals : x \in Nat \ {0}
  /\ \A x \in Widths : x \in Nat /\ x >= 2
  /\ \A x \in Gaps : x \in Nat \ {0}
  /\ \A x \in Amounts : x \in Nat
  /\ Width64 \in Nat
BY SizeAssumption, IntervalAssumption, InputAssumption, WidthAssumption DEF Slots

\* What Remember does to the log.
LEMMA RememberFacts ==
  ASSUME Typed, NEW n \in Nat, NEW value \in Nat \cup {Unknown}, Remember(n, value),
         time' \in Nat, r_total' \in Nat, hs_allocated' \in BOOLEAN
  PROVE  Added(n, value)
<1> DEFINE en == NewEntry(value)
           front == [k \in 1 .. n |-> en]
           all == front \o log
           len == IF Len(all) < Size THEN Len(all) ELSE Size
<1>1. en \in Entry
  BY DEF Entry, NewEntry, Typed
<1>2. log \in Seq(Entry) /\ Len(log) \in Nat
  BY LenProperties DEF Typed
<1>3. log' = SubSeq(all, 1, len)
  BY DEF Remember, NewEntry
<1> HIDE DEF en
<1>4. front \in Seq(Entry) /\ Len(front) = n /\ \A k \in 1 .. n : front[k] = en
  BY <1>1
<1> HIDE DEF front
<1>5. /\ all \in Seq(Entry) /\ Len(all) = n + Len(log)
      /\ \A k \in 1 .. n + Len(log) : all[k] = IF k <= n THEN en ELSE log[k - n]
  <2>1. /\ front \o log \in Seq(Entry)
        /\ Len(front \o log) = Len(front) + Len(log)
        /\ \A k \in 1 .. Len(front) + Len(log) :
              (front \o log)[k] = IF k <= Len(front) THEN front[k] ELSE log[k - Len(front)]
    BY <1>2, <1>4, ConcatProperties
  <2> QED
    BY <1>2, <1>4, <2>1
<1> HIDE DEF all
<1>6. len \in Nat /\ len <= Len(all) /\ len = IF n + Len(log) < Size THEN n + Len(log) ELSE Size
  BY <1>2, <1>5, Constants
<1> HIDE DEF len
<1>7. SubSeq(all, 1, len) \in Seq(Entry)
  <2>1. \A k \in 1 .. len : k \in 1 .. Len(all) /\ all[k] \in Entry
    BY <1>2, <1>5, <1>6
  <2> QED
    BY <1>6, <2>1
<1>8. Len(SubSeq(all, 1, len)) = len /\ \A k \in 1 .. len : SubSeq(all, 1, len)[k] = all[k]
  BY <1>5, <1>6
<1> QED
  <2>1. log' \in Seq(Entry) /\ Len(log') = len /\ \A k \in 1 .. len : log'[k] = all[k]
    BY <1>3, <1>7, <1>8
  <2>2. \A k \in 1 .. len : k \in 1 .. n + Len(log)
    BY <1>2, <1>5, <1>6
  <2>3. \A k \in 1 .. len : all[k] = IF k <= n THEN NewEntry(value) ELSE log[k - n]
    BY <1>5, <2>2 DEF en
  <2> QED
    BY <1>6, <2>1, <2>3 DEF Added

\* What every reading does before the history is updated.
LEMMA UpdateFacts ==
  ASSUME Typed, NEW gap \in Gaps, NEW n \in Amounts, Update(gap, n)
  PROVE  /\ time' = time + gap /\ time' \in Nat \ {0} /\ r_total' \in Nat
         /\ ad_type = "counter" => r_total' = r_total + n
         /\ UNCHANGED defs
         /\ Elapsed(gap) \in Nat
         /\ ~IsFirstUpdate => /\ Elapsed(gap) = time' - h_last_update
                              /\ Elapsed(gap) > 0
         /\ FirstUpdate \/ TooEarly(Elapsed(gap)) \/ Store(Elapsed(gap)) \/ Discard(Elapsed(gap))
<1>1. /\ time' = time + gap
      /\ r_total' = (IF ad_type = "counter" THEN r_total + n ELSE n)
      /\ UNCHANGED defs
      /\ FirstUpdate \/ TooEarly(Elapsed(gap)) \/ Store(Elapsed(gap)) \/ Discard(Elapsed(gap))
  BY DEF Update, Elapsed
<1>2. gap \in Nat \ {0} /\ n \in Nat /\ time \in Nat \ {0} /\ r_total \in Nat
      /\ h_last_update \in 0 .. time
  BY Constants DEF Typed
<1>3. Elapsed(gap) \in Nat /\ (~IsFirstUpdate => Elapsed(gap) = time + gap - h_last_update
                                                  /\ Elapsed(gap) > 0)
  BY <1>2 DEF Elapsed
<1> QED
  BY <1>1, <1>2, <1>3

\* Quotients and remainders of natural numbers.
LEMMA NatDiv ==
  ASSUME NEW x \in Nat, NEW k \in Nat \ {0}
  PROVE  x \div k \in Nat /\ x % k \in 0 .. k - 1
OBVIOUS

\* A mean is a natural number.
LEMMA MeanNat ==
  ASSUME Typed, r_total' \in Nat, NEW d \in Nat, Width64 # 0
  PROVE  \A mean \in Means(d) : mean \in Nat
<1>1. r_total' - hs_prev_total \in Int /\ Width64 \in Nat \ {0}
  BY Constants DEF Typed
<1>2. (r_total' - hs_prev_total) % Width64 \in Nat
  BY <1>1, SmallMod
<1> DEFINE delta == (r_total' - hs_prev_total) % Width64
<1> HIDE DEF delta
<1>3. delta \in Nat
  BY <1>2 DEF delta
<1>4. Width64 \div 2 \in Nat /\ Width64 - 1 \in Nat /\ 0 \in Nat
  BY <1>1, NatDiv
<1>5. \A mean \in Unconvertible : mean \in Nat
  BY <1>4 DEF Unconvertible
<1>6. \A mean \in Means(d) : mean \in {0} \cup Unconvertible \cup 0 .. Width64 - 1
  BY ONLY DEF Means
<1>7. \A mean \in 0 .. Width64 - 1 : mean \in Nat
  OBVIOUS
<1> QED
  BY ONLY <1>4, <1>5, <1>6, <1>7

\* One slot is stored at h_index.
LEMMA StoreFacts ==
  ASSUME Typed, NEW d \in Nat, Store(d), time' \in Nat, r_total' \in Nat
  PROVE  /\ hs_allocated' = TRUE
         /\ h_index' = (h_index + 1) % Size
         /\ \E mean \in Means(d) :
              /\ mean \in Nat /\ Added(1, mean)
              /\ hs_data' = [hs_data EXCEPT ![h_index] = mean % hd_type]
<1>1. Width64 # 0
  BY WidthAssumption DEF Typed
<1>2. PICK mean \in Means(d) :
        hs_data' = [hs_data EXCEPT ![h_index] = mean % hd_type] /\ Remember(1, mean)
  BY DEF Store
<1>3. mean \in Nat
  BY <1>1, <1>2, MeanNat
<1>4. hs_allocated' = TRUE /\ h_index' = IncIndex(h_index)
  BY DEF Store
<1>5. Added(1, mean)
  BY <1>2, <1>3, <1>4, RememberFacts
<1>6. IncIndex(h_index) = (h_index + 1) % Size
  <2>1. h_index \in Int /\ h_index \in 0 .. Size - 1
    BY Constants DEF Typed
  <2>2. h_index % Size = h_index
    BY <2>1, Constants, SmallMod, Zenon
  <2>3. IncIndex(h_index % Size) = (h_index + 1) % Size
    BY <2>1, IncIsMod
  <2> QED
    BY <2>2, <2>3
<1> QED
  BY <1>2, <1>3, <1>4, <1>5, <1>6

\* The slots missed are passed, and unknown.
LEMMA DiscardFacts ==
  ASSUME Typed, NEW d \in Nat, Discard(d), time' \in Nat, r_total' \in Nat
  PROVE  /\ hs_allocated' = hs_allocated
         /\ Missed(d) \in Nat
         /\ h_index' = (h_index + Missed(d)) % Size
         /\ Added(Missed(d), Unknown)
         /\ hs_data' = IF hs_allocated
              THEN [s \in Slots |-> IF s \in {(h_index + k) % Size : k \in 0 .. Missed(d) - 1}
                                    THEN hd_type - 1 ELSE hs_data[s]]
              ELSE hs_data
<1> DEFINE n == Missed(d)
<1>1. n \in Nat
  <2>1. 2 * d + hd_interval \in Nat /\ 2 * hd_interval \in Nat \ {0}
    BY Constants DEF Typed
  <2> QED
    BY <2>1, NatDiv DEF Missed
<1> HIDE DEF n
<1>2. IndexAfter(h_index, n) = [k \in 0 .. n |-> (h_index + k) % Size]
  BY <1>1, IndexAfterIsMod DEF Typed
<1>3. IndexAfter(h_index, n)[n] = (h_index + n) % Size
  BY <1>1, <1>2
<1>4. Passed(h_index, n) = {(h_index + k) % Size : k \in 0 .. n - 1}
  <2>1. \A k \in 0 .. n - 1 : IndexAfter(h_index, n)[k] = (h_index + k) % Size
    BY <1>1, <1>2
  <2> QED
    BY <2>1 DEF Passed
<1>5. /\ hs_allocated' = hs_allocated
      /\ hs_data' = IF hs_allocated
                    THEN [s \in Slots |-> IF s \in Passed(h_index, n) THEN hd_type - 1
                                          ELSE hs_data[s]]
                    ELSE hs_data
      /\ h_index' = IndexAfter(h_index, n)[n]
      /\ Remember(n, Unknown)
  BY DEF Discard, n
<1>6. Added(n, Unknown)
  BY <1>1, <1>5, RememberFacts DEF Typed
<1> QED
  BY <1>1, <1>3, <1>4, <1>5, <1>6 DEF n

\* Every reading keeps the types.
LEMMA TypedStep == Typed /\ [Next]_vars => Typed'
<1> SUFFICES ASSUME Typed, [Next]_vars PROVE Typed'
  OBVIOUS
<1>1. CASE UNCHANGED vars
  BY <1>1 DEF vars, defs, Typed
<1>2. CASE Next
  <2>1. PICK gap \in Gaps, n \in Amounts : Update(gap, n)
    BY <1>2 DEF Next
  <2> DEFINE d == Elapsed(gap)
  <2>2. /\ time' = time + gap /\ time' \in Nat \ {0} /\ r_total' \in Nat
        /\ UNCHANGED defs /\ d \in Nat
        /\ FirstUpdate \/ TooEarly(d) \/ Store(d) \/ Discard(d)
    BY <2>1, UpdateFacts
  <2>3. h_last_update \in 0 .. time' /\ time' \in 0 .. time'
    BY <2>1, <2>2, Constants DEF Typed
  <2>4. \A x \in Int : x % Size \in Slots
    <3>1. Size \in Nat \ {0} /\ Slots = 0 .. Size - 1
      BY Constants
    <3> QED
      BY <3>1, SmallMod, Zenon
  <2> HIDE DEF d
  <2>5. /\ ad_type' \in Types /\ hd_interval' \in Intervals /\ hd_type' \in Widths
    BY <2>2 DEF Typed, defs
  <2>6. CASE FirstUpdate \/ TooEarly(d)
    BY <2>2, <2>3, <2>5, <2>6 DEF FirstUpdate, TooEarly, Typed
  <2>7. CASE Store(d)
    <3>1. /\ hs_allocated' = TRUE /\ h_index' = (h_index + 1) % Size
          /\ \E mean \in Means(d) :
               /\ mean \in Nat /\ Added(1, mean)
               /\ hs_data' = [hs_data EXCEPT ![h_index] = mean % hd_type]
      BY <2>2, <2>7, StoreFacts
    <3>2. PICK mean \in Nat : Added(1, mean) /\ hs_data' = [hs_data EXCEPT ![h_index] = mean % hd_type]
      BY <3>1
    <3>3. hs_prev_total' = r_total' /\ h_last_update' = time'
      BY <2>7 DEF Store
    <3>4. hd_type \in Nat \ {0} /\ h_index + 1 \in Int
      BY Constants DEF Typed
    <3>5. mean % hd_type \in Nat
      BY <3>4, NatDiv
    <3>6. hs_data' \in [Slots -> Nat]
      BY <3>2, <3>5 DEF Typed
    <3>7. log' \in Seq(Entry) /\ Len(log') <= Size
      BY <3>2, Constants, LenProperties DEF Added, Typed
    <3> QED
      BY <2>2, <2>3, <2>4, <2>5, <3>1, <3>3, <3>4, <3>6, <3>7 DEF Typed
  <2>8. CASE Discard(d)
    <3> DEFINE m == Missed(d)
    <3>1. /\ hs_allocated' = hs_allocated /\ m \in Nat
          /\ h_index' = (h_index + m) % Size /\ Added(m, Unknown)
          /\ hs_data' = IF hs_allocated
               THEN [s \in Slots |-> IF s \in {(h_index + k) % Size : k \in 0 .. m - 1}
                                     THEN hd_type - 1 ELSE hs_data[s]]
               ELSE hs_data
      BY <2>2, <2>8, DiscardFacts
    <3> HIDE DEF m
    <3>2. hs_prev_total' = r_total' /\ h_last_update' = time'
      BY <2>8 DEF Discard, PrevAfterDiscard
    <3>3. hd_type - 1 \in Nat /\ h_index + m \in Int
      BY <3>1, Constants DEF Typed
    <3>4. hs_data' \in [Slots -> Nat]
      BY <3>1, <3>3 DEF Typed
    <3>5. log' \in Seq(Entry) /\ Len(log') <= Size
      BY <3>1, Constants, LenProperties DEF Added, Typed
    <3> QED
      BY <2>2, <2>3, <2>4, <2>5, <3>1, <3>2, <3>3, <3>4, <3>5 DEF Typed
  <2> QED
    BY <2>2, <2>6, <2>7, <2>8
<1> QED
  BY <1>1, <1>2

\* The types hold when the attribute is created.
LEMMA InitTyped == Init => Typed
<1> SUFFICES ASSUME Init PROVE Typed
  OBVIOUS
<1>1. time \in Nat \ {0} /\ r_total \in Nat /\ h_last_update \in 0 .. time /\ hs_prev_total \in Nat
  BY Constants DEF Init
<1>2. h_index \in Slots /\ hs_data \in [Slots -> Nat] /\ hs_allocated \in BOOLEAN
  <2>1. h_index \in Slots
    BY Constants DEF Init
  <2>2. hs_data \in [Slots -> Nat] /\ hs_allocated \in BOOLEAN
    BY DEF Init
  <2> QED
    BY <2>1, <2>2
<1>3. log \in Seq(Entry) /\ Len(log) = 0
  BY EmptySeq DEF Init
<1> QED
  BY <1>1, <1>2, <1>3, Constants DEF Init, Typed

-----------------------------------------------------------------------------
(***************************************************************************)
(* The ring explains the log: the slot i before h_index holds what entry i   *)
(* of the log says.  It is needed also before the ring is allocated, when    *)
(* every slot is 0 and no entry has been stored.                            *)
(***************************************************************************)
Cell(value) == IF value = Unknown THEN hd_type - 1 ELSE value % hd_type

Recorded(i) == i <= Len(log) /\ log[i].stored

RingIsLog ==
    /\ \A i \in 1 .. Size :
          hs_data[(h_index - i) % Size] = IF Recorded(i) THEN Cell(log[i].value) ELSE 0
    /\ ~hs_allocated => /\ \A s \in Slots : hs_data[s] = 0
                        /\ \A i \in 1 .. Len(log) : ~log[i].stored

\* n slots are passed and filled with a value.
LEMMA RingTurns ==
  ASSUME Typed, RingIsLog, NEW n \in Nat, NEW value, Added(n, value),
         hs_allocated' \in BOOLEAN, hs_allocated => hs_allocated', UNCHANGED defs,
         h_index' = (h_index + n) % Size,
         hs_data' = IF hs_allocated'
           THEN [s \in Slots |-> IF s \in {(h_index + k) % Size : k \in 0 .. n - 1}
                                 THEN Cell(value) ELSE hs_data[s]]
           ELSE hs_data
  PROVE  RingIsLog'
<1>1. /\ Size \in Nat \ {0} /\ Slots = 0 .. Size - 1 /\ h_index \in Int
      /\ Len(log) \in Nat /\ hs_data \in [Slots -> Nat]
  BY Constants, LenProperties DEF Typed
<1>2. \A x \in Int : x % Size \in Slots /\ x % Size \in Int
  <2>1. \A x \in Int : x % Size \in 0 .. Size - 1
    BY <1>1, SmallMod, Zenon
  <2>2. \A r \in 0 .. Size - 1 : r \in Int
    BY <1>1
  <2> QED
    BY <1>1, <2>1, <2>2, Zenon
<1>3. \A x, y \in Int : ((x % Size) + y) % Size = (x + y) % Size
  BY <1>1, ModShift, Zenon
<1>4. \A x, y \in Int : x < y /\ y - x < Size => x % Size # y % Size
  <2> SUFFICES ASSUME NEW x \in Int, NEW y \in Int, x < y, y - x < Size
               PROVE  x % Size # y % Size
    OBVIOUS
  <2> QED
    BY <1>1, ModApart, Zenon
<1>5. ASSUME NEW i \in 1 .. Size
      PROVE  (h_index' - i) % Size = (h_index + (n - i)) % Size
  <2> DEFINE h == (h_index + n) % Size
  <2>0. h \in Int
    BY <1>1, <1>2
  <2> HIDE DEF h
  <2>1. h_index + n \in Int /\ - i \in Int /\ h - i = h + (- i)
        /\ h_index + n + (- i) = h_index + (n - i)
    BY <1>1, <2>0
  <2>2. (((h_index + n) % Size) + (- i)) % Size = (h_index + n + (- i)) % Size
    BY <1>3, <2>1
  <2>3. h_index' = h
    BY DEF h
  <2>4. (h_index' - i) % Size = (h + (- i)) % Size
    BY <2>1, <2>3
  <2> QED
    BY <2>1, <2>2, <2>4 DEF h
<1>6. \A i \in 1 .. Len(log') : log'[i] = IF i <= n THEN NewEntry(value) ELSE log[i - n]
  BY DEF Added
<1>7. Len(log') = IF n + Len(log) < Size THEN n + Len(log) ELSE Size
  BY DEF Added
<1>8. \A x : Cell(x)' = Cell(x)
  BY DEF Cell, defs
<1>9. ASSUME NEW i \in 1 .. Size
      PROVE  hs_data'[(h_index' - i) % Size] = IF Recorded(i)' THEN Cell(log'[i].value) ELSE 0
  <2> DEFINE s == (h_index + (n - i)) % Size
  <2>1. (h_index' - i) % Size = s /\ s \in Slots
    <3>1. h_index + (n - i) \in Int
      BY <1>1
    <3> QED
      BY <1>2, <1>5, <3>1
  <2>2. CASE i <= n
    <3>1. i \in 1 .. Len(log') /\ log'[i] = NewEntry(value)
      <4>1. i \in 1 .. Len(log')
        BY <1>1, <1>7, <2>2
      <4> QED
        BY <1>6, <2>2, <4>1
    <3>2. (Recorded(i)' <=> hs_allocated') /\ log'[i].value = value
      BY <3>1 DEF Recorded, NewEntry
    <3>3. s \in {(h_index + k) % Size : k \in 0 .. n - 1}
      <4>1. n - i \in 0 .. n - 1
        BY <2>2
      <4> QED
        BY <4>1
    <3> HIDE DEF s
    <3>4. CASE hs_allocated'
      BY <2>1, <3>2, <3>3, <3>4
    <3>5. CASE ~hs_allocated'
      BY <2>1, <3>2, <3>5 DEF RingIsLog
    <3> QED
      BY <3>4, <3>5
  <2>3. CASE n < i
    <3>1. i - n \in 1 .. Size /\ n - i = - (i - n) /\ s = (h_index - (i - n)) % Size
      BY <1>1, <2>3
    <3>2. hs_data[s] = IF Recorded(i - n) THEN Cell(log[i - n].value) ELSE 0
      BY <3>1 DEF RingIsLog
    <3>3. i <= Len(log') <=> i - n <= Len(log)
      BY <1>1, <1>7
    <3>4. i <= Len(log') => log'[i] = log[i - n]
      BY <1>6, <1>7, <1>1, <2>3
    <3>5. s \notin {(h_index + k) % Size : k \in 0 .. n - 1}
      <4>1. ASSUME NEW k \in 0 .. n - 1 PROVE s # (h_index + k) % Size
        <5> DEFINE x == h_index + (n - i)
                   y == h_index + k
        <5>1. x \in Int /\ y \in Int /\ x < y /\ y - x < Size
          BY <1>1, <2>3
        <5> HIDE DEF x, y
        <5>2. x % Size # y % Size
          BY <1>4, <5>1, Zenon
        <5> QED
          BY <5>2 DEF x, y
      <4> QED
        BY <4>1
    <3> HIDE DEF s
    <3>6. hs_data'[s] = hs_data[s]
      BY <2>1, <3>5
    <3>7. Recorded(i)' <=> Recorded(i - n)
      BY <3>3, <3>4 DEF Recorded
    <3>8. Recorded(i - n) => log'[i] = log[i - n]
      BY <3>3, <3>4 DEF Recorded
    <3> QED
      BY <2>1, <3>2, <3>6, <3>7, <3>8
  <2> QED
    BY <2>2, <2>3
<1>10. ASSUME ~hs_allocated'
       PROVE  /\ \A s \in Slots : hs_data'[s] = 0
              /\ \A i \in 1 .. Len(log') : ~log'[i].stored
  <2>1. ~hs_allocated /\ hs_data' = hs_data
    BY <1>10 DEF Typed
  <2>2. \A i \in 1 .. Len(log) : ~log[i].stored
    BY <2>1 DEF RingIsLog
  <2>3. ASSUME NEW i \in 1 .. Len(log') PROVE ~log'[i].stored
    <3>1. CASE i <= n
      BY <1>6, <1>10, <3>1 DEF NewEntry
    <3>2. CASE n < i
      <4>1. i - n \in 1 .. Len(log)
        <5>1. Len(log) \in Nat /\ i \in Nat /\ i <= Len(log') /\ n \in Nat
          BY <1>1, <1>7
        <5>2. i <= n + Len(log)
          BY ONLY <1>7, <5>1
        <5> QED
          BY ONLY <3>2, <5>1, <5>2
      <4> QED
        BY <1>6, <2>2, <3>2, <4>1
    <3> QED
      BY <3>1, <3>2
  <2> QED
    BY <2>1, <2>3 DEF RingIsLog
<1> QED
  BY <1>8, <1>9, <1>10 DEF RingIsLog

\* Every reading keeps the ring as the log says.
LEMMA RingStep == Typed /\ RingIsLog /\ [Next]_vars => RingIsLog'
<1> SUFFICES ASSUME Typed, RingIsLog, [Next]_vars PROVE RingIsLog'
  OBVIOUS
<1>1. CASE UNCHANGED vars
  BY <1>1 DEF vars, defs, RingIsLog, Recorded, Cell
<1>2. CASE Next
  <2>1. PICK gap \in Gaps, n \in Amounts : Update(gap, n)
    BY <1>2 DEF Next
  <2> DEFINE d == Elapsed(gap)
  <2>2. /\ time' \in Nat \ {0} /\ r_total' \in Nat
        /\ UNCHANGED defs /\ d \in Nat
        /\ FirstUpdate \/ TooEarly(d) \/ Store(d) \/ Discard(d)
    BY <2>1, UpdateFacts
  <2> HIDE DEF d
  <2>3. CASE FirstUpdate \/ TooEarly(d)
    BY <2>2, <2>3 DEF FirstUpdate, TooEarly, RingIsLog, Recorded, Cell, defs
  <2>4. CASE Store(d)
    <3>1. /\ hs_allocated' = TRUE /\ h_index' = (h_index + 1) % Size
          /\ \E mean \in Means(d) :
               /\ mean \in Nat /\ Added(1, mean)
               /\ hs_data' = [hs_data EXCEPT ![h_index] = mean % hd_type]
      BY <2>2, <2>4, StoreFacts
    <3>2. PICK mean \in Nat : Added(1, mean) /\ hs_data' = [hs_data EXCEPT ![h_index] = mean % hd_type]
      BY <3>1
    <3>3. Cell(mean) = mean % hd_type
      BY UnknownAssumption DEF Cell
    <3>4. {(h_index + k) % Size : k \in 0 .. 1 - 1} = {h_index}
      <4>1. h_index \in 0 .. Size - 1 /\ h_index \in Int /\ h_index + 0 = h_index /\ 0 .. 1 - 1 = {0}
        BY Constants DEF Typed
      <4>2. h_index % Size = h_index
        BY <4>1, Constants, SmallMod, Zenon
      <4> QED
        BY <4>1, <4>2
    <3>5. hs_data' = [s \in Slots |-> IF s \in {h_index} THEN Cell(mean) ELSE hs_data[s]]
      BY <3>2, <3>3 DEF Typed
    <3> QED
      BY <2>2, <3>1, <3>2, <3>4, <3>5, RingTurns
  <2>5. CASE Discard(d)
    <3> DEFINE m == Missed(d)
    <3>1. /\ hs_allocated' = hs_allocated /\ m \in Nat
          /\ h_index' = (h_index + m) % Size /\ Added(m, Unknown)
          /\ hs_data' = IF hs_allocated
               THEN [s \in Slots |-> IF s \in {(h_index + k) % Size : k \in 0 .. m - 1}
                                     THEN hd_type - 1 ELSE hs_data[s]]
               ELSE hs_data
      BY <2>2, <2>5, DiscardFacts
    <3> HIDE DEF m
    <3>2. Cell(Unknown) = hd_type - 1
      BY DEF Cell
    <3>3. hs_allocated' \in BOOLEAN
      BY <3>1 DEF Typed
    <3> QED
      BY <2>2, <3>1, <3>2, <3>3, RingTurns
  <2> QED
    BY <2>2, <2>3, <2>4, <2>5
<1> QED
  BY <1>1, <1>2

\* The graph shows the last slots, newest first, for every size of the ring,
\* however often it has turned and whatever was missed.
THEOREM GraphAlwaysRecent == Spec => []GraphIsRecent
<1>1. Init => RingIsLog
  <2> SUFFICES ASSUME Init PROVE RingIsLog
    OBVIOUS
  <2>1. \A x \in Int : x % Size \in Slots
    <3>1. Size \in Nat \ {0} /\ Slots = 0 .. Size - 1
      BY Constants
    <3> QED
      BY <3>1, SmallMod, Zenon
  <2>2. Len(log) = 0 /\ \A s \in Slots : hs_data[s] = 0
    BY EmptySeq DEF Init
  <2>3. \A i \in 1 .. Size : h_index - i \in Int /\ ~Recorded(i)
    BY <2>2, Constants DEF Init, Recorded
  <2> QED
    BY <2>1, <2>2, <2>3 DEF RingIsLog
<1>2. Spec => [](Typed /\ RingIsLog)
  BY <1>1, InitTyped, TypedStep, RingStep, PTL DEF Spec
<1>3. Typed /\ RingIsLog => GraphIsRecent
  <2> SUFFICES ASSUME Typed, RingIsLog, NEW i \in 1 .. Size
               PROVE  IF i <= Len(log) /\ log[i].stored
                      THEN log[i].value \in 0 .. hd_type - 2 \cup {Unknown} => Column(i) = log[i].value
                      ELSE Column(i) = 0
    BY DEF GraphIsRecent
  <2>1. hd_type \in Nat /\ hd_type >= 2
    BY Constants DEF Typed
  <2>2. CASE Recorded(i)
    <3> DEFINE v == log[i].value
    <3>1. hs_data[(h_index - i) % Size] = Cell(v)
      BY <2>2 DEF RingIsLog
    <3> HIDE DEF v
    <3>2. CASE v = Unknown
      BY <2>2, <3>1, <3>2 DEF Cell, Column, HistoryData, Recorded, v
    <3>3. ASSUME v # Unknown, v \in 0 .. hd_type - 2 PROVE Column(i) = v
      <4>1. v \in Int /\ v \in 0 .. hd_type - 1 /\ hd_type \in Nat \ {0} /\ v # hd_type - 1
        BY <2>1, <3>3
      <4>2. v % hd_type = v
        BY <4>1, SmallMod, Zenon
      <4>3. Cell(v) = v
        BY <3>3, <4>2 DEF Cell
      <4> QED
        BY <3>1, <4>1, <4>3 DEF Column, HistoryData
    <3>4. v \in 0 .. hd_type - 2 \cup {Unknown} => Column(i) = v
      BY <3>2, <3>3, <3>1 DEF Cell, Column, HistoryData
    <3> QED
      BY <2>2, <3>4 DEF Recorded, v
  <2>3. CASE ~Recorded(i)
    <3>1. hs_data[(h_index - i) % Size] = 0
      BY <2>3 DEF RingIsLog
    <3>2. Column(i) = 0
      BY <2>1, <3>1 DEF Column, HistoryData
    <3> QED
      BY <2>3, <3>2 DEF Recorded
  <2> QED
    BY <2>2, <2>3
<1> QED
  BY <1>2, <1>3, PTL
-----------------------------------------------------------------------------
(***************************************************************************)
(* What a slot spans.                                                       *)
(***************************************************************************)
\* What every value in a log has in common: the entries added have it, and
\* those that were there had it.
LEMMA AddedValues ==
  ASSUME Typed, NEW n \in Nat, NEW value \in Nat \cup {Unknown}, Added(n, value)
  PROVE  \A i \in 1 .. Len(log') :
            \/ i <= n /\ log'[i] = NewEntry(value)
            \/ n < i /\ i - n \in 1 .. Len(log) /\ log'[i] = log[i - n]
<1>1. Len(log) \in Nat /\ Size \in Nat
  BY Constants, LenProperties DEF Typed
<1> SUFFICES ASSUME NEW i \in 1 .. Len(log')
             PROVE  \/ i <= n /\ log'[i] = NewEntry(value)
                    \/ n < i /\ i - n \in 1 .. Len(log) /\ log'[i] = log[i - n]
  OBVIOUS
<1>2. log'[i] = IF i <= n THEN NewEntry(value) ELSE log[i - n]
  BY DEF Added
<1>3. Len(log') = IF n + Len(log) < Size THEN n + Len(log) ELSE Size
  BY DEF Added
<1>4. i \in Nat /\ i <= n + Len(log) /\ 1 <= i
  BY <1>1, <1>3
<1> QED
  BY <1>1, <1>2, <1>4

-----------------------------------------------------------------------------
(***************************************************************************)
(* What a mean is.                                                          *)
(***************************************************************************)
\* What the next slot of a counter is compared with, when no more than Rate a
\* tick is counted: the last update, which is also the newest entry of the log
\* unless every reading is discarded.
Paced(Rate) ==
    ad_type = "counter" =>
        /\ IsFirstUpdate => Len(log) = 0
        /\ ~IsFirstUpdate => /\ hs_prev_total <= r_total
                             /\ r_total - hs_prev_total <= Rate * (time - h_last_update)
                             /\ ReadInterval = hd_interval => hs_prev_total = r_total
        /\ ReadInterval <= hd_interval /\ Len(log) > 0 =>
              log[1].to = h_last_update /\ log[1].total = hs_prev_total
        /\ ReadInterval > hd_interval => \A i \in 1 .. Len(log) : log[i].value = Unknown

\* The mean of an entry that has another one behind it.
AddsUp(i) ==
    log[i].value # Unknown =>
        IsQuotient(log[i].value, log[i].total - log[i + 1].total, log[i].to - log[i + 1].to)

\* Rates over a time that has two parts.
LEMMA RateSum ==
  ASSUME NEW a \in Nat, NEW x \in Nat, NEW y \in Nat
  PROVE  a * (x + y) = a * x + a * y /\ a * x \in Nat /\ a * y \in Nat
OBVIOUS

\* Longer times count more.
LEMMA RateGrows ==
  ASSUME NEW a \in Nat, NEW x \in Nat, NEW y \in Nat, x <= y
  PROVE  a * x <= a * y
<1>1. y - x \in Nat /\ y = x + (y - x)
  OBVIOUS
<1>2. a * y = a * x + a * (y - x) /\ a * x \in Nat /\ a * (y - x) \in Nat
  BY <1>1, RateSum
<1> QED
  BY <1>2

\* A reading adds to the total what it counted, and its time to the time since
\* the last update.
LEMMA PaceGrows ==
  ASSUME Typed, NEW Rate \in Nat, Paced(Rate), NEW gap \in Gaps, NEW n \in Amounts,
         n <= Rate * gap, Update(gap, n), ad_type = "counter", ~IsFirstUpdate
  PROVE  /\ hs_prev_total <= r_total'
         /\ r_total' - hs_prev_total <= Rate * (time' - h_last_update)
         /\ time' - h_last_update \in Nat \ {0}
<1>1. time' = time + gap /\ r_total' = r_total + n
  BY UpdateFacts
<1>2. /\ gap \in Nat \ {0} /\ n \in Nat /\ time \in Nat /\ r_total \in Nat
      /\ h_last_update \in 0 .. time /\ hs_prev_total \in Nat
  BY Constants DEF Typed
<1>3. hs_prev_total <= r_total /\ r_total - hs_prev_total <= Rate * (time - h_last_update)
  BY DEF Paced
<1> DEFINE x == time - h_last_update
<1>4. x \in Nat /\ time' - h_last_update = x + gap
  BY <1>1, <1>2
<1>5. r_total - hs_prev_total <= Rate * x
  BY <1>3
<1> HIDE DEF x
<1>6. Rate * (x + gap) = Rate * x + Rate * gap /\ Rate * x \in Nat /\ Rate * gap \in Nat
  BY <1>2, <1>4, RateSum
<1> QED
  BY <1>1, <1>2, <1>3, <1>4, <1>5, <1>6

\* A difference of natural numbers.
LEMMA NatDifference ==
  ASSUME NEW x \in Nat, NEW y \in Nat, y <= x
  PROVE  x - y \in Nat
OBVIOUS

\* What fits into 64 bits, rounded up by a float or not.
Fits(n) == (Accuracy + 1) * n < Accuracy * Width64

\* What fits is below 2^64, and so is what is less.
LEMMA FitsFacts ==
  ASSUME NEW m \in Nat, NEW n \in Nat, m <= n, Fits(n)
  PROVE  Fits(m) /\ m < Width64
<1> DEFINE A == Accuracy
           W == Width64
<1>1. A \in Nat \ {0} /\ W \in Nat /\ A + 1 \in Nat
  BY AccuracyAssumption, WidthAssumption
<1>2. (A + 1) * m <= (A + 1) * n
  BY <1>1, RateGrows
<1>3. (A + 1) * n < A * W
  BY DEF Fits
<1> HIDE DEF A, W
<1>4. (A + 1) * m \in Nat /\ (A + 1) * n \in Nat /\ A * W \in Nat
  BY <1>1
<1>5. (A + 1) * m < A * W
  BY <1>2, <1>3, <1>4
<1>6. ASSUME W <= m PROVE FALSE
  <2>1. A * W <= A * m /\ A * m \in Nat
    BY <1>1, <1>6, RateGrows
  <2>2. (A + 1) * m = A * m + m
    BY <1>1
  <2> QED
    BY <1>4, <1>5, <2>1, <2>2
<1> QED
  BY <1>1, <1>5, <1>6 DEF Fits, A, W

\* A quotient of what fits can be converted.
LEMMA FitsConverts ==
  ASSUME NEW delta \in Nat, NEW d \in Nat \ {0}, Fits(delta)
  PROVE  ~IsQuotient(Width64, delta, d)
<1>1. Accuracy \in Nat /\ Width64 \in Nat
  BY AccuracyAssumption, WidthAssumption
<1> DEFINE x == Accuracy * Width64
           y == (Accuracy + 1) * delta
<1>2. x \in Nat /\ y \in Nat
  BY <1>1
<1>3. y < x
  BY DEF Fits
<1>4. ~IsQuotient(Width64, delta, d) \/ x * d <= y
  BY DEF IsQuotient
<1> HIDE DEF x, y
<1>5. x * 1 <= x * d /\ x * d \in Nat
  BY <1>2, RateGrows
<1>6. x * 1 = x
  BY <1>2
<1> QED
  BY <1>2, <1>3, <1>4, <1>5, <1>6

\* What is stored is the growth since the last update over the time since then.
LEMMA MeanIsGrowth ==
  ASSUME Typed, NEW Rate \in Nat, Paced(Rate), NEW gap \in Gaps, NEW n \in Amounts,
         n <= Rate * gap, Fits(n), \A x \in Intervals : Fits(Rate * (Tolerance * x)),
         Update(gap, n), ad_type = "counter", Store(Elapsed(gap))
  PROVE  \A mean \in Means(Elapsed(gap)) :
            IsQuotient(mean, r_total' - hs_prev_total, time' - h_last_update)
<1> DEFINE d == Elapsed(gap)
           grown == r_total' - hs_prev_total
<1>1. ~IsFirstUpdate
  BY DEF Store, IsUpdate
<1>2. /\ hs_prev_total <= r_total' /\ grown <= Rate * d
      /\ d = time' - h_last_update /\ d \in Nat \ {0}
  BY <1>1, PaceGrows, UpdateFacts
<1>3. r_total' \in Nat /\ hs_prev_total \in Nat /\ hd_interval \in Intervals
      /\ ReadInterval \in Nat /\ hd_interval \in Nat /\ r_total \in Nat /\ n \in Nat
  BY UpdateFacts, Constants DEF Typed
<1>4. grown \in Nat
  <2>1. hs_prev_total <= r_total' /\ r_total' \in Nat /\ hs_prev_total \in Nat
    BY <1>2, <1>3
  <2> QED
    BY <2>1, NatDifference, Zenon
<1>5. Store(d) /\ r_total' = r_total + n
  BY UpdateFacts
<1>6. Fits(grown)
  <2>1. CASE ReadInterval = hd_interval
    <3>1. hs_prev_total = r_total
      BY <1>1, <2>1 DEF Paced
    <3>2. grown = n
      BY <1>3, <1>5, <3>1
    <3> QED
      BY <3>2
  <2>2. CASE ReadInterval < hd_interval
    <3>1. d <= MaxInterval
      <4>1. ~(d > MaxInterval)
        BY <1>5, <2>2 DEF Store, IsDiscarded
      <4>2. MaxInterval \in Nat
        BY <1>3, Constants DEF MaxInterval
      <4> QED
        BY <1>2, <4>1, <4>2
    <3>2. Fits(Rate * MaxInterval)
      BY <1>3 DEF MaxInterval
    <3>3. MaxInterval \in Nat
      BY <1>3, Constants DEF MaxInterval
    <3>4. Rate * d <= Rate * MaxInterval
      BY <1>2, <3>1, <3>3, RateGrows
    <3>5. Rate * d \in Nat /\ Rate * MaxInterval \in Nat
      BY <1>2, <3>3, RateSum
    <3> HIDE DEF d, grown
    <3>6. grown <= Rate * MaxInterval
      BY <1>2, <1>4, <3>4, <3>5
    <3> QED
      BY <1>4, <3>2, <3>5, <3>6, FitsFacts
  <2>3. CASE ReadInterval > hd_interval
    BY <1>5, <2>3 DEF Store, IsDiscarded
  <2> QED
    BY <1>3, <2>1, <2>2, <2>3
<1>7. grown % Width64 = grown
  <2>1. grown < Width64
    BY <1>4, <1>6, FitsFacts
  <2>2. grown \in Int /\ Width64 \in Nat \ {0} /\ grown \in 0 .. Width64 - 1
    <3> HIDE DEF grown
    <3> QED
      BY <1>4, <2>1, Constants
  <2> QED
    BY <2>2, SmallMod, Zenon
<1> SUFFICES ASSUME NEW mean \in Means(d) PROVE IsQuotient(mean, grown, d)
  BY <1>2
<1>8. d \in Nat \ {0}
  BY <1>2
<1> HIDE DEF d
<1>9. mean \in Means(d) /\ (r_total' - hs_prev_total) % Width64 = grown
  BY <1>7
<1> HIDE DEF grown
<1>10. CASE grown = 0
  <2>1. mean = 0
    BY <1>8, <1>9, <1>10 DEF Means
  <2>2. Accuracy \in Nat \ {0}
    BY AccuracyAssumption
  <2>3. Accuracy * 0 * d = 0 /\ (Accuracy + 1) * 0 = 0 /\ (Accuracy - 1) * 0 = 0
    BY <1>8, <2>2
  <2>4. Accuracy * d > 0
    <3>1. Accuracy * 1 <= Accuracy * d /\ Accuracy * 1 = Accuracy
      BY <1>8, <2>2, RateGrows
    <3> QED
      BY <1>8, <2>2, <3>1
  <2>5. Accuracy * (0 + 1) * d = Accuracy * d
    BY <1>8, <2>2
  <2> QED
    BY <1>10, <2>1, <2>3, <2>4, <2>5 DEF IsQuotient
<1>11. CASE grown # 0
  <2>1. ~IsQuotient(Width64, grown, d)
    BY <1>4, <1>6, <1>8, FitsConverts
  <2>2. d # 0
    BY <1>8
  <2> QED
    BY ONLY <1>9, <1>11, <2>1, <2>2 DEF Means
<1> QED
  BY <1>10, <1>11

\* A reading too late is one slot missed or more.
LEMMA LateMisses ==
  ASSUME Typed, NEW d \in Nat, ReadInterval < hd_interval, IsDiscarded(d)
  PROVE  Missed(d) >= 1
<1>1. hd_interval \in Nat \ {0} /\ Tolerance \in Nat \ {0} /\ ReadInterval \in Nat
  BY Constants DEF Typed
<1>2. d > MaxInterval
  BY <1>1 DEF IsDiscarded
<1>3. MaxInterval >= hd_interval
  <2>1. Tolerance * hd_interval >= hd_interval
    <3>1. hd_interval * 1 <= hd_interval * Tolerance
      BY <1>1, RateGrows
    <3> QED
      BY <1>1, <3>1
  <2> QED
    BY <2>1 DEF MaxInterval
<1>4. MaxInterval \in Nat
  BY <1>1 DEF MaxInterval
<1>5. 2 * d + hd_interval >= 2 * hd_interval
  BY <1>1, <1>2, <1>3, <1>4
<1> DEFINE a == 2 * d + hd_interval
           b == 2 * hd_interval
<1>6. a \in Nat /\ b \in Nat \ {0} /\ a >= b
  BY <1>1, <1>5
<1> HIDE DEF a, b
<1>7. a \div b >= 1
  BY <1>6
<1> QED
  BY <1>7 DEF Missed, a, b

\* The entries behind the added ones stay as they were.
LEMMA AddsUpMoves ==
  ASSUME Typed, NEW m \in Nat, NEW value \in Nat \cup {Unknown}, Added(m, value),
         \A j \in 1 .. Len(log) - 1 : AddsUp(j),
         NEW i \in 1 .. Len(log') - 1, m < i
  PROVE  AddsUp(i)'
<1>1. Len(log) \in Nat /\ Len(log') \in Nat
  BY LenProperties DEF Typed, Added
<1>2. i \in 1 .. Len(log') /\ i + 1 \in 1 .. Len(log') /\ i \in Nat
  BY <1>1
<1>3. i - m \in 1 .. Len(log) /\ log'[i] = log[i - m]
  BY <1>2, AddedValues
<1>4. i + 1 - m \in 1 .. Len(log) /\ log'[i + 1] = log[i + 1 - m]
  BY <1>2, AddedValues
<1>5. i + 1 - m = (i - m) + 1 /\ i - m \in 1 .. Len(log) - 1
  BY <1>1, <1>2, <1>3, <1>4
<1>6. AddsUp(i - m)
  BY <1>5
<1> QED
  BY <1>3, <1>4, <1>5, <1>6 DEF AddsUp

\* A reading keeps what the next slot is compared with, and adds a mean that
\* adds up.
LEMMA PacedStep ==
  ASSUME Typed, Typed', NEW Rate \in Nat, Paced(Rate), NEW gap \in Gaps, NEW n \in Amounts,
         n <= Rate * gap, Fits(n), \A x \in Intervals : Fits(Rate * (Tolerance * x)),
         Update(gap, n), ad_type = "counter",
         \A i \in 1 .. Len(log) - 1 : AddsUp(i)
  PROVE  Paced(Rate)' /\ \A i \in 1 .. Len(log') - 1 : AddsUp(i)'
<1> DEFINE d == Elapsed(gap)
<1>1. /\ time' = time + gap /\ time' \in Nat \ {0} /\ r_total' \in Nat
      /\ UNCHANGED defs /\ d \in Nat
      /\ FirstUpdate \/ TooEarly(d) \/ Store(d) \/ Discard(d)
  BY UpdateFacts
<1>2. hd_interval' = hd_interval /\ ad_type' = ad_type
  BY <1>1 DEF defs
<1>3. hd_interval \in Nat \ {0} /\ ReadInterval \in Nat /\ Len(log) \in Nat /\ Size \in Nat \ {0}
  BY Constants, LenProperties DEF Typed
<1>4. ~IsFirstUpdate =>
         /\ hs_prev_total <= r_total'
         /\ r_total' - hs_prev_total <= Rate * (time' - h_last_update)
  BY PaceGrows
<1>5. (~IsFirstUpdate /\ d = time' - h_last_update /\ d # 0) \/ IsFirstUpdate
  BY UpdateFacts
<1>6. Rate * (time' - time') = 0
  <2>1. time' - time' = 0 /\ Rate * 0 = 0
    BY <1>1
  <2> QED
    BY <2>1
<1> HIDE DEF d
<1>7. CASE FirstUpdate
  <2>1. Len(log) = 0 /\ log' = log
    BY <1>7 DEF FirstUpdate, Paced
  <2>2. hs_prev_total' = r_total' /\ h_last_update' = time'
    BY <1>7 DEF FirstUpdate
  <2>3. ~IsFirstUpdate'
    BY <1>1, <2>2 DEF IsFirstUpdate
  <2>4. Paced(Rate)'
    <3>1. r_total' <= r_total' /\ r_total' - r_total' <= Rate * (time' - time')
      BY <1>1, <1>6
    <3>2. ~(Len(log') > 0) /\ 1 .. Len(log') = {}
      BY <2>1
    <3> QED
      BY <1>2, <2>2, <2>3, <3>1, <3>2 DEF Paced
  <2> QED
    BY <2>1, <2>4
<1>8. CASE TooEarly(d)
  <2>1. ~IsFirstUpdate /\ UNCHANGED <<h_last_update, hs_prev_total, log>> /\ ReadInterval < hd_interval
    BY <1>8 DEF TooEarly, IsUpdate
  <2>2. ~IsFirstUpdate'
    BY <2>1 DEF IsFirstUpdate
  <2>3. Paced(Rate)'
    BY <1>2, <1>3, <1>4, <2>1, <2>2 DEF Paced
  <2>4. \A i : AddsUp(i)' <=> AddsUp(i)
    BY <2>1 DEF AddsUp
  <2> QED
    BY <2>1, <2>3, <2>4
<1>9. CASE Store(d)
  <2>1. ~IsFirstUpdate /\ hs_prev_total' = r_total' /\ h_last_update' = time'
    BY <1>9 DEF Store, IsUpdate
  <2>2. PICK mean \in Means(d) : mean \in Nat /\ Added(1, mean)
    BY <1>1, <1>9, StoreFacts
  <2>3. IsQuotient(mean, r_total' - hs_prev_total, time' - h_last_update)
    BY <1>9, <2>2, MeanIsGrowth DEF d
  <2>4. \A i \in 1 .. Len(log') :
            \/ i <= 1 /\ log'[i] = NewEntry(mean)
            \/ 1 < i /\ i - 1 \in 1 .. Len(log) /\ log'[i] = log[i - 1]
    BY <2>2, AddedValues
  <2>5. Len(log') \in Nat /\ Len(log') > 0
    BY <1>3, <2>2 DEF Added
  <2>6. log'[1] = NewEntry(mean)
    BY <2>4, <2>5
  <2>7. ~(ReadInterval > hd_interval)
    BY <1>9 DEF Store, IsDiscarded
  <2>8. ~IsFirstUpdate'
    BY <1>1, <2>1 DEF IsFirstUpdate
  <2>9. Paced(Rate)'
    <3>1. log'[1].to = time' /\ log'[1].total = r_total'
      BY <2>6 DEF NewEntry
    <3>2. r_total' <= r_total' /\ r_total' - r_total' <= Rate * (time' - time')
      BY <1>1, <1>6
    <3> QED
      BY <1>2, <2>1, <2>7, <2>8, <3>1, <3>2 DEF Paced
  <2>10. ASSUME NEW i \in 1 .. Len(log') - 1 PROVE AddsUp(i)'
    <3>1. CASE i = 1
      <4>1. 2 \in 1 .. Len(log')
        BY <2>5, <3>1
      <4>2. log'[2] = log[1] /\ Len(log) > 0
        BY <1>3, <2>4, <4>1
      <4>3. log[1].to = h_last_update /\ log[1].total = hs_prev_total
        BY <1>3, <2>7, <4>2 DEF Paced
      <4>4. log'[1].value = mean /\ log'[1].to = time' /\ log'[1].total = r_total'
        BY <2>6 DEF NewEntry
      <4>5. i + 1 = 2
        BY <3>1
      <4> QED
        BY <2>3, <3>1, <4>2, <4>3, <4>4, <4>5 DEF AddsUp
    <3>2. CASE 1 < i
      BY <2>2, <3>2, AddsUpMoves
    <3> QED
      BY <2>5, <3>1, <3>2
  <2> QED
    BY <2>9, <2>10
<1>10. CASE Discard(d)
  <2> DEFINE m == Missed(d)
  <2>1. ~IsFirstUpdate /\ hs_prev_total' = r_total' /\ h_last_update' = time' /\ IsDiscarded(d)
    BY <1>10 DEF Discard, PrevAfterDiscard, IsUpdate
  <2>2. m \in Nat /\ Added(m, Unknown)
    BY <1>1, <1>10, DiscardFacts
  <2>3. ReadInterval <= hd_interval => m >= 1
    <3>1. ReadInterval # hd_interval
      BY <1>3, <2>1 DEF IsDiscarded
    <3> QED
      BY <1>1, <1>3, <2>1, <3>1, LateMisses
  <2> HIDE DEF m
  <2>4. \A i \in 1 .. Len(log') :
            \/ i <= m /\ log'[i] = NewEntry(Unknown)
            \/ m < i /\ i - m \in 1 .. Len(log) /\ log'[i] = log[i - m]
    BY <2>2, AddedValues
  <2>5. ~IsFirstUpdate'
    BY <1>1, <2>1 DEF IsFirstUpdate
  <2>6. Paced(Rate)'
    <3>1. ASSUME ReadInterval <= hd_interval, Len(log') > 0
          PROVE  log'[1].to = time' /\ log'[1].total = r_total'
      <4>1. m >= 1 /\ 1 \in 1 .. Len(log')
        BY <2>2, <2>3, <3>1 DEF Added
      <4>2. log'[1] = NewEntry(Unknown)
        BY <2>2, <2>4, <4>1
      <4> QED
        BY <4>2 DEF NewEntry
    <3>2. ASSUME ReadInterval > hd_interval, NEW i \in 1 .. Len(log') PROVE log'[i].value = Unknown
      <4>1. \A j \in 1 .. Len(log) : log[j].value = Unknown
        BY <3>2 DEF Paced
      <4> QED
        BY <2>4, <4>1 DEF NewEntry
    <3>3. r_total' <= r_total' /\ r_total' - r_total' <= Rate * (time' - time')
      BY <1>1, <1>6
    <3> QED
      BY <1>2, <2>1, <2>5, <3>1, <3>2, <3>3 DEF Paced
  <2>7. ASSUME NEW i \in 1 .. Len(log') - 1 PROVE AddsUp(i)'
    <3>0. Len(log') \in Nat
      BY <2>2, LenProperties DEF Added
    <3>1. CASE i <= m
      <4>1. i \in 1 .. Len(log')
        BY <3>0
      <4>2. log'[i] = NewEntry(Unknown)
        BY <2>2, <2>4, <3>1, <4>1
      <4> QED
        BY <4>2 DEF NewEntry, AddsUp
    <3>2. CASE m < i
      BY <2>2, <3>2, AddsUpMoves
    <3> QED
      BY <2>2, <3>0, <3>1, <3>2
  <2> QED
    BY <2>6, <2>7
<1> QED
  BY <1>1, <1>7, <1>8, <1>9, <1>10

\* The means add up, for every timing and any number of readings, when no more
\* is counted in the longest interval that is accepted, or in one reading, than
\* the difference of two totals can be.
THEOREM MeansAlwaysAddUp ==
  ASSUME NEW Rate \in Nat,
         \A gap \in Gaps, n \in Amounts : n <= Rate * gap,
         \A n \in Amounts : Fits(n),
         \A x \in Intervals : Fits(Rate * (Tolerance * x))
  PROVE  Spec => []MeansAddUp
<1> DEFINE Sums == ad_type = "counter" => \A i \in 1 .. Len(log) - 1 : AddsUp(i)
<1>1. Init => Paced(Rate) /\ Sums
  <2> SUFFICES ASSUME Init PROVE Paced(Rate) /\ Sums
    OBVIOUS
  <2>1. Len(log) = 0
    BY EmptySeq DEF Init
  <2>2. IsFirstUpdate
    BY DEF Init, IsFirstUpdate
  <2> QED
    BY <2>1, <2>2 DEF Paced
<1>2. Typed /\ Typed' /\ Paced(Rate) /\ Sums /\ [Next]_vars => Paced(Rate)' /\ Sums'
  <2> SUFFICES ASSUME Typed, Typed', Paced(Rate), Sums, [Next]_vars PROVE Paced(Rate)' /\ Sums'
    OBVIOUS
  <2>1. CASE UNCHANGED vars
    BY <2>1 DEF vars, defs, Paced, IsFirstUpdate, AddsUp
  <2>2. CASE Next
    <3>1. PICK gap \in Gaps, n \in Amounts : Update(gap, n)
      BY <2>2 DEF Next
    <3>2. ad_type' = ad_type
      BY <3>1, UpdateFacts DEF defs
    <3>3. CASE ad_type = "counter"
      <4>1. Paced(Rate)' /\ \A i \in 1 .. Len(log') - 1 : AddsUp(i)'
        BY <3>1, <3>3, PacedStep
      <4> QED
        BY <4>1
    <3>4. CASE ad_type # "counter"
      BY <3>2, <3>4 DEF Paced
    <3> QED
      BY <3>3, <3>4
  <2> QED
    BY <2>1, <2>2
<1>3. Sums => MeansAddUp
  BY DEF MeansAddUp, AddsUp
<1> QED
  BY <1>1, <1>2, <1>3, InitTyped, TypedStep, PTL DEF Spec
=============================================================================
