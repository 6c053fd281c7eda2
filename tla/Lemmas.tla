------------------------------- MODULE Lemmas -------------------------------
(***************************************************************************)
(* What the operators on lists do that the modules of this project take     *)
(* from the community modules, and division with remainder.                 *)
(***************************************************************************)
EXTENDS Integers, Sequences, SequencesExt, FiniteSets, FiniteSetsExt,
        SequenceTheorems, FiniteSetTheorems, TLAPS

\* Min of a non-empty set of positions is in the set and below all of it.
LEMMA MinIsLeast ==
  ASSUME NEW n \in Nat, NEW T, T \subseteq 0 .. n, T # {}
  PROVE  Min(T) \in T /\ \A y \in T : Min(T) <= y
<1> DEFINE Segs == {0 .. x : x \in T}
<1>1. IsWellFoundedOn(StrictSubsetOrdering(0 .. n), SUBSET (0 .. n))
  <2>1. IsFiniteSet(0 .. n)
    BY FS_Interval
  <2>2. FiniteSubsetsOf(0 .. n) = SUBSET (0 .. n)
    BY <2>1, FS_FiniteSubsetsOfFinite
  <2> QED
    BY <2>2, FS_StrictSubsetOrderingWellFounded
<1>2. Segs # {} /\ \A z \in Segs : z \in SUBSET (0 .. n)
  <2>1. \A x \in T : 0 .. x \in SUBSET (0 .. n)
    OBVIOUS
  <2> QED
    BY <2>1
<1>3. \E z \in Segs : \A y \in Segs : <<y, z>> \notin StrictSubsetOrdering(0 .. n)
  <2>1. Segs \subseteq SUBSET (0 .. n)
    BY <1>2
  <2> HIDE DEF Segs
  <2> QED
    BY <1>1, <1>2, <2>1, WFMin
<1>4. PICK m \in T : \A y \in T : <<0 .. y, 0 .. m>> \notin StrictSubsetOrdering(0 .. n)
  BY <1>3
<1>5. ASSUME NEW y \in T PROVE m <= y
  <2>1. ASSUME y < m PROVE FALSE
    <3>1. 0 .. y \in SUBSET (0 .. n) /\ 0 .. m \in SUBSET (0 .. n)
      OBVIOUS
    <3>2. 0 .. y \subseteq 0 .. m /\ 0 .. y # 0 .. m
      BY <2>1
    <3> QED
      BY <3>1, <3>2, <1>4 DEF StrictSubsetOrdering
  <2> QED
    BY <2>1
<1> QED
  BY <1>5 DEF Min

\* RemoveAt closes the gap and moves nothing else.
LEMMA RemoveAtFacts ==
  ASSUME NEW S, NEW s \in Seq(S), NEW i \in 1 .. Len(s)
  PROVE  /\ RemoveAt(s, i) \in Seq(S)
         /\ Len(RemoveAt(s, i)) = Len(s) - 1
         /\ \A j \in 1 .. Len(s) - 1 : RemoveAt(s, i)[j] = IF j < i THEN s[j] ELSE s[j + 1]
<1> DEFINE p == SubSeq(s, 1, i - 1)
           q == SubSeq(s, i + 1, Len(s))
<1>1. /\ p \in Seq(S) /\ Len(p) = i - 1
      /\ \A j \in 1 .. i - 1 : p[j] = s[j]
  BY SubSeqProperties
<1>2. /\ q \in Seq(S) /\ Len(q) = Len(s) - i
      /\ \A j \in 1 .. Len(s) - i : q[j] = s[i + j]
  BY SubSeqProperties
<1> HIDE DEF p, q
<1>3. /\ p \o q \in Seq(S)
      /\ Len(p \o q) = Len(p) + Len(q)
      /\ \A j \in 1 .. Len(p) + Len(q) :
            (p \o q)[j] = IF j <= Len(p) THEN p[j] ELSE q[j - Len(p)]
  BY <1>1, <1>2, ConcatProperties
<1>4. /\ p \o q \in Seq(S)
      /\ Len(p \o q) = Len(s) - 1
      /\ \A j \in 1 .. Len(s) - 1 : (p \o q)[j] = IF j < i THEN s[j] ELSE s[j + 1]
  BY <1>1, <1>2, <1>3
<1> QED
  BY <1>4 DEF RemoveAt, p, q

\* InsertAt opens a gap and moves nothing else.
LEMMA InsertAtFacts ==
  ASSUME NEW S, NEW s \in Seq(S), NEW i \in 1 .. Len(s) + 1, NEW x \in S
  PROVE  /\ InsertAt(s, i, x) \in Seq(S)
         /\ Len(InsertAt(s, i, x)) = Len(s) + 1
         /\ InsertAt(s, i, x)[i] = x
         /\ \A j \in 1 .. i - 1 : InsertAt(s, i, x)[j] = s[j]
         /\ \A j \in i + 1 .. Len(s) + 1 : InsertAt(s, i, x)[j] = s[j - 1]
<1> DEFINE p == SubSeq(s, 1, i - 1)
           q == SubSeq(s, i, Len(s))
           m == <<x>>
<1>1. /\ p \in Seq(S) /\ Len(p) = i - 1
      /\ \A j \in 1 .. i - 1 : p[j] = s[j]
  BY SubSeqProperties
<1>2. /\ q \in Seq(S) /\ Len(q) = Len(s) - i + 1
      /\ \A j \in 1 .. Len(s) - i + 1 : q[j] = s[i + j - 1]
  BY SubSeqProperties
<1>3. m \in Seq(S) /\ Len(m) = 1 /\ m[1] = x
  OBVIOUS
<1> HIDE DEF p, q, m
<1>4. /\ p \o m \in Seq(S)
      /\ Len(p \o m) = i
      /\ \A j \in 1 .. i : (p \o m)[j] = IF j < i THEN s[j] ELSE x
  <2>1. /\ p \o m \in Seq(S)
        /\ Len(p \o m) = Len(p) + Len(m)
        /\ \A j \in 1 .. Len(p) + Len(m) :
              (p \o m)[j] = IF j <= Len(p) THEN p[j] ELSE m[j - Len(p)]
    BY <1>1, <1>3, ConcatProperties
  <2> QED
    BY <1>1, <1>3, <2>1
<1> DEFINE r == p \o m
<1>5. /\ r \in Seq(S) /\ Len(r) = i
      /\ \A j \in 1 .. i : r[j] = IF j < i THEN s[j] ELSE x
  BY <1>4
<1> HIDE DEF r
<1>6. /\ r \o q \in Seq(S)
      /\ Len(r \o q) = Len(r) + Len(q)
      /\ \A j \in 1 .. Len(r) + Len(q) :
            (r \o q)[j] = IF j <= Len(r) THEN r[j] ELSE q[j - Len(r)]
  BY <1>2, <1>5, ConcatProperties
<1>7. /\ r \o q \in Seq(S)
      /\ Len(r \o q) = Len(s) + 1
      /\ (r \o q)[i] = x
      /\ \A j \in 1 .. i - 1 : (r \o q)[j] = s[j]
      /\ \A j \in i + 1 .. Len(s) + 1 : (r \o q)[j] = s[j - 1]
  BY <1>2, <1>5, <1>6
<1> QED
  BY <1>7 DEF InsertAt, r, p, q, m

\* The same, position by position.
LEMMA InsertElement ==
  ASSUME NEW S, NEW s \in Seq(S), NEW b \in 1 .. Len(s) + 1, NEW e \in S
  PROVE  /\ InsertAt(s, b, e) \in Seq(S)
         /\ Len(InsertAt(s, b, e)) = Len(s) + 1
         /\ \A j \in 1 .. Len(s) + 1 :
               InsertAt(s, b, e)[j] = IF j < b THEN s[j] ELSE IF j = b THEN e ELSE s[j - 1]
<1>1. InsertAt(s, b, e) \in Seq(S)
  BY InsertAtFacts
<1>2. Len(InsertAt(s, b, e)) = Len(s) + 1
  BY InsertAtFacts
<1>3. InsertAt(s, b, e)[b] = e
  BY InsertAtFacts
<1>4. \A j \in 1 .. b - 1 : InsertAt(s, b, e)[j] = s[j]
  BY InsertAtFacts
<1>5. \A j \in b + 1 .. Len(s) + 1 : InsertAt(s, b, e)[j] = s[j - 1]
  BY InsertAtFacts
<1> DEFINE t == InsertAt(s, b, e)
<1> HIDE DEF t
<1>6. ASSUME NEW j \in 1 .. Len(s) + 1
      PROVE  t[j] = IF j < b THEN s[j] ELSE IF j = b THEN e ELSE s[j - 1]
  <2>1. b \in Int /\ j \in Int /\ Len(s) \in Int
    BY LenProperties
  <2>2. CASE j < b
    <3>1. j \in 1 .. b - 1
      BY <2>1, <2>2
    <3> QED
      BY <1>4, <2>2, <3>1 DEF t
  <2>3. CASE j = b
    BY <1>3, <2>1, <2>3 DEF t
  <2>4. CASE j > b
    <3>1. j \in b + 1 .. Len(s) + 1 /\ ~(j < b) /\ j # b
      BY <2>1, <2>4
    <3> QED
      BY <1>5, <3>1 DEF t
  <2> QED
    BY <2>1, <2>2, <2>3, <2>4
<1> QED
  BY <1>1, <1>2, <1>6 DEF t

-----------------------------------------------------------------------------
\* Division with remainder.
LEMMA DivMod ==
  ASSUME NEW x \in Int, NEW w \in Nat \ {0}
  PROVE  x = w * (x \div w) + (x % w) /\ x \div w \in Int /\ x % w \in 0 .. w - 1
OBVIOUS

\* The only multiple of w between -w and w is 0.
LEMMA Multiple ==
  ASSUME NEW w \in Nat \ {0}, NEW a \in Int, - w < w * a, w * a < w
  PROVE  a = 0
<1>1. CASE a >= 1
  <2>1. \A k \in Nat : w * (1 + k) = w + w * k /\ w * k >= 0
    OBVIOUS
  <2>2. a - 1 \in Nat /\ a = 1 + (a - 1)
    BY <1>1
  <2> QED
   BY <2>1, <2>2
<1>2. CASE a <= -1
  <2>1. \A k \in Nat : w * (-1 - k) = - w - w * k /\ w * k >= 0
    OBVIOUS
  <2>2. -1 - a \in Nat /\ a = -1 - (-1 - a)
    BY <1>2
  <2> QED
   BY <2>1, <2>2
<1> QED
  BY <1>1, <1>2

\* Quotient and remainder are unique.
LEMMA ModUnique ==
  ASSUME NEW w \in Nat \ {0}, NEW x \in Int, NEW q \in Int, NEW r \in 0 .. w - 1, x = w * q + r
  PROVE  x % w = r
<1> DEFINE q2 == x \div w
           r2 == x % w
<1>1. x = w * q2 + r2 /\ q2 \in Int /\ r2 \in 0 .. w - 1
  BY DivMod
<1> HIDE DEF q2, r2
<1>2. w * (q - q2) = r2 - r
  <2>1. w * (q - q2) = w * q - w * q2
    BY <1>1
  <2> QED
    BY <1>1, <2>1
<1>3. q - q2 = 0
  BY <1>1, <1>2, Multiple
<1>4. q = q2
  BY <1>1, <1>3
<1> QED
  BY <1>1, <1>4 DEF r2

\* Counting down modulo w.
LEMMA ModDown ==
  ASSUME NEW x \in Int, NEW w \in Nat \ {0}
  PROVE  ((x % w) - 1) % w = (x - 1) % w
<1> DEFINE q == x \div w
           r == x % w
<1>1. x = w * q + r /\ q \in Int /\ r \in 0 .. w - 1
  BY DivMod
<1> HIDE DEF q, r
<1>2. CASE r >= 1
  <2>1. x - 1 = w * q + (r - 1) /\ r - 1 = w * 0 + (r - 1) /\ r - 1 \in 0 .. w - 1
    BY <1>1, <1>2
  <2>2. (x - 1) % w = r - 1 /\ (r - 1) % w = r - 1
    <3>1. 0 \in Int /\ r - 1 \in Int /\ x - 1 \in Int
      BY <1>1
    <3> QED
      BY <1>1, <2>1, <3>1, ModUnique
  <2> QED
    BY <2>2 DEF r
<1>3. CASE r = 0
  <2>1. w * (q - 1) = w * q - w /\ w * (0 - 1) = - w
    BY <1>1
  <2>2. x - 1 = w * (q - 1) + (w - 1) /\ r - 1 = w * (0 - 1) + (w - 1) /\ w - 1 \in 0 .. w - 1
    BY <1>1, <1>3, <2>1
  <2>3. (x - 1) % w = w - 1 /\ (r - 1) % w = w - 1
    <3>1. q - 1 \in Int /\ 0 - 1 \in Int /\ r - 1 \in Int /\ x - 1 \in Int
      BY <1>1
    <3> QED
      BY <2>2, <3>1, ModUnique
  <2> QED
    BY <2>3 DEF r
<1> QED
  BY <1>1, <1>2, <1>3

-----------------------------------------------------------------------------
\* Induction over the natural numbers, for a set of them.
LEMMA NatSetInduction ==
  ASSUME NEW I, 0 \in I, \A n \in Nat : n \in I => n + 1 \in I
  PROVE  \A n \in Nat : n \in I
<1> SUFFICES ASSUME NEW n \in Nat, n \notin I PROVE FALSE
  OBVIOUS
<1> DEFINE bad == {k \in 0 .. n : k \notin I}
<1>1. bad # {} /\ bad \subseteq 0 .. n
  OBVIOUS
<1>2. Min(bad) \in bad /\ \A y \in bad : Min(bad) <= y
  <2> HIDE DEF bad
  <2> QED
    BY <1>1, MinIsLeast
<1>3. PICK m \in bad : \A y \in bad : m <= y
  BY <1>2
<1>4. m # 0 /\ m - 1 \in 0 .. n /\ m - 1 \notin bad
  BY <1>3
<1>5. m - 1 \in I /\ m - 1 \in Nat /\ (m - 1) + 1 = m
  BY <1>4
<1> QED
  BY <1>3, <1>5

\* f begins with x and takes the k-th step by F[k].
Follows(f, x, n, F) == f[0] = x /\ \A k \in 1 .. n : f[k] = F[k][f[k - 1]]

\* What is defined by recursion over 0 .. n exists.
LEMMA RecursionExists ==
  ASSUME NEW T, NEW x \in T, NEW n \in Nat, NEW F \in [1 .. n -> [T -> T]]
  PROVE  \E f \in [0 .. n -> T] : Follows(f, x, n, F)
<1> DEFINE Upto(m, f) == f[0] = x /\ \A k \in 1 .. m : f[k] = F[k][f[k - 1]]
           I == {m \in Nat : m <= n => \E f \in [0 .. m -> T] : Upto(m, f)}
<1>1. 0 \in I
  <2> DEFINE f == [k \in 0 .. 0 |-> x]
  <2>1. f \in [0 .. 0 -> T] /\ Upto(0, f)
    OBVIOUS
  <2> HIDE DEF f, Upto
  <2> QED
    BY <2>1
<1>2. \A m \in Nat : m \in I => m + 1 \in I
  <2> SUFFICES ASSUME NEW m \in Nat, m \in I, m + 1 <= n
               PROVE  \E f \in [0 .. m + 1 -> T] : Upto(m + 1, f)
    OBVIOUS
  <2>1. PICK f \in [0 .. m -> T] : Upto(m, f)
    OBVIOUS
  <2> DEFINE h == [k \in 0 .. m + 1 |-> IF k = m + 1 THEN F[m + 1][f[m]] ELSE f[k]]
  <2>2. f[m] \in T /\ F[m + 1][f[m]] \in T
    OBVIOUS
  <2>3. h \in [0 .. m + 1 -> T]
    BY <2>2
  <2>4. h[0] = x
    BY <2>1
  <2>5. ASSUME NEW k \in 1 .. m + 1 PROVE h[k] = F[k][h[k - 1]]
    <3>1. k - 1 \in 0 .. m /\ k - 1 # m + 1 /\ h[k - 1] = f[k - 1]
      OBVIOUS
    <3>2. CASE k = m + 1
      <4>1. k - 1 = m
        BY <3>2
      <4>2. h[m + 1] = F[m + 1][f[m]]
        OBVIOUS
      <4>3. h[k] = F[k][f[k - 1]]
        BY <3>2, <4>1, <4>2, Zenon
      <4> HIDE DEF h
      <4> QED
        BY <3>1, <4>3
    <3>3. CASE k # m + 1
      <4>1. k \in 1 .. m /\ h[k] = f[k]
        BY <3>3
      <4> QED
        BY <2>1, <3>1, <4>1
    <3> QED
      BY <3>2, <3>3
  <2> HIDE DEF h
  <2> QED
    BY <2>3, <2>4, <2>5
<1>3. n \in I
  <2> HIDE DEF I
  <2> QED
    BY <1>1, <1>2, NatSetInduction
<1> QED
  BY <1>3 DEF Follows

\* The smaller and the larger of two integers.
LEMMA MinMaxOfTwo ==
  ASSUME NEW a \in Int, NEW b \in Int
  PROVE  /\ Min({a, b}) = IF a <= b THEN a ELSE b
         /\ Max({a, b}) = IF a >= b THEN a ELSE b
<1>1. \E x \in {a, b} : \A y \in {a, b} : x <= y
  <2>1. CASE a <= b
    BY <2>1
  <2>2. CASE b <= a
    BY <2>2
  <2> QED
    BY <2>1, <2>2
<1>2. \E x \in {a, b} : \A y \in {a, b} : x >= y
  <2>1. CASE a >= b
    BY <2>1
  <2>2. CASE b >= a
    BY <2>2
  <2> QED
    BY <2>1, <2>2
<1>3. Min({a, b}) \in {a, b} /\ \A y \in {a, b} : Min({a, b}) <= y
  BY <1>1 DEF Min
<1>4. Max({a, b}) \in {a, b} /\ \A y \in {a, b} : Max({a, b}) >= y
  BY <1>2 DEF Max
<1> QED
  BY <1>3, <1>4

\* A concatenation of two lists holds the elements of both, in this order.
LEMMA ConcatFacts ==
  ASSUME NEW S, NEW s \in Seq(S), NEW t \in Seq(S)
  PROVE  /\ s \o t \in Seq(S)
         /\ \A j \in DOMAIN s : j \in DOMAIN (s \o t) /\ (s \o t)[j] = s[j]
         /\ \A j \in DOMAIN t : \E k \in DOMAIN (s \o t) : (s \o t)[k] = t[j]
         /\ s # <<>> => s \o t # <<>>
<1>1. /\ s \o t \in Seq(S) /\ Len(s \o t) = Len(s) + Len(t)
      /\ \A i \in 1 .. Len(s) + Len(t) :
            (s \o t)[i] = IF i <= Len(s) THEN s[i] ELSE t[i - Len(s)]
  BY ConcatProperties
<1> DEFINE r == s \o t
<1>2. /\ DOMAIN r = 1 .. Len(s) + Len(t) /\ DOMAIN s = 1 .. Len(s) /\ DOMAIN t = 1 .. Len(t)
      /\ Len(s) \in Nat /\ Len(t) \in Nat
  BY <1>1, LenProperties
<1>3. ASSUME NEW j \in DOMAIN s PROVE j \in DOMAIN r /\ r[j] = s[j]
  BY <1>1, <1>2
<1>4. ASSUME NEW j \in DOMAIN t PROVE \E k \in DOMAIN r : r[k] = t[j]
  <2>1. Len(s) + j \in DOMAIN r /\ r[Len(s) + j] = t[j]
    BY <1>1, <1>2
  <2> QED
    BY <2>1
<1>5. s # <<>> => s \o t # <<>>
  <2>1. s # <<>> => Len(s) # 0
    BY EmptySeq
  <2>2. r = <<>> => Len(r) = 0
    BY EmptySeq
  <2> QED
    BY <1>1, <1>2, <2>1, <2>2
<1> QED
  BY <1>1, <1>3, <1>4, <1>5

\* FlattenSeq puts one list after the other behind what it has.
LEMMA FlattenSteps ==
  ASSUME NEW S, NEW ss \in Seq(Seq(S)), Len(ss) # 0
  PROVE  \E g : /\ FlattenSeq(ss) = g[Len(ss)]
                /\ \A i \in 1 .. Len(ss) : g[i] = IF i = 1 THEN ss[i] ELSE g[i - 1] \o ss[i]
<1> DEFINE n == Len(ss)
<1>1. n \in Nat /\ DOMAIN ss = 1 .. n /\ \A i \in 1 .. n : ss[i] \in Seq(S)
  BY LenProperties, ElementOfSeq
<1>2. n # 0
  OBVIOUS
<1> HIDE DEF n
<1> DEFINE G(g) == g = [i \in 1 .. n |-> IF i = 1 THEN ss[i] ELSE g[i - 1] \o ss[i]]
           T == Seq(S)
           F == [k \in 1 .. n |-> [t \in T |-> IF k = 1 THEN ss[1] ELSE t \o ss[k]]]
<1>3. FlattenSeq(ss) = (CHOOSE g : G(g))[n]
  BY <1>2 DEF FlattenSeq, n
<1>4. \E g : G(g)
  <2>1. F \in [1 .. n -> [T -> T]]
    <3>1. ASSUME NEW k \in 1 .. n, NEW t \in T
          PROVE  (IF k = 1 THEN ss[1] ELSE t \o ss[k]) \in T
      <4>1. t \o ss[k] \in T
        BY <1>1, ConcatFacts
      <4> QED
        BY <1>1, <4>1
    <3> QED
      BY <3>1
  <2> DEFINE x == <<>>
  <2>2. x \in T
    BY EmptySeq
  <2> HIDE DEF F, T, x
  <2>3. \E f \in [0 .. n -> T] : Follows(f, x, n, F)
    BY <1>1, <2>1, <2>2, RecursionExists
  <2>4. PICK f \in [0 .. n -> T] : \A k \in 1 .. n : f[k] = F[k][f[k - 1]]
    BY <2>3 DEF Follows
  <2> DEFINE c == [i \in 1 .. n |-> f[i]]
  <2>5. ASSUME NEW i \in 1 .. n PROVE c[i] = IF i = 1 THEN ss[i] ELSE c[i - 1] \o ss[i]
    <3>1. i - 1 \in 0 .. n /\ f[i - 1] \in T
      BY <1>1, <2>4
    <3>2. f[i] = IF i = 1 THEN ss[1] ELSE f[i - 1] \o ss[i]
      BY <2>4, <3>1 DEF F
    <3>3. i # 1 => i - 1 \in 1 .. n
      BY <1>1
    <3> QED
      BY <3>2, <3>3
  <2>6. G(c)
    BY <2>5
  <2> QED
    BY <2>6
<1> DEFINE g == CHOOSE g : G(g)
<1>5. G(g)
  <2> HIDE DEF G
  <2> QED
    BY <1>4
<1>6. \A i \in 1 .. n : g[i] = IF i = 1 THEN ss[i] ELSE g[i - 1] \o ss[i]
  BY <1>5
<1> HIDE DEF g, G
<1>7. FlattenSeq(ss) = g[n]
  BY <1>3 DEF g
<1> QED
  BY <1>6, <1>7 DEF n

\* Where FlattenSeq puts the lists: the k-th one behind base[k - 1] entries.
IsPlaced(base, ss) ==
    /\ base \in [0 .. Len(ss) -> Nat] /\ base[0] = 0 /\ Len(FlattenSeq(ss)) = base[Len(ss)]
    /\ \A k \in 1 .. Len(ss) :
          /\ base[k] = base[k - 1] + Len(ss[k])
          /\ \A j \in 1 .. Len(ss[k]) : /\ base[k - 1] + j \in 1 .. base[Len(ss)]
                                        /\ FlattenSeq(ss)[base[k - 1] + j] = ss[k][j]
    /\ \A i \in 1 .. base[Len(ss)] : \E k \in 1 .. Len(ss) : \E j \in 1 .. Len(ss[k]) : i = base[k - 1] + j

\* Every entry has its place, and there are no others.
LEMMA FlattenPlaces ==
  ASSUME NEW S, NEW ss \in Seq(Seq(S)), Len(ss) # 0
  PROVE  \E base : IsPlaced(base, ss)
<1> DEFINE n == Len(ss)
<1>1. n \in Nat /\ n # 0 /\ DOMAIN ss = 1 .. n /\ \A i \in 1 .. n : ss[i] \in Seq(S)
  BY LenProperties, ElementOfSeq
<1>2. PICK g : /\ FlattenSeq(ss) = g[n]
               /\ \A i \in 1 .. n : g[i] = IF i = 1 THEN ss[i] ELSE g[i - 1] \o ss[i]
  BY FlattenSteps
<1> HIDE DEF n
<1> DEFINE base == [k \in 0 .. n |-> IF k = 0 THEN 0 ELSE Len(g[k])]
           Put(m, k) == /\ base[k] = base[k - 1] + Len(ss[k])
                        /\ \A j \in 1 .. Len(ss[k]) : /\ base[k - 1] + j \in 1 .. base[m]
                                                      /\ g[m][base[k - 1] + j] = ss[k][j]
           Got(m, i) == \E k \in 1 .. m : \E j \in 1 .. Len(ss[k]) : i = base[k - 1] + j
           P(m) == /\ g[m] \in Seq(S) /\ base[m] = Len(g[m])
                   /\ \A k \in 1 .. m : Put(m, k)
                   /\ \A i \in 1 .. base[m] : Got(m, i)
           I == {m \in Nat : m + 1 <= n => P(m + 1)}
<1>3. base[0] = 0 /\ \A k \in 1 .. n : base[k] = Len(g[k])
  BY <1>1
<1>4. \A k \in 1 .. n : Len(ss[k]) \in Nat
  BY <1>1, LenProperties
<1> HIDE DEF base
<1>5. P(1)
  <2>1. g[1] = ss[1] /\ 1 \in 1 .. n
    BY <1>1, <1>2
  <2>2. base[1] = Len(ss[1]) /\ Len(ss[1]) \in Nat /\ g[1] \in Seq(S)
    BY <1>1, <1>3, <1>4, <2>1
  <2>3. Put(1, 1)
    BY <1>3, <2>1, <2>2
  <2>4. \A i \in 1 .. base[1] : Got(1, i)
    <3> SUFFICES ASSUME NEW i \in 1 .. Len(ss[1]) PROVE \E j \in 1 .. Len(ss[1]) : i = base[1 - 1] + j
      BY <2>2
    <3> QED
      BY <1>3, <2>2
  <2> QED
    BY <1>3, <2>1, <2>2, <2>3, <2>4
<1>6. ASSUME NEW q \in Nat \ {0}, q + 1 <= n, P(q) PROVE P(q + 1)
  <2>1. q \in 1 .. n /\ q + 1 \in 1 .. n /\ q + 1 # 1 /\ (q + 1) - 1 = q
    BY <1>1, <1>6
  <2> DEFINE u == g[q]
             v == ss[q + 1]
             w == g[q + 1]
  <2>2. w = u \o v
    BY <1>2, <2>1
  <2>3. u \in Seq(S) /\ v \in Seq(S) /\ base[q] = Len(u) /\ base[q + 1] = Len(w)
    BY <1>1, <1>3, <1>6, <2>1
  <2>4. \A k \in 1 .. q : Put(q, k)
    BY <1>6
  <2>5. \A i \in 1 .. base[q] : Got(q, i)
    BY <1>6
  <2> HIDE DEF u, v, w
  <2>6. /\ w \in Seq(S) /\ Len(w) = Len(u) + Len(v) /\ Len(u) \in Nat /\ Len(v) \in Nat
        /\ \A i \in 1 .. Len(u) + Len(v) : w[i] = IF i <= Len(u) THEN u[i] ELSE v[i - Len(u)]
    BY ONLY <2>2, <2>3, ConcatProperties, LenProperties
  <2>7. Put(q + 1, q + 1)
    <3>1. base[q + 1] = base[q] + Len(v)
      BY <2>3, <2>6
    <3>2. ASSUME NEW j \in 1 .. Len(v) PROVE base[q] + j \in 1 .. base[q + 1] /\ w[base[q] + j] = v[j]
      <4>1. /\ Len(u) + j \in 1 .. Len(u) + Len(v) /\ ~(Len(u) + j <= Len(u))
            /\ (Len(u) + j) - Len(u) = j
        BY <2>6
      <4> QED
        BY <2>3, <2>6, <4>1
    <3> QED
      BY <2>1, <3>1, <3>2 DEF v, w
  <2>8. ASSUME NEW k \in 1 .. q PROVE Put(q + 1, k)
    <3>1. Put(q, k)
      BY <2>4
    <3>2. ASSUME NEW j \in 1 .. Len(ss[k])
          PROVE  base[k - 1] + j \in 1 .. base[q + 1] /\ w[base[k - 1] + j] = ss[k][j]
      <4> DEFINE i == base[k - 1] + j
      <4>1. i \in 1 .. base[q] /\ u[i] = ss[k][j]
        BY <3>1 DEF u
      <4> HIDE DEF i
      <4>2. i \in 1 .. Len(u) + Len(v) /\ i <= Len(u)
        BY <2>3, <2>6, <4>1
      <4>3. i \in 1 .. base[q + 1] /\ w[i] = ss[k][j]
        BY <2>3, <2>6, <4>1, <4>2
      <4> QED
        BY <4>3 DEF i
    <3> QED
      BY <3>1, <3>2 DEF w
  <2>9. ASSUME NEW i \in 1 .. base[q + 1] PROVE Got(q + 1, i)
    <3>1. CASE i <= Len(u)
      <4>1. i \in 1 .. base[q]
        BY <2>3, <2>6, <3>1
      <4>2. PICK k \in 1 .. q : \E j \in 1 .. Len(ss[k]) : i = base[k - 1] + j
        BY <2>5, <4>1
      <4>3. k \in 1 .. q + 1
        BY <2>1
      <4> QED
        BY <4>2, <4>3
    <3>2. CASE ~(i <= Len(u))
      <4>1. i - Len(u) \in 1 .. Len(v) /\ i = base[q] + (i - Len(u))
        BY <2>3, <2>6, <3>2
      <4>2. q + 1 \in 1 .. q + 1
        BY <2>1
      <4> QED
        BY <2>1, <4>1, <4>2 DEF v
    <3> QED
      BY <3>1, <3>2
  <2>10. \A k \in 1 .. q + 1 : Put(q + 1, k)
    <3> SUFFICES ASSUME NEW k \in 1 .. q + 1 PROVE Put(q + 1, k)
      OBVIOUS
    <3>1. k = q + 1 \/ k \in 1 .. q
      BY <2>1
    <3> HIDE DEF Put
    <3> QED
      BY <2>7, <2>8, <3>1
  <2> HIDE DEF Put, Got
  <2> QED
    BY <2>3, <2>6, <2>9, <2>10 DEF w
<1>7. P(n)
  <2>1. 0 \in I
    <3> HIDE DEF P
    <3> QED
      BY <1>5
  <2>2. \A m \in Nat : m \in I => m + 1 \in I
    <3> SUFFICES ASSUME NEW m \in Nat, m + 1 <= n => P(m + 1), (m + 1) + 1 <= n
                 PROVE  P((m + 1) + 1)
      <4> HIDE DEF P
      <4> QED
        OBVIOUS
    <3>1. m + 1 \in Nat \ {0} /\ m + 1 <= n
      BY <1>1
    <3> HIDE DEF P
    <3> QED
      BY <1>6, <3>1
  <2>3. n - 1 \in Nat /\ (n - 1) + 1 = n
    BY <1>1
  <2>4. n - 1 \in I
    <3> HIDE DEF I
    <3> QED
      BY <2>1, <2>2, <2>3, NatSetInduction
  <2> HIDE DEF P
  <2>5. (n - 1) + 1 <= n => P((n - 1) + 1)
    BY <2>4
  <2> QED
    BY <1>1, <2>3, <2>5
<1>8. base \in [0 .. n -> Nat]
  <2>1. DOMAIN base = 0 .. n /\ base = [k \in 0 .. n |-> base[k]]
    BY DEF base
  <2>2. \A k \in 1 .. n : base[k] = base[k - 1] + Len(ss[k])
    BY <1>7
  <2> DEFINE J == {m \in Nat : m <= n => base[m] \in Nat}
  <2>3. 0 \in J
    BY <1>3
  <2>4. ASSUME NEW m \in Nat, m \in J PROVE m + 1 \in J
    <3> SUFFICES ASSUME m + 1 <= n PROVE base[m + 1] \in Nat
      OBVIOUS
    <3>1. m + 1 \in 1 .. n /\ (m + 1) - 1 = m /\ m <= n
      BY <1>1
    <3>2. base[m] \in Nat
      BY <2>4, <3>1
    <3> QED
      BY <1>4, <2>2, <3>1, <3>2
  <2>5. \A m \in Nat : m \in J
    <3> HIDE DEF J
    <3> QED
      BY <2>3, <2>4, NatSetInduction
  <2>6. \A k \in 0 .. n : base[k] \in Nat
    BY <1>1, <2>5
  <2> QED
    BY <2>1, <2>6
<1>9. IsPlaced(base, ss)
  BY <1>2, <1>3, <1>7, <1>8 DEF IsPlaced, n
<1> QED
  BY <1>9

\* FlattenSeq puts lists behind each other: nothing is lost, and the first
\* element stays the first.
LEMMA FlattenFacts ==
  ASSUME NEW S, NEW ss \in Seq(Seq(S))
  PROVE  /\ FlattenSeq(ss) \in Seq(S)
         /\ \A i \in DOMAIN ss : \A j \in DOMAIN ss[i] :
              \E k \in DOMAIN FlattenSeq(ss) : FlattenSeq(ss)[k] = ss[i][j]
         /\ ss # <<>> /\ ss[1] # <<>> =>
              FlattenSeq(ss) # <<>> /\ FlattenSeq(ss)[1] = ss[1][1]
<1> DEFINE n == Len(ss)
<1>1. n \in Nat /\ DOMAIN ss = 1 .. n /\ \A i \in 1 .. n : ss[i] \in Seq(S)
  BY LenProperties, ElementOfSeq
<1>2. CASE n = 0
  <2>1. ss = <<>> /\ FlattenSeq(ss) = <<>> /\ DOMAIN ss = {}
    BY <1>1, <1>2, EmptySeq DEF FlattenSeq
  <2> QED
    BY <2>1, EmptySeq
<1> HIDE DEF n
<1>3. CASE n # 0
  <2>4. PICK g : /\ FlattenSeq(ss) = g[n]
                 /\ \A i \in 1 .. n : g[i] = IF i = 1 THEN ss[i] ELSE g[i - 1] \o ss[i]
    BY <1>3, FlattenSteps DEF n
  <2> DEFINE P(m) == /\ g[m] \in Seq(S)
                     /\ \A i \in 1 .. m : \A j \in DOMAIN ss[i] :
                          \E k \in DOMAIN g[m] : g[m][k] = ss[i][j]
                     /\ ss[1] # <<>> => g[m] # <<>> /\ g[m][1] = ss[1][1]
             I == {m \in Nat : m + 1 <= n => P(m + 1)}
  <2>5. 0 \in I
    <3>1. g[1] = ss[1] /\ 1 \in 1 .. n
      BY <1>1, <1>3, <2>4
    <3>2. P(1)
      BY <1>1, <3>1
    <3> QED
      BY <3>2
  <2>6. \A m \in Nat : m \in I => m + 1 \in I
    <3> SUFFICES ASSUME NEW m \in Nat, m + 1 <= n => P(m + 1), (m + 1) + 1 <= n
                 PROVE  P((m + 1) + 1)
      <4> HIDE DEF P
      <4> QED
        OBVIOUS
    <3> DEFINE q == m + 1
    <3>1. q \in 1 .. n /\ q + 1 \in 1 .. n /\ q + 1 # 1 /\ (q + 1) - 1 = q
      BY <1>1
    <3>2. P(q)
      BY <3>1
    <3>3. g[q + 1] = g[q] \o ss[q + 1]
      BY <2>4, <3>1
    <3> HIDE DEF q
    <3>4. g[q] \in Seq(S) /\ ss[q + 1] \in Seq(S)
      BY <1>1, <3>1, <3>2
    <3>5. /\ g[q + 1] \in Seq(S)
          /\ \A j \in DOMAIN g[q] : j \in DOMAIN g[q + 1] /\ g[q + 1][j] = g[q][j]
          /\ \A j \in DOMAIN ss[q + 1] : \E k \in DOMAIN g[q + 1] : g[q + 1][k] = ss[q + 1][j]
          /\ g[q] # <<>> => g[q + 1] # <<>>
      <4> DEFINE u == g[q]
                 v == ss[q + 1]
      <4>1. u \in Seq(S) /\ v \in Seq(S)
        BY <3>4
      <4> HIDE DEF u, v
      <4> DEFINE w == u \o v
      <4>2. /\ w \in Seq(S)
            /\ \A j \in DOMAIN u : j \in DOMAIN w /\ w[j] = u[j]
            /\ \A j \in DOMAIN v : \E k \in DOMAIN w : w[k] = v[j]
            /\ u # <<>> => w # <<>>
        BY ONLY <4>1, ConcatFacts
      <4>3. g[q + 1] = w /\ g[q] = u /\ ss[q + 1] = v
        BY <3>3 DEF u, v
      <4> HIDE DEF w
      <4> QED
        BY ONLY <4>2, <4>3
    <3>6. ASSUME NEW i \in 1 .. q + 1, NEW j \in DOMAIN ss[i]
          PROVE  \E k \in DOMAIN g[q + 1] : g[q + 1][k] = ss[i][j]
      <4>1. CASE i = q + 1
        BY <3>5, <4>1
      <4>2. CASE i # q + 1
        <5>1. i \in 1 .. q
          BY <3>1, <4>2
        <5>2. PICK k \in DOMAIN g[q] : g[q][k] = ss[i][j]
          BY <3>2, <5>1
        <5> QED
          BY <3>5, <5>2
      <4> QED
        BY <4>1, <4>2
    <3>7. ss[1] # <<>> => g[q + 1] # <<>> /\ g[q + 1][1] = ss[1][1]
      <4> SUFFICES ASSUME ss[1] # <<>> PROVE g[q + 1] # <<>> /\ g[q + 1][1] = ss[1][1]
        OBVIOUS
      <4>1. g[q] # <<>> /\ g[q][1] = ss[1][1]
        BY <3>2
      <4>2. 1 \in DOMAIN g[q]
        BY <3>4, <4>1, EmptySeq, LenProperties
      <4> QED
        BY <3>5, <4>1, <4>2
    <3>8. P(q + 1)
      BY <3>5, <3>6, <3>7
    <3> QED
      BY <3>8 DEF q
  <2>7. n - 1 \in Nat /\ (n - 1) + 1 = n
    BY <1>1, <1>3
  <2>8. n - 1 \in I
    <3> HIDE DEF I
    <3> QED
      BY <2>5, <2>6, <2>7, NatSetInduction
  <2>9. P(n)
    <3>1. (n - 1) + 1 <= n => P((n - 1) + 1)
      BY <2>8
    <3> HIDE DEF P
    <3> QED
      BY <2>7, <3>1
  <2> QED
    BY <1>1, <1>3, <2>4, <2>9
<1> QED
  BY <1>1, <1>2, <1>3

=============================================================================
