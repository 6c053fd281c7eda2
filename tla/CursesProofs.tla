---------------------------- MODULE CursesProofs ----------------------------
(***************************************************************************)
(* Proofs about Curses, for any elements, forests, attributes, screens and   *)
(* options: that a key acts on what is on the screen, that the selected      *)
(* element is marked on it, that the budget of lines is kept, that Left and  *)
(* Right reach every attribute, and that PgDn passes no element unseen.      *)
(***************************************************************************)
EXTENDS Curses, Lemmas

-----------------------------------------------------------------------------
(***************************************************************************)
(* The selection.  Sels are the selections that point at listed groups and   *)
(* at elements in the list of their group; that keys stay among them is what *)
(* makes the element that curses_draw() remembers a live one.                *)
(***************************************************************************)
Listed == Range(group_list)
Selectable(g) == Range(order[g]) \cup {NoElement}

Sels == {s \in [group : Listed \cup {NoGroup}, cur : [Groups -> Elements \cup {NoElement}]] :
           \A g \in Groups : s.cur[g] \in Selectable(g)}

Forested == group_list \in Seq(Groups) /\ order \in [Groups -> Seq(Elements)]

\* What PosIn finds is where it was looked for.
LEMMA PosInFacts ==
  ASSUME NEW s, NEW x \in Range(s)
  PROVE  Forest!PosIn(s, x) \in DOMAIN s /\ s[Forest!PosIn(s, x)] = x
BY DEF Forest!PosIn, Range

\* What stands in a list is an element that can be selected.
LEMMA InList ==
  ASSUME Forested, NEW g \in Groups, NEW i \in DOMAIN order[g]
  PROVE  /\ order[g][i] \in Elements /\ order[g][i] \in Selectable(g)
         /\ order[g][i] # NoElement
<1>1. order[g] \in Seq(Elements)
  BY DEF Forested
<1>2. order[g][i] \in Elements
  BY <1>1, LenProperties
<1> QED
  BY <1>2, ForestAssumption DEF Selectable, Range

\* First and last of a list are NULL or in the list.
LEMMA EndsSelectable ==
  ASSUME Forested, NEW g \in Groups
  PROVE  /\ Forest!FirstOf(order[g], NoElement) \in Selectable(g)
         /\ Forest!LastOf(order[g], NoElement) \in Selectable(g)
<1>1. CASE order[g] = <<>>
  BY <1>1 DEF Forest!FirstOf, Forest!LastOf, Selectable
<1>2. CASE order[g] # <<>>
  <2>1. order[g] \in Seq(Elements)
    BY DEF Forested
  <2>2. 1 \in DOMAIN order[g] /\ Len(order[g]) \in DOMAIN order[g]
    BY <1>2, <2>1, EmptySeq, LenProperties
  <2> QED
    BY <1>2, <2>2, InList DEF Forest!FirstOf, Forest!LastOf
<1> QED
  BY <1>1, <1>2

\* The steps between groups stay among the groups there are.
LEMMA GroupSteps ==
  ASSUME Forested, group_list # <<>>, NEW g \in Listed \cup {NoGroup}
  PROVE  /\ Forest!GroupSelectNext(g) \in Listed
         /\ Forest!GroupSelectPrev(g) \in Listed
         /\ Forest!GroupCurrent(g) \in Listed
<1>1. DOMAIN group_list = 1 .. Len(group_list) /\ Len(group_list) \in Nat \ {0}
  BY EmptySeq, LenProperties DEF Forested
<1>2. \A i \in DOMAIN group_list : group_list[i] \in Listed
  BY DEF Listed, Range
<1>3. /\ Forest!FirstOf(group_list, NoGroup) = group_list[1]
      /\ Forest!LastOf(group_list, NoGroup) = group_list[Len(group_list)]
  BY DEF Forest!FirstOf, Forest!LastOf
<1>4. 1 \in DOMAIN group_list /\ Len(group_list) \in DOMAIN group_list
  BY <1>1
<1> DEFINE i == Forest!PosIn(group_list, g)
<1>5. g # NoGroup => i \in DOMAIN group_list /\ group_list[i] = g
  BY PosInFacts DEF Listed
<1> HIDE DEF i
<1>6. g # NoGroup /\ g # group_list[Len(group_list)] => i + 1 \in DOMAIN group_list
  BY <1>1, <1>5
<1>7. g # NoGroup /\ g # group_list[1] => i - 1 \in DOMAIN group_list
  BY <1>1, <1>5
<1>8. Forest!GroupSelectNext(g) \in Listed
  BY <1>2, <1>3, <1>4, <1>6 DEF Forest!GroupSelectNext, i
<1>9. Forest!GroupSelectPrev(g) \in Listed
  BY <1>2, <1>3, <1>4, <1>7 DEF Forest!GroupSelectPrev, i
<1>10. Forest!GroupCurrent(g) \in Listed
  BY <1>2, <1>3, <1>4 DEF Forest!GroupCurrent
<1> QED
  BY <1>8, <1>9, <1>10

\* What is listed is a group.
LEMMA ListedIsGroup ==
  ASSUME Forested
  PROVE  Listed \subseteq Groups
BY LenProperties DEF Forested, Listed, Range

\* Selecting NULL or an element of the group keeps a selection sound.
LEMMA PickOK ==
  ASSUME Forested, NEW s \in Sels, NEW g \in Listed, NEW e \in Selectable(g)
  PROVE  Forest!Pick(s, g, e) \in Sels
<1>1. g \in Groups
  BY ListedIsGroup
<1>2. e \in Elements \cup {NoElement}
  BY <1>1, InList DEF Selectable, Range
<1> QED
  BY <1>1, <1>2 DEF Sels, Forest!Pick

\* Another listed group is made the current one.
LEMMA MoveOK ==
  ASSUME NEW s \in Sels, NEW g \in Listed
  PROVE  [s EXCEPT !.group = g] \in Sels
BY DEF Sels

\* The current group of a selection.
LEMMA CurrentGroup ==
  ASSUME Forested, group_list # <<>>, NEW s \in Sels
  PROVE  /\ s.group \in Listed \cup {NoGroup}
         /\ Forest!GroupCurrent(s.group) \in Listed
         /\ Forest!GroupCurrent(s.group) \in Groups
<1>1. s.group \in Listed \cup {NoGroup}
  BY DEF Sels
<1> QED
  BY <1>1, GroupSteps, ListedIsGroup

\* element_select_first() and element_select_last() lead to elements in lists.
LEMMA SelectEndsOK ==
  ASSUME Forested, group_list # <<>>, NEW s \in Sels
  PROVE  Forest!SelectFirst(s) \in Sels /\ Forest!SelectLast(s) \in Sels
<1> DEFINE g == Forest!GroupCurrent(s.group)
<1>1. g \in Listed /\ g \in Groups
  BY CurrentGroup
<1> HIDE DEF g
<1>2. /\ Forest!Pick(s, g, Forest!FirstOf(order[g], NoElement)) \in Sels
      /\ Forest!Pick(s, g, Forest!LastOf(order[g], NoElement)) \in Sels
  BY <1>1, EndsSelectable, PickOK
<1> QED
  BY <1>2 DEF Forest!SelectFirst, Forest!SelectLast, g

\* element_select_next() and element_select_prev() lead to elements in lists.
LEMMA SelectStepsOK ==
  ASSUME Forested, group_list # <<>>, NEW s \in Sels
  PROVE  Forest!SelectNext(s) \in Sels /\ Forest!SelectPrev(s) \in Sels
<1> DEFINE g == Forest!GroupCurrent(s.group)
           e == s.cur[g]
           i == Forest!PosIn(order[g], e)
           below == [s EXCEPT !.group = Forest!GroupSelectNext(g)]
           above == [s EXCEPT !.group = Forest!GroupSelectPrev(g)]
<1>1. g \in Listed /\ g \in Groups
  BY CurrentGroup
<1>2. e \in Selectable(g)
  BY <1>1 DEF Sels
<1>3. below \in Sels /\ above \in Sels
  <2>1. Forest!GroupSelectNext(g) \in Listed /\ Forest!GroupSelectPrev(g) \in Listed
    BY <1>1, GroupSteps
  <2> QED
    BY <2>1, MoveOK
<1>4. order[g] \in Seq(Elements)
  BY <1>1 DEF Forested
<1> HIDE DEF g, e, below, above, i
<1>5. /\ Forest!SelectFirst(s) \in Sels /\ Forest!SelectLast(s) \in Sels
      /\ Forest!SelectFirst(below) \in Sels /\ Forest!SelectLast(above) \in Sels
  BY <1>3, SelectEndsOK
<1>6. DOMAIN order[g] = 1 .. Len(order[g]) /\ Len(order[g]) \in Nat
  BY <1>4, LenProperties
<1>7. e # NoElement => i \in DOMAIN order[g] /\ order[g][i] = e
  BY <1>2, PosInFacts DEF Selectable, i
<1>8. ASSUME e # NoElement, e # Forest!LastOf(order[g], NoElement)
      PROVE  Forest!Pick(s, g, order[g][i + 1]) \in Sels
  <2>1. i # Len(order[g])
    BY <1>6, <1>7, <1>8, EmptySeq DEF Forest!LastOf
  <2>2. i + 1 \in DOMAIN order[g]
    BY <1>6, <1>7, <1>8, <2>1
  <2> QED
    BY <1>1, <2>2, InList, PickOK
<1>9. ASSUME e # NoElement, e # Forest!FirstOf(order[g], NoElement)
      PROVE  Forest!Pick(s, g, order[g][i - 1]) \in Sels
  <2>1. i # 1
    BY <1>6, <1>7, <1>9, EmptySeq DEF Forest!FirstOf
  <2>2. i - 1 \in DOMAIN order[g]
    BY <1>6, <1>7, <1>9, <2>1
  <2> QED
    BY <1>1, <2>2, InList, PickOK
<1>10. Forest!SelectNext(s) \in Sels
  BY <1>5, <1>8 DEF Forest!SelectNext, g, e, i, below
<1>11. Forest!SelectPrev(s) \in Sels
  BY <1>5, <1>9 DEF Forest!SelectPrev, g, e, i, above
<1> QED
  BY <1>10, <1>11

\* element_current() picks an element of the current group, and the group is
\* then the one that is current.
LEMMA ElementCurrentOK ==
  ASSUME Forested, group_list # <<>>, NEW s \in Sels
  PROVE  /\ Forest!ElementCurrent(s) \in Sels
         /\ Forest!ElementCurrent(s).group \in Listed
<1> DEFINE g == Forest!GroupCurrent(s.group)
<1>1. g \in Listed /\ g \in Groups
  BY CurrentGroup
<1>2. s.cur[g] \in Selectable(g)
  BY <1>1 DEF Sels
<1> HIDE DEF g
<1>3. Forest!PickFromPolicy(g) \in Selectable(g)
  BY <1>1, EndsSelectable, EmptySeq DEF Forest!PickFromPolicy
<1>4. /\ Forest!Pick(s, g, s.cur[g]) \in Sels
      /\ Forest!Pick(s, g, Forest!PickFromPolicy(g)) \in Sels
  BY <1>1, <1>2, <1>3, PickOK
<1>5. \A x : Forest!Pick(s, g, x).group = g
  BY DEF Forest!Pick
<1> QED
  BY <1>1, <1>4, <1>5 DEF Forest!ElementCurrent, g

\* What begins in a set and never leaves it stays in it.
LEMMA StaysWithin ==
  ASSUME NEW S, NEW n \in Nat, NEW f, f[0] \subseteq S,
         \A i \in 1 .. n : f[i - 1] \subseteq S => f[i] \subseteq S
  PROVE  f[n] \subseteq S
<1> DEFINE I == {m \in Nat : m <= n => f[m] \subseteq S}
<1>1. 0 \in I
  OBVIOUS
<1>2. ASSUME NEW m \in Nat, m <= n => f[m] \subseteq S, m + 1 <= n PROVE f[m + 1] \subseteq S
  <2>1. m + 1 \in 1 .. n /\ (m + 1) - 1 = m /\ m <= n
    BY <1>2
  <2>2. f[(m + 1) - 1] \subseteq S
    BY <1>2, <2>1
  <2> QED
    BY <2>1, <2>2
<1>3. \A m \in Nat : m \in I => m + 1 \in I
  BY <1>2
<1>4. n \in I
  <2> HIDE DEF I
  <2> QED
    BY <1>1, <1>3, NatSetInduction
<1>5. n <= n
  OBVIOUS
<1> QED
  BY <1>4, <1>5

\* f[i] holds the selection after i moves F from x.
IsPage(f, x, n, F) ==
    /\ f = [i \in 0 .. n |-> IF i = 0 THEN {x} ELSE {F[s] : s \in f[i - 1]}]
    /\ \A i \in 0 .. n : f[i] \subseteq Sels

\* Pages exist, whatever their length.
LEMMA PageExists ==
  ASSUME NEW x \in Sels, NEW n \in Nat, NEW F \in [Sels -> Sels]
  PROVE  \E f : IsPage(f, x, n, F)
<1> DEFINE T == SUBSET Sels
           St == [k \in 1 .. n |-> [t \in T |-> {F[s] : s \in t}]]
<1>1. St \in [1 .. n -> [T -> T]] /\ {x} \in T
  OBVIOUS
<1> HIDE DEF T, St
<1>2. \E f \in [0 .. n -> T] : Follows(f, {x}, n, St)
  <2> DEFINE x1 == {x}
  <2>1. x1 \in T
    BY <1>1
  <2> HIDE DEF x1
  <2>2. \E f \in [0 .. n -> T] : Follows(f, x1, n, St)
    BY <1>1, <2>1, RecursionExists
  <2> QED
    BY <2>2 DEF x1
<1>3. PICK f \in [0 .. n -> T] : Follows(f, {x}, n, St)
  BY <1>2
<1>4. ASSUME NEW i \in 0 .. n
      PROVE  f[i] = IF i = 0 THEN {x} ELSE {F[s] : s \in f[i - 1]}
  <2>1. CASE i = 0
    BY <1>3, <2>1 DEF Follows
  <2>2. CASE i # 0
    <3>1. i \in 1 .. n /\ i - 1 \in 0 .. n
      BY <2>2
    <3>2. f[i - 1] \in T /\ f[i] = St[i][f[i - 1]]
      BY <1>3, <3>1 DEF Follows
    <3> QED
      BY <2>2, <3>1, <3>2 DEF St
  <2> QED
    BY <2>1, <2>2
<1>5. f = [i \in 0 .. n |-> IF i = 0 THEN {x} ELSE {F[s] : s \in f[i - 1]}]
  BY <1>4
<1>6. \A i \in 0 .. n : f[i] \subseteq Sels
  BY <1>3 DEF T
<1> QED
  BY <1>5, <1>6 DEF IsPage

\* f[i] holds the selection after i moves down, which is among those in lists.
RunsDown(f, m) ==
    /\ f[0] = {Forest!Selection}
    /\ \A i \in 1 .. m : f[i - 1] \subseteq Sels =>
          f[i] \subseteq Sels /\ f[i] = {Forest!SelectNext(s) : s \in f[i - 1]}

\* PgDn moves down as often as the page is long.
LEMMA PageDownRuns ==
  ASSUME Forested, group_list # <<>>, Forest!Selection \in Sels, NEW n \in Int
  PROVE  \E f : /\ RunsDown(f, Max({0, n}))
                /\ Page(n, LAMBDA t : Forest!SelectNext(t)) = f[Max({0, n})]
<1> DEFINE m == Max({0, n})
           x == Forest!Selection
           G(f) == f = [i \in 0 .. m |-> IF i = 0 THEN {x}
                                          ELSE {Forest!SelectNext(s) : s \in f[i - 1]}]
           F == [s \in Sels |-> Forest!SelectNext(s)]
<1>1. m \in Nat
  <2>1. 0 \in Int
    OBVIOUS
  <2>2. m = IF 0 >= n THEN 0 ELSE n
    BY <2>1, MinMaxOfTwo, Zenon
  <2> QED
    BY <2>2
<1>2. \A s \in Sels : Forest!SelectNext(s) \in Sels
  BY SelectStepsOK
<1>3. F \in [Sels -> Sels] /\ \A s \in Sels : F[s] = Forest!SelectNext(s)
  BY <1>2
<1>4. Page(n, LAMBDA t : Forest!SelectNext(t)) = (CHOOSE f : G(f))[m]
  BY DEF Page
<1>5. x \in Sels
  OBVIOUS
<1> HIDE DEF m, x, F
<1>6. \E f : G(f)
  <2>1. PICK f : IsPage(f, x, m, F)
    BY <1>1, <1>3, <1>5, PageExists
  <2>2. /\ f = [i \in 0 .. m |-> IF i = 0 THEN {x} ELSE {F[s] : s \in f[i - 1]}]
        /\ \A i \in 0 .. m : f[i] \subseteq Sels
    BY <2>1 DEF IsPage
  <2>3. ASSUME NEW i \in 0 .. m
        PROVE  (IF i = 0 THEN {x} ELSE {F[s] : s \in f[i - 1]})
                 = (IF i = 0 THEN {x} ELSE {Forest!SelectNext(s) : s \in f[i - 1]})
    <3>1. i # 0 => f[i - 1] \subseteq Sels
      <4>1. i # 0 => i - 1 \in 0 .. m
        BY <1>1
      <4> QED
        BY <2>2, <4>1
    <3> QED
      BY <1>3, <3>1
  <2>4. G(f)
    BY <2>2, <2>3, Zenon
  <2> QED
    BY <2>4
<1> DEFINE f == CHOOSE f : G(f)
<1>7. G(f)
  <2> HIDE DEF G
  <2> QED
    BY <1>6
<1> HIDE DEF f
<1>8. \A i \in 0 .. m : f[i] = IF i = 0 THEN {x} ELSE {Forest!SelectNext(s) : s \in f[i - 1]}
  BY <1>7
<1>9. f[0] = {x}
  <2>1. 0 \in 0 .. m
    BY <1>1
  <2> QED
    BY <1>8, <2>1, Zenon
<1>10. \A i \in 1 .. m : f[i - 1] \subseteq Sels =>
          f[i] \subseteq Sels /\ f[i] = {Forest!SelectNext(s) : s \in f[i - 1]}
  <2> SUFFICES ASSUME NEW i \in 1 .. m, f[i - 1] \subseteq Sels
               PROVE  f[i] \subseteq Sels /\ f[i] = {Forest!SelectNext(s) : s \in f[i - 1]}
    OBVIOUS
  <2>1. f[i] = {Forest!SelectNext(s) : s \in f[i - 1]}
    <3>1. i \in 0 .. m /\ i # 0
      BY <1>1
    <3> QED
      BY <1>8, <3>1, Zenon
  <2> QED
    BY <1>2, <2>1
<1> HIDE DEF G
<1>11. RunsDown(f, m)
  BY <1>9, <1>10 DEF RunsDown, x
<1> QED
  BY <1>4, <1>11 DEF f, m

\* The length of a page.
LEMMA PageLength ==
  ASSUME NEW n \in Int
  PROVE  Max({0, n}) = (IF 0 >= n THEN 0 ELSE n) /\ Max({0, n}) \in Nat
<1>1. 0 \in Int
  OBVIOUS
<1>2. Max({0, n}) = IF 0 >= n THEN 0 ELSE n
  BY <1>1, MinMaxOfTwo, Zenon
<1> QED
  BY <1>2

\* PgDn leads to elements in lists, however long the page.
LEMMA PageDownOK ==
  ASSUME Forested, group_list # <<>>, Forest!Selection \in Sels, NEW n \in Int
  PROVE  Page(n, LAMBDA t : Forest!SelectNext(t)) \subseteq Sels
<1> DEFINE m == Max({0, n})
<1>1. PICK f : RunsDown(f, m) /\ Page(n, LAMBDA t : Forest!SelectNext(t)) = f[m]
  BY PageDownRuns
<1>2. m \in Nat
  BY PageLength
<1> HIDE DEF m
<1>3. f[m] \subseteq Sels
  BY <1>1, <1>2, StaysWithin DEF RunsDown
<1> QED
  BY <1>1, <1>3

\* PgUp does.
LEMMA PageUpOK ==
  ASSUME Forested, group_list # <<>>, Forest!Selection \in Sels, NEW n \in Int
  PROVE  Page(n, LAMBDA t : Forest!SelectPrev(t)) \subseteq Sels
<1> DEFINE m == Max({0, n})
           x == Forest!Selection
           G(f) == f = [i \in 0 .. m |-> IF i = 0 THEN {x}
                                          ELSE {Forest!SelectPrev(s) : s \in f[i - 1]}]
           F == [s \in Sels |-> Forest!SelectPrev(s)]
<1>1. m \in Nat
  <2>1. 0 \in Int
    OBVIOUS
  <2>2. m = IF 0 >= n THEN 0 ELSE n
    BY <2>1, MinMaxOfTwo, Zenon
  <2> QED
    BY <2>2
<1>2. \A s \in Sels : Forest!SelectPrev(s) \in Sels
  BY SelectStepsOK
<1>3. F \in [Sels -> Sels] /\ \A s \in Sels : F[s] = Forest!SelectPrev(s)
  BY <1>2
<1>4. Page(n, LAMBDA t : Forest!SelectPrev(t)) = (CHOOSE f : G(f))[m]
  BY DEF Page
<1>5. x \in Sels
  OBVIOUS
<1> HIDE DEF m, x, F
<1>6. \E f : G(f)
  <2>1. PICK f : IsPage(f, x, m, F)
    BY <1>1, <1>3, <1>5, PageExists
  <2>2. /\ f = [i \in 0 .. m |-> IF i = 0 THEN {x} ELSE {F[s] : s \in f[i - 1]}]
        /\ \A i \in 0 .. m : f[i] \subseteq Sels
    BY <2>1 DEF IsPage
  <2>3. ASSUME NEW i \in 0 .. m
        PROVE  (IF i = 0 THEN {x} ELSE {F[s] : s \in f[i - 1]})
                 = (IF i = 0 THEN {x} ELSE {Forest!SelectPrev(s) : s \in f[i - 1]})
    <3>1. i # 0 => f[i - 1] \subseteq Sels
      <4>1. i # 0 => i - 1 \in 0 .. m
        BY <1>1
      <4> QED
        BY <2>2, <4>1
    <3> QED
      BY <1>3, <3>1
  <2>4. G(f)
    BY <2>2, <2>3, Zenon
  <2> QED
    BY <2>4
<1> DEFINE f == CHOOSE f : G(f)
<1>7. G(f)
  <2> HIDE DEF G
  <2> QED
    BY <1>6
<1> HIDE DEF f
<1>8. \A i \in 0 .. m : f[i] = IF i = 0 THEN {x} ELSE {Forest!SelectPrev(s) : s \in f[i - 1]}
  BY <1>7
<1>9. f[0] \subseteq Sels
  <2>1. 0 \in 0 .. m
    BY <1>1
  <2>2. f[0] = {x}
    BY <1>8, <2>1, Zenon
  <2> QED
    BY <1>5, <2>2
<1>10. \A i \in 1 .. m : f[i - 1] \subseteq Sels => f[i] \subseteq Sels
  <2> SUFFICES ASSUME NEW i \in 1 .. m, f[i - 1] \subseteq Sels PROVE f[i] \subseteq Sels
    OBVIOUS
  <2>1. f[i] = {Forest!SelectPrev(s) : s \in f[i - 1]}
    <3>1. i \in 0 .. m /\ i # 0
      BY <1>1
    <3> QED
      BY <1>8, <3>1, Zenon
  <2> QED
    BY <1>2, <2>1
<1> HIDE DEF G
<1>11. f[m] \subseteq Sels
  BY <1>1, <1>9, <1>10, StaysWithin
<1> QED
  BY <1>4, <1>11 DEF f

-----------------------------------------------------------------------------
(***************************************************************************)
(* The attributes of an element.                                            *)
(***************************************************************************)
IsDistinct(s) == \A i, j \in DOMAIN s : s[i] = s[j] => i = j

\* What attr_current of an element with the attributes s may be.
AttrSels(s) == Range(s) \cup {NoAttr} \cup (IF s = <<>> THEN {} ELSE {ListHead})

\* attr_update() puts a new attribute somewhere into the list.
LEMMA InsertSortedFacts ==
  ASSUME NEW s \in Seq(Nat), NEW a \in Nat
  PROVE  \E p \in 1 .. Len(s) + 1 : InsertSorted(s, a) = InsertAt(s, p, a)
<1> DEFINE greater == {i \in DOMAIN s : Attrcmp(a, s[i]) < 0}
<1>1. DOMAIN s = 1 .. Len(s) /\ Len(s) \in Nat
  BY LenProperties
<1>2. greater \subseteq 0 .. Len(s) /\ greater \subseteq 1 .. Len(s)
  BY <1>1
<1>3. InsertSorted(s, a) = InsertAt(s, IF greater = {} THEN Len(s) + 1 ELSE Min(greater), a)
  BY DEF InsertSorted
<1> HIDE DEF greater
<1>4. greater # {} => Min(greater) \in greater
  BY <1>1, <1>2, MinIsLeast
<1>5. (IF greater = {} THEN Len(s) + 1 ELSE Min(greater)) \in 1 .. Len(s) + 1
  <2>1. CASE greater = {}
    BY <1>1, <2>1
  <2>2. CASE greater # {}
    <3>1. Min(greater) \in 1 .. Len(s)
      BY <1>2, <1>4, <2>2
    <3> QED
      BY <1>1, <2>2, <3>1
  <2> QED
    BY <2>1, <2>2
<1> QED
  BY <1>3, <1>5

\* An attribute that is new to a list is inserted once, and nothing else changes.
LEMMA InsertSortedDistinct ==
  ASSUME NEW s \in Seq(Nat), NEW x \in Nat, IsDistinct(s), \A i \in DOMAIN s : s[i] # x
  PROVE  /\ InsertSorted(s, x) \in Seq(Nat) /\ IsDistinct(InsertSorted(s, x))
         /\ \A i \in DOMAIN InsertSorted(s, x) :
              InsertSorted(s, x)[i] = x \/ \E j \in DOMAIN s : InsertSorted(s, x)[i] = s[j]
<1> DEFINE t == InsertSorted(s, x)
<1>1. PICK p \in 1 .. Len(s) + 1 : t = InsertAt(s, p, x)
  BY InsertSortedFacts
<1>2. /\ t \in Seq(Nat) /\ Len(t) = Len(s) + 1
      /\ \A j \in 1 .. Len(s) + 1 : t[j] = IF j < p THEN s[j] ELSE IF j = p THEN x ELSE s[j - 1]
  <2> DEFINE S == Nat
  <2>1. s \in Seq(S) /\ x \in S
    OBVIOUS
  <2> HIDE DEF S
  <2>2. /\ InsertAt(s, p, x) \in Seq(S) /\ Len(InsertAt(s, p, x)) = Len(s) + 1
        /\ \A j \in 1 .. Len(s) + 1 :
              InsertAt(s, p, x)[j] = IF j < p THEN s[j] ELSE IF j = p THEN x ELSE s[j - 1]
    BY ONLY <2>1, p \in 1 .. Len(s) + 1, InsertElement
  <2> QED
    BY <1>1, <2>2 DEF S
<1> HIDE DEF t
<1>3. DOMAIN t = 1 .. Len(s) + 1 /\ DOMAIN s = 1 .. Len(s) /\ Len(s) \in Nat
  BY <1>2, LenProperties
<1> DEFINE Old(j) == IF j < p THEN j ELSE j - 1
<1>4. \A j \in DOMAIN t : j # p => Old(j) \in DOMAIN s /\ t[j] = s[Old(j)]
  <2> SUFFICES ASSUME NEW j \in DOMAIN t, j # p PROVE Old(j) \in DOMAIN s /\ t[j] = s[Old(j)]
    OBVIOUS
  <2>1. j \in 1 .. Len(s) + 1 /\ t[j] = IF j < p THEN s[j] ELSE IF j = p THEN x ELSE s[j - 1]
    BY <1>2, <1>3
  <2>2. CASE j < p
    BY <1>3, <2>1, <2>2
  <2>3. CASE j > p
    BY <1>3, <2>1, <2>3
  <2> QED
    BY <1>3, <2>1, <2>2, <2>3
<1>5. t[p] = x
  BY <1>2, <1>3
<1>6. IsDistinct(t)
  <2> SUFFICES ASSUME NEW i \in DOMAIN t, NEW j \in DOMAIN t, t[i] = t[j] PROVE i = j
    BY DEF IsDistinct
  <2>1. CASE i = p \/ j = p
    BY <1>4, <1>5, <2>1
  <2>2. CASE i # p /\ j # p
    <3>1. Old(i) = Old(j)
      BY <1>4, <2>2 DEF IsDistinct
    <3> QED
      BY <1>3, <2>2, <3>1
  <2> QED
    BY <2>1, <2>2
<1>7. \A i \in DOMAIN t : t[i] = x \/ \E j \in DOMAIN s : t[i] = s[j]
  BY <1>4, <1>5
<1> QED
  BY <1>2, <1>6, <1>7 DEF t

\* The sorted list of distinct attributes has none twice.
LEMMA AttrSortedFacts ==
  ASSUME NEW a \in Seq(Nat), IsDistinct(a)
  PROVE  AttrSorted(a) \in Seq(Nat) /\ IsDistinct(AttrSorted(a))
<1> DEFINE n == Len(a)
           T == Seq(Nat)
           St == [k \in 1 .. n |-> [t \in T |-> InsertSorted(t, a[k])]]
           G(f) == f = [k \in 0 .. n |-> IF k = 0 THEN <<>> ELSE InsertSorted(f[k - 1], a[k])]
<1>1. n \in Nat /\ DOMAIN a = 1 .. n /\ \A k \in 1 .. n : a[k] \in Nat
  BY LenProperties, ElementOfSeq
<1>2. AttrSorted(a) = (CHOOSE f : G(f))[n]
  BY DEF AttrSorted
<1> HIDE DEF n
<1>3. \A t \in T : \A k \in 1 .. n :
        /\ InsertSorted(t, a[k]) \in T
        /\ \E p \in 1 .. Len(t) + 1 : InsertSorted(t, a[k]) = InsertAt(t, p, a[k])
  <2> SUFFICES ASSUME NEW t \in Seq(Nat), NEW k \in 1 .. n
               PROVE  /\ InsertSorted(t, a[k]) \in Seq(Nat)
                      /\ \E p \in 1 .. Len(t) + 1 : InsertSorted(t, a[k]) = InsertAt(t, p, a[k])
    OBVIOUS
  <2> DEFINE x == a[k]
  <2>1. x \in Nat
    BY <1>1
  <2> HIDE DEF x
  <2>2. PICK p \in 1 .. Len(t) + 1 : InsertSorted(t, x) = InsertAt(t, p, x)
    BY <2>1, InsertSortedFacts
  <2>3. InsertAt(t, p, x) \in Seq(Nat)
    BY <2>1, InsertAtFacts
  <2> QED
    BY <2>2, <2>3 DEF x
<1>4. \E f : G(f)
  <2> DEFINE x == <<>>
  <2>1. St \in [1 .. n -> [T -> T]] /\ x \in T
    BY <1>3, EmptySeq
  <2> HIDE DEF St, T, x
  <2>2. PICK f \in [0 .. n -> T] : Follows(f, x, n, St)
    BY <1>1, <2>1, RecursionExists
  <2>3. ASSUME NEW k \in 0 .. n PROVE f[k] = IF k = 0 THEN <<>> ELSE InsertSorted(f[k - 1], a[k])
    <3>1. CASE k = 0
      BY <2>2, <3>1 DEF Follows, x
    <3>2. CASE k # 0
      <4>1. k \in 1 .. n /\ k - 1 \in 0 .. n
        BY <1>1, <3>2
      <4>2. f[k - 1] \in T /\ f[k] = St[k][f[k - 1]]
        BY <2>2, <4>1 DEF Follows
      <4> QED
        BY <3>2, <4>1, <4>2 DEF St
    <3> QED
      BY <3>1, <3>2
  <2>4. G(f)
    BY <2>3
  <2> QED
    BY <2>4
<1> DEFINE f == CHOOSE f : G(f)
<1>5. G(f)
  <2> HIDE DEF G
  <2> QED
    BY <1>4
<1>6. \A k \in 0 .. n : f[k] = IF k = 0 THEN <<>> ELSE InsertSorted(f[k - 1], a[k])
  BY <1>5
<1> HIDE DEF f, G
<1> DEFINE P(m) == /\ f[m] \in T /\ IsDistinct(f[m])
                   /\ \A i \in DOMAIN f[m] : \E k \in 1 .. m : f[m][i] = a[k]
           I == {m \in Nat : m <= n => P(m)}
<1>7. 0 \in I
  <2>1. f[0] = <<>>
    <3>1. 0 \in 0 .. n
      BY <1>1
    <3> QED
      BY <1>6, <3>1, Zenon
  <2>2. DOMAIN f[0] = {} /\ f[0] \in T
    BY <2>1, EmptySeq, LenProperties
  <2>3. P(0)
    BY <2>2 DEF IsDistinct
  <2> QED
    BY <2>3
<1>8. ASSUME NEW m \in Nat, m + 1 <= n, P(m) PROVE P(m + 1)
  <2> DEFINE s == f[m]
             x == a[m + 1]
  <2>1. m + 1 \in 1 .. n /\ m \in 0 .. n /\ (m + 1) - 1 = m /\ m + 1 \in 0 .. n
    BY <1>1, <1>8
  <2>2. f[m + 1] = InsertSorted(s, x)
    BY <1>6, <2>1
  <2>3. s \in Seq(Nat) /\ x \in Nat /\ IsDistinct(s)
    BY <1>1, <1>8, <2>1
  <2>4. \A i \in DOMAIN s : s[i] # x
    <3> SUFFICES ASSUME NEW i \in DOMAIN s, s[i] = x PROVE FALSE
      OBVIOUS
    <3>1. PICK k \in 1 .. m : s[i] = a[k]
      BY <1>8
    <3>2. k \in DOMAIN a /\ m + 1 \in DOMAIN a /\ k # m + 1
      BY <1>1, <2>1
    <3> QED
      BY <3>1, <3>2 DEF IsDistinct
  <2>5. \A i \in DOMAIN s : \E k \in 1 .. m : s[i] = a[k]
    BY <1>8
  <2> HIDE DEF s, x
  <2>6. /\ InsertSorted(s, x) \in Seq(Nat) /\ IsDistinct(InsertSorted(s, x))
        /\ \A i \in DOMAIN InsertSorted(s, x) :
             InsertSorted(s, x)[i] = x \/ \E j \in DOMAIN s : InsertSorted(s, x)[i] = s[j]
    BY ONLY <2>3, <2>4, InsertSortedDistinct
  <2>7. \A i \in DOMAIN f[m + 1] : \E k \in 1 .. m + 1 : f[m + 1][i] = a[k]
    <3> SUFFICES ASSUME NEW i \in DOMAIN f[m + 1] PROVE \E k \in 1 .. m + 1 : f[m + 1][i] = a[k]
      OBVIOUS
    <3>1. CASE f[m + 1][i] = x
      BY <3>1 DEF x
    <3>2. CASE \E j \in DOMAIN s : f[m + 1][i] = s[j]
      <4>1. PICK k \in 1 .. m : f[m + 1][i] = a[k]
        BY <2>5, <3>2
      <4> QED
        BY <4>1
    <3> QED
      BY <2>2, <2>6, <3>1, <3>2
  <2> QED
    BY <2>2, <2>6, <2>7
<1>9. \A m \in Nat : m \in I => m + 1 \in I
  <2> HIDE DEF P
  <2> QED
    BY <1>1, <1>8
<1>10. n \in I
  <2> HIDE DEF I
  <2> QED
    BY <1>1, <1>7, <1>9, NatSetInduction
<1>11. P(n)
  <2> HIDE DEF P
  <2> QED
    BY <1>1, <1>10
<1> QED
  BY <1>2, <1>11 DEF f

\* The attributes of an element are a list without repetitions.
LEMMA AttrsFacts ==
  ASSUME NEW e \in Elements
  PROVE  /\ Attrs[e] \in Seq(Nat) /\ IsDistinct(Attrs[e])
         /\ DOMAIN Attrs[e] = 1 .. Len(Attrs[e]) /\ Len(Attrs[e]) \in Nat
<1>1. Arrivals[e] \in Seq(Nat) /\ IsDistinct(Arrivals[e])
  BY DisplayAssumption DEF IsDistinct
<1>2. Attrs[e] = AttrSorted(Arrivals[e])
  BY DEF Attrs
<1> QED
  BY <1>1, <1>2, AttrSortedFacts, LenProperties

\* The place of an entry in its list.
LEMMA PlaceOf ==
  ASSUME NEW S, NEW s \in Seq(S), NEW a \in Range(s)
  PROVE  /\ Min({i \in DOMAIN s : s[i] = a}) \in DOMAIN s
         /\ s[Min({i \in DOMAIN s : s[i] = a})] = a
<1> DEFINE T == {i \in DOMAIN s : s[i] = a}
<1>1. DOMAIN s = 1 .. Len(s) /\ Len(s) \in Nat
  BY LenProperties
<1>2. T \subseteq 0 .. Len(s) /\ T # {}
  BY <1>1 DEF Range
<1>3. Min(T) \in T
  <2> HIDE DEF T
  <2> QED
    BY <1>1, <1>2, MinIsLeast
<1> QED
  BY <1>3

\* Selecting the next, the previous or the current attribute leads to NULL, to
\* the list head or to an attribute of the element.
LEMMA AttrStepsOK ==
  ASSUME NEW s \in Seq(Nat), NEW a \in AttrSels(s)
  PROVE  /\ AttrNext(s, a) \in AttrSels(s)
         /\ AttrPrev(s, a) \in AttrSels(s)
         /\ AttrCurrent(s, a) \in AttrSels(s)
<1>1. DOMAIN s = 1 .. Len(s) /\ Len(s) \in Nat
  BY LenProperties
<1>2. \A i \in DOMAIN s : s[i] \in AttrSels(s)
  BY DEF AttrSels, Range
<1>3. AttrFirst(s) \in AttrSels(s) /\ AttrLast(s) \in AttrSels(s)
  <2>1. s # <<>> => 1 \in DOMAIN s
    BY <1>1, EmptySeq
  <2> QED
    BY <1>2, <2>1 DEF AttrFirst, AttrLast, AttrSels
<1> DEFINE p == Min({i \in DOMAIN s : s[i] = a})
<1>4. a \notin {NoAttr, ListHead} => p \in DOMAIN s /\ s[p] = a
  <2>1. a \notin {NoAttr, ListHead} => a \in Range(s)
    BY DEF AttrSels
  <2> QED
    BY <2>1, PlaceOf
<1> HIDE DEF p
<1>5. AttrNext(s, a) \in AttrSels(s)
  <2>1. CASE a \in {NoAttr, ListHead} \/ a = Last(s)
    BY <1>3, <2>1 DEF AttrNext
  <2>2. CASE ~(a \in {NoAttr, ListHead} \/ a = Last(s))
    <3>1. p + 1 \in DOMAIN s
      BY <1>1, <1>4, <2>2 DEF Last
    <3> QED
      BY <1>2, <2>2, <3>1 DEF AttrNext, p
  <2> QED
    BY <2>1, <2>2
<1>6. AttrPrev(s, a) \in AttrSels(s)
  <2>1. CASE a = NoAttr \/ (a # ListHead /\ a = s[1])
    BY <1>3, <2>1 DEF AttrPrev
  <2>2. CASE a = ListHead
    <3>1. s # <<>>
      <4>1. ListHead \notin Range(s) /\ ListHead # NoAttr
        BY <1>1, AttrAssumption, ElementOfSeq DEF Range
      <4> QED
        BY <2>2, <4>1 DEF AttrSels
    <3>2. Len(s) \in DOMAIN s
      BY <1>1, <3>1, EmptySeq
    <3> QED
      BY <1>2, <2>2, <3>2, AttrAssumption DEF AttrPrev, Last
  <2>3. CASE a # NoAttr /\ a # ListHead /\ a # s[1]
    <3>1. p - 1 \in DOMAIN s
      BY <1>1, <1>4, <2>3
    <3> QED
      BY <1>2, <2>3, <3>1 DEF AttrPrev, p
  <2> QED
    BY <2>1, <2>2, <2>3
<1>7. AttrCurrent(s, a) \in AttrSels(s)
  BY <1>3 DEF AttrCurrent
<1> QED
  BY <1>5, <1>6, <1>7

-----------------------------------------------------------------------------
(***************************************************************************)
(* The types of the budget.                                                 *)
(***************************************************************************)
Size(scr) == scr.rows \in Nat /\ scr.cols \in Nat

GroupsListed == \A g \in Groups : order[g] # <<>> => g \in Listed

\* The type invariant.
TypeOK ==
    /\ Forested /\ GroupsListed
    /\ Forest!Selection \in Sels
    /\ e_current_attr \in [Elements -> Nat \cup {NoAttr, ListHead}]
    /\ \A e \in Elements : e_current_attr[e] \in AttrSels(Attrs[e])
    /\ show \subseteq Sections /\ c_ngraph \in Nat
    /\ c_list_min \in Nat \ {0} /\ gc_height \in Nat \ {0}
    /\ rows \in Nat /\ cols \in Nat /\ list_length \in Int

Entries == Elements \cup {NoElement}

\* The list has a title above each group, and every element is in it.
LEMMA LinesFacts ==
  ASSUME Forested
  PROVE  /\ Lines \in Seq(Entries)
         /\ Len(Lines) \in Nat /\ DOMAIN Lines = 1 .. Len(Lines)
         /\ group_list # <<>> => Len(Lines) >= 1 /\ Lines[1] = NoElement
         /\ \A g \in Listed : \A e \in Range(order[g]) : e \in Range(Lines)
<1> DEFINE ss == [i \in DOMAIN group_list |-> <<NoElement>> \o order[group_list[i]]]
           n == Len(group_list)
<1>1. n \in Nat /\ DOMAIN group_list = 1 .. n /\ \A i \in 1 .. n : group_list[i] \in Groups
  BY LenProperties, ElementOfSeq DEF Forested
<1>2. ASSUME NEW i \in 1 .. n
      PROVE  /\ ss[i] \in Seq(Entries) /\ ss[i] # <<>> /\ ss[i][1] = NoElement
             /\ \A e \in Range(order[group_list[i]]) : e \in Range(ss[i])
  <2> DEFINE h == <<NoElement>>
             s == order[group_list[i]]
  <2>1. s \in Seq(Entries)
    <3>1. s \in Seq(Elements) /\ Elements \subseteq Entries
      BY <1>1 DEF Forested, Entries
    <3> QED
      BY <3>1, SeqMonotonic
  <2>2. h \in Seq(Entries) /\ h # <<>> /\ 1 \in DOMAIN h /\ h[1] = NoElement
    BY DEF Entries
  <2>3. ss[i] = h \o s
    BY <1>1
  <2> HIDE DEF h, s
  <2>4. /\ h \o s \in Seq(Entries)
        /\ \A j \in DOMAIN h : j \in DOMAIN (h \o s) /\ (h \o s)[j] = h[j]
        /\ \A j \in DOMAIN s : \E k \in DOMAIN (h \o s) : (h \o s)[k] = s[j]
        /\ h # <<>> => h \o s # <<>>
    BY ONLY <2>1, <2>2, ConcatFacts
  <2>5. \A e \in Range(s) : e \in Range(h \o s)
    BY <2>4 DEF Range
  <2>6. h \o s \in Seq(Entries) /\ h \o s # <<>> /\ (h \o s)[1] = NoElement
    BY <2>2, <2>4
  <2> HIDE DEF ss
  <2> QED
    BY <2>3, <2>5, <2>6 DEF s
<1>3. Lines = FlattenSeq(ss)
  BY DEF Lines
<1>4. ss \in Seq(Seq(Entries)) /\ DOMAIN ss = 1 .. n
  <2> DEFINE T == Seq(Entries)
  <2>1. ss \in [1 .. n -> T]
    BY <1>1, <1>2
  <2> HIDE DEF T, ss
  <2>2. ss \in Seq(T)
    BY <1>1, <2>1
  <2> QED
    BY <1>1, <2>1, <2>2 DEF T
<1> HIDE DEF ss
<1>5. /\ Lines \in Seq(Entries)
      /\ \A i \in DOMAIN ss : \A j \in DOMAIN ss[i] : \E k \in DOMAIN Lines : Lines[k] = ss[i][j]
      /\ ss # <<>> /\ ss[1] # <<>> => Lines # <<>> /\ Lines[1] = ss[1][1]
  <2>1. FlattenSeq(ss) \in Seq(Entries)
    BY <1>4, FlattenFacts
  <2>2. \A i \in DOMAIN ss : \A j \in DOMAIN ss[i] :
          \E k \in DOMAIN FlattenSeq(ss) : FlattenSeq(ss)[k] = ss[i][j]
    BY <1>4, FlattenFacts
  <2>3. ss # <<>> /\ ss[1] # <<>> => FlattenSeq(ss) # <<>> /\ FlattenSeq(ss)[1] = ss[1][1]
    BY <1>4, FlattenFacts
  <2> QED
    BY <1>3, <2>1, <2>2, <2>3
<1>6. Len(Lines) \in Nat /\ DOMAIN Lines = 1 .. Len(Lines)
  BY <1>5, LenProperties
<1>7. group_list # <<>> => Len(Lines) >= 1 /\ Lines[1] = NoElement
  <2> SUFFICES ASSUME group_list # <<>> PROVE Len(Lines) >= 1 /\ Lines[1] = NoElement
    OBVIOUS
  <2>1. 1 \in 1 .. n
    BY <1>1, EmptySeq DEF Forested
  <2>2. ss # <<>>
    BY <1>4, <2>1
  <2> QED
    BY <1>2, <1>5, <1>6, <2>1, <2>2, EmptySeq
<1>8. ASSUME NEW g \in Listed, NEW e \in Range(order[g]) PROVE e \in Range(Lines)
  <2>1. PICK i \in 1 .. n : group_list[i] = g
    BY <1>1 DEF Listed, Range
  <2>2. e \in Range(ss[i])
    BY <1>2, <2>1
  <2> QED
    <3>1. PICK j \in DOMAIN ss[i] : e = ss[i][j]
      BY <2>2 DEF Range
    <3>2. PICK k \in DOMAIN Lines : Lines[k] = e
      BY <1>4, <1>5, <3>1
    <3> QED
      BY <3>2 DEF Range
<1> QED
  BY <1>5, <1>6, <1>7, <1>8

-----------------------------------------------------------------------------
(***************************************************************************)
(* The budget of lines.                                                     *)
(***************************************************************************)
Requested(e, scr) == ListReq + GraphReq(e, scr) + DetailsReq(e, scr) + InfoReq(e, scr)

\* Rounding up.
LEMMA CeilNat ==
  ASSUME NEW n \in Nat, NEW m \in Nat \ {0}
  PROVE  Ceil(n, m) \in Nat
<1>1. n + m - 1 \in Nat
  OBVIOUS
<1> QED
  BY <1>1 DEF Ceil

\* The columns of the details and of the information are at least one.
LEMMA DetailColsPositive ==
  ASSUME NEW scr, Size(scr)
  PROVE  DetailCols(scr) \in Nat \ {0}
<1> DEFINE q == scr.cols \div 40
<1>1. q \in Nat
  BY DEF Size
<1>2. Max({1, q}) = IF 1 >= q THEN 1 ELSE q
  <2>1. 1 \in Int /\ q \in Int
    BY <1>1
  <2> HIDE DEF q
  <2> QED
    BY <2>1, MinMaxOfTwo
<1> HIDE DEF q
<1>3. Max({1, q}) \in Nat \ {0}
  BY <1>1, <1>2
<1> QED
  BY <1>3 DEF DetailCols, q

\* Graphs side by side halve the rows.
LEMMA NgraphNat ==
  ASSUME TypeOK, NEW e \in Elements
  PROVE  Ngraph(e) \in Nat
<1>1. Len(Attrs[e]) \in Int /\ c_ngraph \in Int /\ Len(Attrs[e]) \in Nat /\ c_ngraph \in Nat
  BY AttrsFacts DEF TypeOK
<1>2. Min({Len(Attrs[e]), c_ngraph}) \in Nat
  BY <1>1, MinMaxOfTwo
<1> QED
  BY <1>2 DEF Ngraph

\* What the sections ask for are numbers, and a section asks for a line at least,
\* but for the list of a program without groups.
LEMMA RequestsOK ==
  ASSUME TypeOK, NEW e \in Elements, NEW scr, Size(scr)
  PROVE  /\ ListReq \in Nat
         /\ GraphReq(e, scr) \in Nat \ {0}
         /\ DetailsReq(e, scr) \in Nat \ {0}
         /\ InfoReq(e, scr) \in Nat \ {0}
         /\ Available(scr) \in Int
<1>1. ListReq \in Nat
  BY LinesFacts DEF TypeOK, ListReq
<1>2. GraphReq(e, scr) \in Nat \ {0}
  <2> DEFINE a == Ngraph(e)
             b == IF SideBySide(scr) THEN 1 ELSE 2
  <2>1. a \in Nat /\ b \in Nat
    BY NgraphNat
  <2>2. TableLines \in Nat
    BY DEF TypeOK, TableLines
  <2>3. GraphReq(e, scr) = a * b * TableLines + 1
    BY DEF GraphReq
  <2> HIDE DEF a, b
  <2>4. a * b \in Nat
    BY <2>1
  <2>5. (a * b) * TableLines \in Nat
    BY <2>2, <2>4
  <2> QED
    BY <2>3, <2>5
<1>3. DetailsReq(e, scr) \in Nat \ {0}
  <2>1. Ceil(Len(Attrs[e]), DetailCols(scr)) \in Nat
    BY AttrsFacts, DetailColsPositive, CeilNat
  <2> QED
    BY <2>1 DEF DetailsReq
<1>4. InfoReq(e, scr) \in Nat \ {0}
  <2>1. Infos[e] \in Nat
    BY DisplayAssumption
  <2>2. Ceil(Infos[e], DetailCols(scr)) \in Nat
    BY <2>1, DetailColsPositive, CeilNat
  <2> QED
    BY <2>2 DEF InfoReq
<1>5. Available(scr) \in Int
  BY DEF Size, Available
<1> QED
  BY <1>1, <1>2, <1>3, <1>4, <1>5

\* How draw_content() cuts: everything fits; or a section is switched off, or
\* none, and the list gets what the others leave of the screen, at least
\* c_list_min lines.
LEMMA PlanCases ==
  ASSUME TypeOK, NEW e \in Elements, NEW scr, Size(scr)
  PROVE  /\ Plan(e, scr).len \in Int
         /\ Plan(e, scr).fits =>
              \/ /\ Requested(e, scr) <= Available(scr)
                 /\ Plan(e, scr).len = ListReq /\ Plan(e, scr).off = {}
              \/ /\ Plan(e, scr).len >= c_list_min
                 /\ \/ /\ Plan(e, scr).len = Available(scr) - (Requested(e, scr) - ListReq)
                       /\ Plan(e, scr).off = {} /\ "list" \in show
                    \/ /\ Plan(e, scr).len = Available(scr) - (Requested(e, scr) - InfoReq(e, scr) + 1)
                       /\ Plan(e, scr).off = {"info"}
                    \/ /\ Plan(e, scr).len = Available(scr) - (Requested(e, scr) - DetailsReq(e, scr) + 1)
                       /\ Plan(e, scr).off = {"details"}
                    \/ /\ Plan(e, scr).len = Available(scr) - 3
                       /\ Plan(e, scr).off = {"graph", "details", "info"}
<1> DEFINE total == Requested(e, scr)
           A == Available(scr)
           tries == Tries(e, scr)
           good == {i \in DOMAIN tries : tries[i].if /\ tries[i].len >= c_list_min}
           k == IF good = {} THEN 4 ELSE Min(good)
<1>1. /\ ListReq \in Nat /\ GraphReq(e, scr) \in Nat /\ DetailsReq(e, scr) \in Nat
      /\ InfoReq(e, scr) \in Nat /\ A \in Int
  BY RequestsOK
<1>2. total \in Nat
  BY <1>1 DEF Requested
<1>3. Plan(e, scr) = IF total <= A THEN [fits |-> TRUE, len |-> ListReq, off |-> {}]
                     ELSE [fits |-> good # {}, len |-> tries[k].len, off |-> tries[k].off]
  BY DEF Plan, Requested
<1>4. /\ DOMAIN tries = 1 .. 4
      /\ tries[1] = Try("list" \in show, A - (total - ListReq), {})
      /\ tries[2] = Try("info" \in show, A - (total - InfoReq(e, scr) + 1), {"info"})
      /\ tries[3] = Try("details" \in show, A - (total - DetailsReq(e, scr) + 1), {"details"})
      /\ tries[4] = Try(TRUE, A - 3, {"graph", "details", "info"})
  BY DEF Tries, Requested
<1> HIDE DEF A, total, tries
<1>5. good \subseteq 0 .. 4 /\ good \subseteq 1 .. 4
  BY <1>4
<1>6. good # {} => Min(good) \in good
  <2> HIDE DEF good
  <2> QED
    BY <1>5, MinIsLeast
<1>7. k \in 1 .. 4
  BY <1>5, <1>6
<1>8. good # {} => (tries[k].if /\ tries[k].len >= c_list_min)
  BY <1>6
<1> HIDE DEF good, k
<1>9. \A i \in 1 .. 4 : tries[i].len \in Int
  BY <1>1, <1>2, <1>4 DEF Try
<1>10. CASE total <= A
  <2>1. Plan(e, scr) = [fits |-> TRUE, len |-> ListReq, off |-> {}]
    BY <1>3, <1>10
  <2> QED
    BY <1>1, <1>10, <2>1 DEF A, total
<1>11. CASE ~(total <= A)
  <2> DEFINE some == good # {}
             r == [fits |-> some, len |-> tries[k].len, off |-> tries[k].off]
  <2>a. Plan(e, scr) = r
    BY <1>3, <1>11
  <2>b. r.fits = some /\ r.len = tries[k].len /\ r.off = tries[k].off
    BY Zenon
  <2> HIDE DEF r
  <2>1. /\ Plan(e, scr).fits => good # {}
        /\ Plan(e, scr).len = tries[k].len /\ Plan(e, scr).off = tries[k].off
    BY <2>a, <2>b
  <2>2. Plan(e, scr).len \in Int
    BY <1>7, <1>9, <2>1
  <2>3. Plan(e, scr).fits => Plan(e, scr).len >= c_list_min
    BY <1>8, <2>1
  <2>4. CASE k = 1
    <3>1. Try("list" \in show, A - (total - ListReq), {}).if = ("list" \in show)
      BY Zenon DEF Try
    <3>2. Plan(e, scr).fits => "list" \in show
      BY <1>4, <1>8, <2>1, <2>4, <3>1
    <3> QED
      BY <1>4, <2>1, <2>2, <2>3, <2>4, <3>2 DEF Try, A, total
  <2>5. CASE k = 2
    BY <1>4, <2>1, <2>2, <2>3, <2>5 DEF Try, A, total
  <2>6. CASE k = 3
    BY <1>4, <2>1, <2>2, <2>3, <2>6 DEF Try, A, total
  <2>7. CASE k = 4
    BY <1>4, <2>1, <2>2, <2>3, <2>7 DEF Try, A, total
  <2> QED
    BY <1>7, <2>4, <2>5, <2>6, <2>7
<1> QED
  BY <1>10, <1>11

-----------------------------------------------------------------------------
(***************************************************************************)
(* The type invariant.                                                      *)
(***************************************************************************)
\* What TypeOK says of the elements, and what it says of the rest.
SelectionOK == /\ Forested /\ GroupsListed /\ Forest!Selection \in Sels
               /\ e_current_attr \in [Elements -> Nat \cup {NoAttr, ListHead}]
               /\ \A e \in Elements : e_current_attr[e] \in AttrSels(Attrs[e])
DisplayOK == /\ show \subseteq Sections /\ c_ngraph \in Nat
             /\ c_list_min \in Nat \ {0} /\ gc_height \in Nat \ {0}
             /\ rows \in Nat /\ cols \in Nat /\ list_length \in Int

\* Where the elements stay and another selection is made, or the same, it has
\* to be a sound one.
LEMMA SelectOK ==
  ASSUME TypeOK, UNCHANGED <<forest, e_current_attr>>,
         NEW s \in Sels, Forest!SetSelection(s)
  PROVE  SelectionOK'
<1>1. Forested' /\ GroupsListed' /\ Sels' = Sels
  BY DEF TypeOK, forest, Forested, GroupsListed, Listed, Sels, Selectable
<1>2. Forest!Selection' = s
  <2>1. s = [group |-> s.group, cur |-> s.cur]
    BY DEF Sels
  <2> QED
    BY <2>1 DEF Forest!SetSelection, Forest!Selection
<1> QED
  BY <1>1, <1>2 DEF TypeOK, SelectionOK

\* Where nothing of it changes, the selection stays sound.
LEMMA KeepsSelection ==
  ASSUME TypeOK, UNCHANGED <<forest, selection, e_current_attr>>
  PROVE  SelectionOK'
<1>1. Forest!Selection \in Sels /\ Forest!SetSelection(Forest!Selection)
  BY DEF TypeOK, selection, Forest!SetSelection, Forest!Selection
<1> QED
  BY <1>1, SelectOK

\* The keys that only open or close dialogs and sections.
LEMMA DisplayKeysOK ==
  ASSUME TypeOK,
         \/ KeyQ \/ KeyEsc \/ KeyN \/ KeyHelp \/ KeyRedraw \/ KeyY
         \/ (\E section \in Sections : KeyToggle(section))
         \/ KeyNgraph \/ KeyTab \/ KeyCollectHistory \/ KeyReset
  PROVE  SelectionOK' /\ DisplayOK'
<1>1. ASSUME NEW quit, NEW help, KeyOnDialog(quit, help) PROVE SelectionOK' /\ DisplayOK'
  <2>1. SelectionOK'
    BY <1>1, KeepsSelection DEF KeyOnDialog
  <2>2. DisplayOK'
    BY <1>1 DEF KeyOnDialog, DisplayOK, TypeOK, options, drawn
  <2> QED
    BY <2>1, <2>2
<1>2. CASE KeyQ \/ KeyEsc \/ KeyN \/ KeyHelp \/ KeyRedraw
  BY <1>1, <1>2 DEF KeyQ, KeyEsc, KeyN, KeyHelp, KeyRedraw
<1>3. ASSUME Undefined PROVE SelectionOK' /\ DisplayOK'
  <2>1. SelectionOK'
    BY <1>3, KeepsSelection DEF Undefined
  <2>2. DisplayOK'
    BY <1>3 DEF Undefined, DisplayOK, TypeOK, options, toggles, drawn
  <2> QED
    BY <2>1, <2>2
<1>4. CASE KeyY
  <2>1. SelectionOK'
    BY <1>4, KeepsSelection DEF KeyY
  <2>2. DisplayOK'
    BY <1>4 DEF KeyY, DisplayOK, TypeOK, options, toggles, drawn
  <2> QED
    BY <2>1, <2>2
<1>5. ASSUME NEW section \in Sections, KeyToggle(section) PROVE SelectionOK' /\ DisplayOK'
  <2>1. SelectionOK'
    BY <1>5, KeepsSelection DEF KeyToggle
  <2>2. show' \subseteq Sections /\ c_ngraph' \in Nat
    BY <1>5 DEF KeyToggle, TypeOK
  <2>3. DisplayOK'
    BY <1>5, <2>2 DEF KeyToggle, DisplayOK, TypeOK, options, drawn
  <2> QED
    BY <2>1, <2>3
<1>6. CASE KeyNgraph
  <2>1. SelectionOK'
    BY <1>6, KeepsSelection DEF KeyNgraph
  <2>2. c_ngraph' \in Nat
    <3>1. 1 \in Int /\ c_ngraph - 1 \in Int /\ MaxGraphs \in Int /\ c_ngraph + 1 \in Int
      BY DisplayAssumption DEF TypeOK
    <3>2. Max({1, c_ngraph - 1}) = IF 1 >= c_ngraph - 1 THEN 1 ELSE c_ngraph - 1
      BY <3>1, MinMaxOfTwo
    <3>3. Min({MaxGraphs, c_ngraph + 1}) = IF MaxGraphs <= c_ngraph + 1 THEN MaxGraphs
                                           ELSE c_ngraph + 1
      BY <3>1, MinMaxOfTwo
    <3>4. Max({1, c_ngraph - 1}) \in Nat
      BY <3>1, <3>2
    <3>5. Min({MaxGraphs, c_ngraph + 1}) \in Nat
      BY <3>3, DisplayAssumption DEF TypeOK
    <3> QED
      BY <1>6, <3>4, <3>5 DEF KeyNgraph
  <2>3. DisplayOK'
    BY <1>6, <2>2 DEF KeyNgraph, DisplayOK, TypeOK, options, drawn
  <2> QED
    BY <2>1, <2>3
<1>7. CASE KeyTab
  <2>1. SelectionOK'
    BY <1>7, KeepsSelection DEF KeyTab
  <2>2. DisplayOK'
    BY <1>7 DEF KeyTab, DisplayOK, TypeOK, options, toggles, drawn
  <2> QED
    BY <2>1, <2>2
<1>8. CASE KeyCollectHistory \/ KeyReset
  BY <1>2, <1>3, <1>8 DEF KeyCollectHistory, KeyReset
<1> QED
  BY <1>2, <1>4, <1>5, <1>6, <1>7, <1>8

\* The keys that select an element.
LEMMA SelectKeysOK ==
  ASSUME TypeOK, KeyPageDown \/ KeyPageUp \/ KeySelect
  PROVE  SelectionOK' /\ DisplayOK'
<1> USE DEF TypeOK
<1>1. CASE group_list = <<>>
  <2>1. KeyRedraw
    BY <1>1 DEF KeyPageDown, KeyPageUp, KeySelect
  <2> QED
    BY <2>1, DisplayKeysOK
<1>2. CASE group_list # <<>>
  <2> DEFINE sel == Forest!Selection
  <2>1. list_length - 1 \in Int
    OBVIOUS
  <2>2. /\ Page(list_length - 1, LAMBDA t : Forest!SelectNext(t)) \subseteq Sels
        /\ Page(list_length - 1, LAMBDA t : Forest!SelectPrev(t)) \subseteq Sels
    BY <1>2, <2>1, PageDownOK, PageUpOK
  <2>3. Forest!SelectNext(sel) \in Sels /\ Forest!SelectPrev(sel) \in Sels
    BY <1>2, SelectStepsOK
  <2>4. Forest!MoveToGroupNext(sel) \in Sels /\ Forest!MoveToGroupPrev(sel) \in Sels
    <3>1. sel.group \in Listed \cup {NoGroup}
      BY <1>2, CurrentGroup
    <3>2. Forest!GroupSelectNext(sel.group) \in Listed /\ Forest!GroupSelectPrev(sel.group) \in Listed
      BY <1>2, <3>1, GroupSteps
    <3> QED
      BY <3>2, MoveOK DEF Forest!MoveToGroupNext, Forest!MoveToGroupPrev
  <2>5. PICK s \in Sels : Select(s)
    <3>1. CASE KeyPageDown
      BY <1>2, <2>2, <3>1 DEF KeyPageDown
    <3>2. CASE KeyPageUp
      BY <1>2, <2>2, <3>2 DEF KeyPageUp
    <3>3. CASE KeySelect
      BY <1>2, <2>3, <2>4, <3>3 DEF KeySelect
    <3> QED
      BY <3>1, <3>2, <3>3
  <2>6. SelectionOK'
    BY <2>5, SelectOK DEF Select, forest
  <2>7. DisplayOK'
    BY <2>5 DEF Select, DisplayOK, options, toggles, drawn
  <2> QED
    BY <2>6, <2>7
<1> QED
  BY <1>1, <1>2

\* The selection that attr_select_next() and draw_content() work with.
Shown == IF group_list = <<>> THEN Forest!Selection ELSE Forest!ElementCurrent(Forest!Selection)

LEMMA ShownOK ==
  ASSUME TypeOK
  PROVE  /\ Shown \in Sels
         /\ Current(Shown) = NoElement \/ (Current(Shown) \in Elements /\ Current(Shown) \in Live)
<1>1. CASE group_list = <<>>
  BY <1>1 DEF Shown, TypeOK, Current
<1>2. CASE group_list # <<>>
  <2> DEFINE g == Forest!GroupCurrent(Shown.group)
  <2>1. Shown \in Sels
    BY <1>2, ElementCurrentOK DEF Shown, TypeOK
  <2>2. g \in Groups
    BY <1>2, <2>1, CurrentGroup DEF TypeOK
  <2>3. Shown.cur[g] \in Selectable(g) /\ Shown.cur[g] \in Entries
    BY <2>1, <2>2 DEF Sels, Entries
  <2> QED
    BY <1>2, <2>1, <2>2, <2>3 DEF Current, Selectable, Entries, Live
<1> QED
  BY <1>1, <1>2

\* Where a sound selection is made and one element gets another attribute of its
\* own, all stays sound.
LEMMA AttrChange ==
  ASSUME TypeOK, UNCHANGED forest, NEW s \in Sels, Forest!SetSelection(s),
         NEW e \in Elements, NEW a \in AttrSels(Attrs[e]),
         e_current_attr' = [e_current_attr EXCEPT ![e] = a]
  PROVE  SelectionOK'
<1>1. Forested' /\ GroupsListed' /\ Sels' = Sels
  BY DEF TypeOK, forest, Forested, GroupsListed, Listed, Sels, Selectable
<1>2. Forest!Selection' = s
  <2>1. s = [group |-> s.group, cur |-> s.cur]
    BY DEF Sels
  <2> QED
    BY <2>1 DEF Forest!SetSelection, Forest!Selection
<1>3. a \in Nat \cup {NoAttr, ListHead}
  <2>1. Range(Attrs[e]) \subseteq Nat
    BY AttrsFacts, ElementOfSeq DEF Range
  <2> QED
    BY <2>1 DEF AttrSels
<1>4. /\ e_current_attr' \in [Elements -> Nat \cup {NoAttr, ListHead}]
      /\ e_current_attr'[e] = a
      /\ \A d \in Elements : d # e => e_current_attr'[d] = e_current_attr[d]
  BY <1>3 DEF TypeOK
<1>5. \A d \in Elements : e_current_attr'[d] \in AttrSels(Attrs[d])
  BY <1>4 DEF TypeOK
<1>7. Attrs' = Attrs
  BY DEF Attrs
<1> QED
  BY <1>1, <1>2, <1>4, <1>5, <1>7 DEF SelectionOK

\* The key for the attributes leaves an attribute of its element, or none.
LEMMA KeyAttrOK ==
  ASSUME TypeOK, KeyAttr
  PROVE  SelectionOK' /\ DisplayOK'
<1> DEFINE e == Current(Shown)
<1>1. Shown \in Sels /\ (e = NoElement \/ e \in Elements)
  BY ShownOK
<1>2. /\ UNCHANGED <<forest, options, toggles, drawn>>
      /\ Forest!SetSelection(Shown)
      /\ IF e = NoElement THEN UNCHANGED e_current_attr
         ELSE \E a \in {AttrNext(Attrs[e], e_current_attr[e]),
                        AttrPrev(Attrs[e], e_current_attr[e])} :
                e_current_attr' = [e_current_attr EXCEPT ![e] = a]
  BY DEF KeyAttr, Shown
<1>3. DisplayOK'
  BY <1>2 DEF TypeOK, DisplayOK, options, toggles, drawn
<1> HIDE DEF e
<1>4. CASE e = NoElement
  BY <1>1, <1>2, <1>3, <1>4, SelectOK
<1>5. CASE e # NoElement
  <2>1. e \in Elements
    BY <1>1, <1>5
  <2>2. PICK a \in {AttrNext(Attrs[e], e_current_attr[e]), AttrPrev(Attrs[e], e_current_attr[e])} :
          e_current_attr' = [e_current_attr EXCEPT ![e] = a]
    BY <1>2, <1>5
  <2>3. a \in AttrSels(Attrs[e])
    <3>1. e_current_attr[e] \in AttrSels(Attrs[e]) /\ Attrs[e] \in Seq(Nat)
      BY <2>1, AttrsFacts DEF TypeOK
    <3> QED
      BY <3>1, <2>2, AttrStepsOK
  <2>4. SelectionOK'
    BY <1>1, <1>2, <2>1, <2>2, <2>3, AttrChange
  <2> QED
    BY <1>3, <2>4
<1> QED
  BY <1>4, <1>5

\* A reading leaves a forest, and a selection in it.
LEMMA ReadingOK ==
  ASSUME TypeOK, Reading
  PROVE  SelectionOK' /\ DisplayOK'
<1>1. order' \in [Groups -> Seq(Elements)]
  BY ForestAssumption DEF Reading
<1>2. PICK more \in {<<>>} \cup {<<g>> : g \in Groups \ Range(group_list)} :
        group_list' = group_list \o more
  BY DEF Reading
<1>3. /\ group_list' \in Seq(Groups)
      /\ Listed \subseteq Listed'
  <2>1. more \in Seq(Groups)
    <3>1. CASE more = <<>>
      BY <3>1
    <3>2. CASE more # <<>>
      <4>1. PICK g \in Groups : more = <<g>>
        BY <1>2, <3>2
      <4> QED
        BY <4>1
    <3> QED
      BY <3>1, <3>2
  <2>2. group_list \in Seq(Groups)
    BY DEF TypeOK, Forested
  <2>3. /\ group_list' \in Seq(Groups)
        /\ \A j \in DOMAIN group_list : j \in DOMAIN group_list' /\ group_list'[j] = group_list[j]
    BY <1>2, <2>1, <2>2, ConcatFacts
  <2> QED
    BY <2>3 DEF Listed, Range
<1>4. Forested' /\ GroupsListed'
  BY <1>1, <1>3 DEF Forested, GroupsListed, Listed, Reading
<1>5. Forest!Selection' \in Sels'
  <2>1. CASE order' = order
    <3>1. UNCHANGED selection
      BY <2>1 DEF Reading
    <3> QED
      BY <1>3, <2>1, <3>1 DEF TypeOK, Sels, Selectable, selection, Forest!Selection
  <2>2. CASE order' # order
    <3>1. PICK cur \in [Groups -> Elements \cup {NoElement}] :
            /\ \A g \in Groups : cur[g] \in Range(order'[g]) \cup {NoElement}
            /\ g_current' = cur
      BY <2>2 DEF Reading
    <3>2. current_group' \in Listed' \cup {NoGroup}
      <4>1. current_group \in Listed \cup {NoGroup}
        BY DEF TypeOK, Sels, Forest!Selection
      <4>2. current_group' \in Listed' \cup {current_group}
        BY <2>2 DEF Reading, Listed
      <4> QED
        BY <1>3, <4>1, <4>2
    <3> QED
      BY <3>1, <3>2 DEF Sels, Selectable, Forest!Selection
  <2> QED
    BY <2>1, <2>2
<1>6. /\ e_current_attr' \in [Elements -> Nat \cup {NoAttr, ListHead}]
      /\ \A e \in Elements : e_current_attr'[e] \in AttrSels(Attrs[e])
  BY DEF Reading, TypeOK, AttrSels
<1>7. Attrs' = Attrs
  BY DEF Attrs
<1>8. DisplayOK'
  BY DEF Reading, TypeOK, DisplayOK, options, toggles, drawn
<1> QED
  BY <1>4, <1>5, <1>6, <1>7, <1>8 DEF SelectionOK

\* Drawing takes the sizes of the screen, the length of the list and an attribute
\* that is selected.
LEMMA DrawOK ==
  ASSUME TypeOK, NEW scr \in Screens, Draw(scr)
  PROVE  SelectionOK' /\ DisplayOK'
<1>1. Size(scr)
  BY ScreenAssumption DEF Size
<1>2. CASE IsSmall(scr)
  <2>1. UNCHANGED <<forest, selection, e_current_attr, options, toggles, list_length>>
    BY <1>2 DEF Draw
  <2>2. rows' = scr.rows /\ cols' = scr.cols
    BY DEF Draw
  <2> QED
    BY <1>1, <2>1, <2>2, KeepsSelection DEF TypeOK, DisplayOK, options, toggles, Size
<1>3. CASE ~IsSmall(scr)
  <2> DEFINE e == Current(Shown)
             a == AttrCurrent(Attrs[e], e_current_attr[e])
  <2>1. Shown \in Sels /\ (e = NoElement \/ e \in Elements)
    BY ShownOK
  <2>2. /\ UNCHANGED <<forest, options, toggles>>
        /\ Forest!SetSelection(Shown)
        /\ rows' = scr.rows /\ cols' = scr.cols
        /\ e_current_attr' = IF e = NoElement THEN e_current_attr
                             ELSE [e_current_attr EXCEPT ![e] = a]
        /\ list_length' = IF e = NoElement THEN list_length ELSE Plan(e, scr).len
    BY <1>3 DEF Draw, Shown
  <2> HIDE DEF e
  <2>3. DisplayOK'
    <3>1. list_length' \in Int
      BY <1>1, <2>1, <2>2, PlanCases DEF TypeOK
    <3> QED
      BY <1>1, <2>2, <3>1 DEF TypeOK, DisplayOK, options, toggles, Size
  <2>4. CASE e = NoElement
    <3>1. UNCHANGED <<forest, e_current_attr>>
      BY <2>2, <2>4
    <3> QED
      BY <2>1, <2>2, <2>3, <3>1, SelectOK
  <2>5. CASE e # NoElement
    <3>1. e \in Elements
      BY <2>1, <2>5
    <3>2. a \in AttrSels(Attrs[e])
      <4>1. e_current_attr[e] \in AttrSels(Attrs[e]) /\ Attrs[e] \in Seq(Nat)
        BY <3>1, AttrsFacts DEF TypeOK
      <4> QED
        BY <4>1, AttrStepsOK
    <3> HIDE DEF a
    <3>3. e_current_attr' = [e_current_attr EXCEPT ![e] = a]
      BY <2>2, <2>5
    <3>4. SelectionOK'
      BY <2>1, <2>2, <3>1, <3>2, <3>3, AttrChange
    <3> QED
      BY <2>3, <3>4
  <2> QED
    BY <2>4, <2>5
<1> QED
  BY <1>2, <1>3

\* The state of the program stays sound.
LEMMA TypeStep == TypeOK /\ [Next]_vars => TypeOK'
<1> SUFFICES ASSUME TypeOK, [Next]_vars PROVE SelectionOK' /\ DisplayOK'
  BY DEF TypeOK, SelectionOK, DisplayOK
<1>1. CASE \/ KeyQ \/ KeyEsc \/ KeyN \/ KeyHelp \/ KeyRedraw \/ KeyY
           \/ (\E section \in Sections : KeyToggle(section))
           \/ KeyNgraph \/ KeyTab \/ KeyCollectHistory \/ KeyReset
  BY <1>1, DisplayKeysOK
<1>2. CASE KeyPageDown \/ KeyPageUp \/ KeySelect
  BY <1>2, SelectKeysOK
<1>3. CASE KeyAttr
  BY <1>3, KeyAttrOK
<1>4. CASE Reading
  BY <1>4, ReadingOK
<1>5. ASSUME NEW screen \in Screens, Draw(screen) PROVE SelectionOK' /\ DisplayOK'
  BY <1>5, DrawOK
<1>6. CASE UNCHANGED vars
  <2>1. SelectionOK'
    BY <1>6, KeepsSelection DEF vars
  <2>2. DisplayOK'
    BY <1>6 DEF vars, TypeOK, DisplayOK, options, toggles, drawn
  <2> QED
    BY <2>1, <2>2
<1> QED
  BY <1>1, <1>2, <1>3, <1>4, <1>5, <1>6 DEF Next, Keys

\* The program starts sound.
LEMMA TypeInit == Init => TypeOK
<1> SUFFICES ASSUME Init PROVE TypeOK
  OBVIOUS
<1>1. Forested /\ GroupsListed
  BY DEF Init, Forested, GroupsListed
<1>2. Forest!Selection \in Sels
  BY DEF Init, Sels, Selectable, Forest!Selection
<1>3. /\ e_current_attr \in [Elements -> Nat \cup {NoAttr, ListHead}]
      /\ \A e \in Elements : e_current_attr[e] \in AttrSels(Attrs[e])
  BY DEF Init, AttrSels
<1>4. show \subseteq Sections /\ c_ngraph \in Nat
  BY DEF Init
<1>5. c_list_min \in Nat \ {0} /\ gc_height \in Nat \ {0}
  BY ScreenAssumption DEF Init
<1>6. rows \in Nat /\ cols \in Nat /\ list_length \in Int
  BY DEF Init
<1> QED
  BY <1>1, <1>2, <1>3, <1>4, <1>5, <1>6 DEF TypeOK

-----------------------------------------------------------------------------
(***************************************************************************)
(* What a key acts on.                                                      *)
(***************************************************************************)
IInv == TypeOK /\ CachedIsCurrent

\* Only drawing leads back to the keys, and it remembers the selection that it
\* leaves.
LEMMA CachedStep == IInv /\ [Next]_vars => CachedIsCurrent'
<1> SUFFICES ASSUME TypeOK, CachedIsCurrent, [Next]_vars, pc' = "keys", ~IsSmall(Screen)'
             PROVE  /\ current_element' = Current(Forest!Selection)'
                    /\ current_element' \in Live' \cup {NoElement}
                    /\ current_element' # NoElement => current_attr' = e_current_attr'[current_element']
  BY DEF IInv, CachedIsCurrent
<1>1. CASE UNCHANGED vars
  <2>1. pc = "keys" /\ ~IsSmall(Screen)
    BY <1>1 DEF vars, drawn, Screen, IsSmall
  <2>2. Current(Forest!Selection)' = Current(Forest!Selection) /\ Live' = Live
    BY <1>1 DEF vars, forest, selection, Current, Forest!Selection, Forest!GroupCurrent,
                Forest!FirstOf, Live
  <2> QED
    BY <1>1, <2>1, <2>2 DEF CachedIsCurrent, vars, drawn
<1>2. CASE Keys
  <2>1. pc' # "keys"
    BY <1>2 DEF Keys, KeyQ, KeyEsc, KeyN, KeyHelp, KeyRedraw, KeyOnDialog, KeyY, KeyToggle,
                KeyNgraph, KeyTab, KeyPageDown, KeyPageUp, KeySelect, Select, KeyAttr,
                KeyCollectHistory, KeyReset, Undefined, Handled
  <2> QED
    BY <2>1
<1>3. CASE Reading
  BY <1>3 DEF Reading
<1>4. ASSUME NEW scr \in Screens, Draw(scr)
      PROVE  /\ current_element' = Current(Forest!Selection)'
             /\ current_element' \in Live' \cup {NoElement}
             /\ current_element' # NoElement => current_attr' = e_current_attr'[current_element']
  <2> DEFINE e == Current(Shown)
             a == AttrCurrent(Attrs[e], e_current_attr[e])
  <2>1. ~IsSmall(scr)
    BY <1>4 DEF Draw, IsSmall, Screen
  <2>2. /\ UNCHANGED forest
        /\ Forest!SetSelection(Shown)
        /\ current_element' = e
        /\ current_attr' = IF e = NoElement THEN NoAttr ELSE a
        /\ e_current_attr' = IF e = NoElement THEN e_current_attr
                             ELSE [e_current_attr EXCEPT ![e] = a]
    BY <1>4, <2>1 DEF Draw, Shown
  <2>3. Shown \in Sels /\ (e = NoElement \/ (e \in Elements /\ e \in Live))
    BY ShownOK
  <2>4. Forest!Selection' = Shown
    <3>1. Shown = [group |-> Shown.group, cur |-> Shown.cur]
      BY <2>3 DEF Sels
    <3> QED
      BY <2>2, <3>1 DEF Forest!SetSelection, Forest!Selection
  <2>5. Current(Forest!Selection)' = e
    <3> HIDE DEF Shown
    <3> QED
      BY <2>2, <2>4 DEF Current, forest, Forest!GroupCurrent, Forest!FirstOf
  <2>6. Live' = Live
    BY <2>2 DEF Live, forest
  <2> HIDE DEF e, a
  <2>7. e # NoElement => e_current_attr'[e] = a
    BY <2>2, <2>3 DEF TypeOK
  <2> QED
    BY <2>2, <2>3, <2>5, <2>6, <2>7
<1> QED
  BY <1>1, <1>2, <1>3, <1>4 DEF Next

\* A key acts on what the user sees: between the drawing of a screen and the next
\* key the remembered element is the selected one, and alive.
THEOREM CachedAlwaysCurrent == Spec => [](TypeOK /\ CachedIsCurrent)
<1>1. Init => IInv
  <2>1. Init => CachedIsCurrent
    BY DEF Init, CachedIsCurrent, IsSmall, Screen
  <2> QED
    BY <2>1, TypeInit DEF IInv
<1>2. IInv /\ [Next]_vars => IInv'
  BY TypeStep, CachedStep DEF IInv
<1> QED
  BY <1>1, <1>2, PTL DEF Spec, IInv

-----------------------------------------------------------------------------
(***************************************************************************)
(* What is on the screen, in any state with the invariant.                   *)
(***************************************************************************)
\* What is drawn is an element of the list, on a screen with lines for it.
LEMMA OnScreenFacts ==
  ASSUME IInv, OnScreen
  PROVE  /\ current_element \in Elements /\ current_element \in Range(Lines)
         /\ Size(Screen) /\ Available(Screen) \in Nat
<1> DEFINE e == current_element
<1>1. e \in Live
  BY DEF IInv, OnScreen, CachedIsCurrent
<1>2. PICK g \in Groups : e \in Range(order[g])
  BY <1>1 DEF Live
<1>3. order[g] \in Seq(Elements) /\ Forested
  BY DEF IInv, TypeOK, Forested
<1>4. order[g] # <<>> /\ e \in Elements
  BY <1>2, <1>3, ElementOfSeq, EmptySeq DEF Range
<1>5. g \in Listed
  BY <1>4 DEF IInv, TypeOK, GroupsListed
<1>6. e \in Range(Lines)
  BY <1>2, <1>3, <1>5, LinesFacts
<1>7. Size(Screen) /\ Available(Screen) \in Nat
  BY DEF IInv, TypeOK, OnScreen, IsSmall, Screen, Size, Available
<1> QED
  BY <1>4, <1>6, <1>7

\* Below the title of its group, in the lines of the list.
LEMMA SelectionOffsetFacts ==
  ASSUME TypeOK, "list" \in show, NEW e \in Elements, e \in Range(Lines)
  PROVE  /\ SelectionOffset(e) \in 1 .. ListReq - 1
         /\ ListReq = Len(Lines) /\ ListReq \in Nat
         /\ SelectionOffset(e) + 1 \in DOMAIN Lines
         /\ Lines[SelectionOffset(e) + 1] = e
<1> DEFINE i == Min({j \in DOMAIN Lines : Lines[j] = e})
<1>1. /\ Lines \in Seq(Entries) /\ Len(Lines) \in Nat /\ DOMAIN Lines = 1 .. Len(Lines)
      /\ group_list # <<>> => Lines[1] = NoElement
  BY LinesFacts DEF TypeOK
<1>2. i \in DOMAIN Lines /\ Lines[i] = e
  BY <1>1, PlaceOf
<1>3. group_list # <<>>
  <2> SUFFICES ASSUME group_list = <<>> PROVE FALSE
    OBVIOUS
  <2>1. Lines = <<>>
    BY DEF Lines, FlattenSeq
  <2> QED
    BY <1>1, <1>2, <2>1
<1>4. SelectionOffset(e) = i - 1 /\ ListReq = Len(Lines)
  BY DEF SelectionOffset, ListReq
<1> HIDE DEF i
<1>5. i # 1
  BY <1>1, <1>2, <1>3, ForestAssumption
<1> QED
  BY <1>1, <1>2, <1>4, <1>5

\* The first line of the list on the screen.
LEMMA OffsetIs ==
  ASSUME TypeOK, "list" \in show, NEW e \in Elements, e \in Range(Lines),
         NEW len \in Nat \ {0}
  PROVE  LET upper == SelectionOffset(e) - (len \div 2)
             wish == IF upper >= 0 THEN upper ELSE 0
             last == ListReq - len
         IN  Offset(e, len) = IF wish <= last THEN wish ELSE last
<1> DEFINE upper == SelectionOffset(e) - (len \div 2)
           last == ListReq - len
           wish == IF upper >= 0 THEN upper ELSE 0
<1>1. SelectionOffset(e) \in 1 .. ListReq - 1 /\ ListReq \in Nat
  BY SelectionOffsetFacts
<1>2. upper \in Int /\ last \in Int /\ 0 \in Int
  BY <1>1
<1>3. Offset(e, len) = Min({Max({upper, 0}), last})
  BY <1>1 DEF Offset
<1> HIDE DEF upper, last
<1>4. Max({upper, 0}) = wish
  BY <1>2, MinMaxOfTwo
<1>5. wish \in Int
  BY <1>2
<1> HIDE DEF wish
<1>6. Min({wish, last}) = IF wish <= last THEN wish ELSE last
  BY <1>2, <1>5, MinMaxOfTwo
<1> QED
  BY <1>3, <1>4, <1>6 DEF upper, last, wish

\* The selected element is on the list, and not in its first line.
LEMMA InvMarks == IInv => SelectedIsMarked
<1> DEFINE e == current_element
           len == Plan(e, Screen).len
           i == SelectionOffset(e) + 1
           o == Offset(e, len)
<1> SUFFICES ASSUME IInv, OnScreen, Drawn("list", e, Screen), c_list_min > 1
             PROVE  \E k \in DOMAIN Lines : /\ Lines[k] = e
                                            /\ LineVisible(k, e, len)
                                            /\ k - 1 # o
  BY DEF SelectedIsMarked
<1>1. /\ TypeOK /\ e \in Elements /\ e \in Range(Lines) /\ "list" \in show
      /\ Size(Screen) /\ Available(Screen) \in Nat
  BY OnScreenFacts DEF IInv, Drawn
<1>2. /\ SelectionOffset(e) \in 1 .. ListReq - 1 /\ ListReq \in Nat
      /\ i \in DOMAIN Lines /\ Lines[i] = e
  BY <1>1, SelectionOffsetFacts
<1>3. len \in Int /\ c_list_min \in Nat /\ (len = ListReq \/ len >= c_list_min)
  <2>1. Plan(e, Screen).fits
    BY DEF OnScreen
  <2> QED
    BY <1>1, <2>1, PlanCases DEF TypeOK
<1> HIDE DEF e, len
<1>4. len \in Nat \ {0} /\ len >= 2
  BY <1>2, <1>3
<1>5. o <= SelectionOffset(e) /\ o # SelectionOffset(e) /\ SelectionOffset(e) < o + len
  <2> DEFINE x == SelectionOffset(e)
             half == len \div 2
  <2>1. half \in Nat /\ half >= 1 /\ half < len
    BY <1>4
  <2>2. o = LET upper == x - half
                wish == IF upper >= 0 THEN upper ELSE 0
                last == ListReq - len
            IN  IF wish <= last THEN wish ELSE last
    BY <1>1, <1>4, OffsetIs
  <2>3. x \in 1 .. ListReq - 1
    BY <1>2
  <2>4. len = ListReq \/ len # ListReq
    OBVIOUS
  <2> HIDE DEF x, half, o
  <2>5. o <= x /\ o # x /\ x < o + len
    BY <1>2, <1>4, <2>1, <2>2, <2>3
  <2> QED
    BY <2>5 DEF x, o
<1>6. LineVisible(i, e, len) /\ i - 1 # o
  BY <1>2, <1>5 DEF LineVisible
<1> QED
  BY <1>2, <1>6

\* However short the list is cut, the selected element is on it, with its arrow.
THEOREM SelectionAlwaysMarked == Spec => []SelectedIsMarked
BY CachedAlwaysCurrent, InvMarks, PTL DEF IInv

\* Of the entries of a list, no more are seen through a window of n lines than n.
LEMMA Window ==
  ASSUME NEW k \in Nat, NEW a \in Int, NEW n \in Nat,
         NEW T, T = {i \in 1 .. k : a <= i - 1 /\ i - 1 < a + n}
  PROVE  Cardinality(T) \in Nat /\ Cardinality(T) <= n /\ Cardinality(T) <= k
<1>1. IsFiniteSet(1 .. k) /\ Cardinality(1 .. k) = k
  BY FS_Interval
<1>2. IsFiniteSet(a + 1 .. a + n) /\ Cardinality(a + 1 .. a + n) = n
  <2>1. a + 1 \in Int /\ a + n \in Int
    OBVIOUS
  <2>2. IsFiniteSet(a + 1 .. a + n)
    BY <2>1, FS_Interval
  <2>3. Cardinality(a + 1 .. a + n) = IF a + 1 > a + n THEN 0 ELSE (a + n) - (a + 1) + 1
    BY <2>1, FS_Interval
  <2> QED
    BY <2>2, <2>3
<1>3. T \subseteq 1 .. k /\ T \subseteq a + 1 .. a + n
  OBVIOUS
<1>4. Cardinality(T) <= k /\ IsFiniteSet(T)
  BY <1>1, <1>3, FS_Subset
<1>5. Cardinality(T) <= n
  BY <1>2, <1>3, FS_Subset
<1> QED
  BY <1>4, <1>5, FS_CardinalityType

\* The list takes no more lines than it is given and no more than it has.
LEMMA ListRowsOK ==
  ASSUME TypeOK, NEW e \in Elements, e \in Range(Lines), NEW scr, Size(scr),
         "list" \in show => Plan(e, scr).len \in Nat \ {0}
  PROVE  /\ ListRows(e, scr) \in Nat
         /\ "list" \in show => ListRows(e, scr) <= ListReq /\ ListRows(e, scr) <= Plan(e, scr).len
         /\ "list" \notin show => ListRows(e, scr) = 1 /\ ListReq = 1
<1> DEFINE len == Plan(e, scr).len
           T == {i \in DOMAIN Lines : LineVisible(i, e, len)}
<1>1. CASE "list" \notin show
  BY <1>1 DEF ListRows, Drawn, ListReq
<1>2. CASE "list" \in show
  <2>1. /\ SelectionOffset(e) \in 1 .. ListReq - 1 /\ ListReq = Len(Lines) /\ ListReq \in Nat
        /\ DOMAIN Lines = 1 .. ListReq
    BY <1>2, SelectionOffsetFacts, LinesFacts DEF TypeOK
  <2>2. "list" \notin Plan(e, scr).off => ListRows(e, scr) = Cardinality(T)
    BY <1>2 DEF ListRows, Drawn
  <2>3. "list" \in Plan(e, scr).off => ListRows(e, scr) = 1
    BY <1>2 DEF ListRows, Drawn
  <2>4. len \in Nat \ {0}
    BY <1>2
  <2> HIDE DEF len
  <2>5. Offset(e, len) \in Int
    <3> DEFINE x == SelectionOffset(e)
               half == len \div 2
    <3>1. half \in Int /\ x \in Int
      BY <2>1, <2>4
    <3>2. Offset(e, len) = LET upper == x - half
                               wish == IF upper >= 0 THEN upper ELSE 0
                               last == ListReq - len
                           IN  IF wish <= last THEN wish ELSE last
      BY <1>2, <2>4, OffsetIs
    <3> HIDE DEF x, half
    <3> QED
      BY <2>1, <2>4, <3>1, <3>2
  <2>6. T = {i \in 1 .. ListReq : Offset(e, len) <= i - 1 /\ i - 1 < Offset(e, len) + len}
    BY <2>1 DEF LineVisible
  <2> HIDE DEF T
  <2>7. Cardinality(T) \in Nat /\ Cardinality(T) <= len /\ Cardinality(T) <= ListReq
    BY <2>1, <2>4, <2>5, <2>6, Window
  <2> QED
    BY <1>2, <2>1, <2>2, <2>3, <2>4, <2>7 DEF len
<1> QED
  BY <1>1, <1>2

\* More graphs take more lines.
LEMMA MoreRows ==
  ASSUME NEW a \in Nat, NEW b \in Nat, a <= b, NEW c \in Nat
  PROVE  a * c \in Nat /\ b * c \in Nat /\ a * c <= b * c
<1>1. PICK d \in Nat : b = a + d
  <2>1. b - a \in Nat /\ b = a + (b - a)
    OBVIOUS
  <2> QED
    BY <2>1
<1>2. (a + d) * c = a * c + d * c /\ d * c \in Nat /\ a * c \in Nat
  OBVIOUS
<1> QED
  BY <1>1, <1>2

\* The graphs take no more lines than they ask for, and one if switched off.
LEMMA GraphRowsOK ==
  ASSUME TypeOK, NEW e \in Elements, NEW scr, Size(scr)
  PROVE  /\ GraphRows(e, scr) \in Nat
         /\ GraphRows(e, scr) <= GraphReq(e, scr)
         /\ "graph" \in Plan(e, scr).off => GraphRows(e, scr) = 1
<1> DEFINE n == Ngraph(e)
           T == {i \in DOMAIN Attrs[e] : AttrVisible(i, e)}
           b == IF SideBySide(scr) THEN 1 ELSE 2
<1>1. n \in Nat
  BY NgraphNat
<1>2. DOMAIN Attrs[e] = 1 .. Len(Attrs[e]) /\ Len(Attrs[e]) \in Nat /\ Attrs[e] \in Seq(Nat)
  BY AttrsFacts
<1>3. GraphOffset(e) \in Int
  <2> DEFINE i == Min({j \in DOMAIN Attrs[e] : Attrs[e][j] = current_attr})
  <2>1. current_attr \in Range(Attrs[e]) => i \in DOMAIN Attrs[e]
    BY <1>2, PlaceOf
  <2> HIDE DEF i
  <2> QED
    BY <1>2, <2>1 DEF GraphOffset, i
<1>4. Cardinality(T) \in Nat /\ Cardinality(T) <= n
  <2>1. T = {i \in 1 .. Len(Attrs[e]) : GraphOffset(e) <= i - 1 /\ i - 1 < GraphOffset(e) + n}
    BY <1>2 DEF AttrVisible
  <2> HIDE DEF T, n
  <2> QED
    BY <1>1, <1>2, <1>3, <2>1, Window
<1>5. TableLines \in Nat /\ TableRows = TableLines /\ b \in Nat
  BY DEF TypeOK, TableLines, TableRows
<1>6. GraphReq(e, scr) = n * b * TableLines + 1
  BY DEF GraphReq
<1>7. GraphRows(e, scr) = IF Drawn("graph", e, scr) THEN 1 + Cardinality(T) * b * TableRows ELSE 1
  BY DEF GraphRows
<1> HIDE DEF T, n, b
<1>8. Cardinality(T) * b \in Nat /\ n * b \in Nat /\ Cardinality(T) * b <= n * b
  BY <1>1, <1>4, <1>5, MoreRows
<1>9. /\ (Cardinality(T) * b) * TableLines \in Nat /\ (n * b) * TableLines \in Nat
      /\ (Cardinality(T) * b) * TableLines <= (n * b) * TableLines
  BY <1>5, <1>8, MoreRows
<1> QED
  BY <1>5, <1>6, <1>7, <1>9 DEF Drawn

\* Rounding up and down differ, but for multiples.
LEMMA CeilFloor ==
  ASSUME NEW n \in Nat, NEW c \in Nat \ {0}
  PROVE  /\ n \div c \in Nat
         /\ 1 + n \div c <= Ceil(n, c) + (IF n % c = 0 THEN 1 ELSE 0)
<1> DEFINE q == n \div c
           r == n % c
           k == n + c - 1
           Q == k \div c
           R == k % c
<1>1. n = c * q + r /\ q \in Int /\ r \in 0 .. c - 1
  BY DivMod
<1>2. k \in Int
  OBVIOUS
<1> HIDE DEF q, r
<1>3. k = c * Q + R /\ Q \in Int /\ R \in 0 .. c - 1
  <2> HIDE DEF k
  <2> QED
    BY <1>2, DivMod
<1>4. Ceil(n, c) = Q
  BY DEF Ceil
<1> HIDE DEF Q, R
<1>5. c * (Q - q) = r + c - 1 - R /\ Q - q \in Int
  <2>1. c * (Q - q) = c * Q - c * q /\ c * Q \in Int /\ c * q \in Int
    BY <1>1, <1>3
  <2> QED
    BY <1>1, <1>3, <2>1
<1>6. \A a \in Int : c * a >= 0 => a >= 0
  <2> SUFFICES ASSUME NEW a \in Int, a < 0 PROVE c * a < 0
    OBVIOUS
  <2>1. -1 - a \in Nat /\ \A m \in Nat : c * (-1 - m) = - c - c * m /\ c * m \in Nat
    OBVIOUS
  <2> QED
    BY <2>1
<1>7. \A a \in Int : c * a >= 1 => a >= 1
  <2> SUFFICES ASSUME NEW a \in Int, c * a >= 1 PROVE a >= 1
    OBVIOUS
  <2>1. a >= 0
    BY <1>6
  <2>2. a # 0
    OBVIOUS
  <2> QED
    BY <2>1, <2>2
<1>8. CASE r = 0
  BY <1>1, <1>3, <1>4, <1>5, <1>6, <1>8 DEF r
<1>9. CASE r # 0
  <2>1. c * (Q - q) >= 1
    BY <1>1, <1>3, <1>5, <1>9
  <2>2. Q - q >= 1
    BY <1>5, <1>7, <2>1
  <2> QED
    BY <1>1, <1>3, <1>4, <1>9, <2>2 DEF r
<1>10. 1 + q <= Ceil(n, c) + (IF n % c = 0 THEN 1 ELSE 0)
  BY <1>8, <1>9 DEF q
<1>11. q \in Nat
  BY DEF q
<1> QED
  BY <1>10, <1>11 DEF q

\* So do the details, and the information but for the row behind a full last one.
LEMMA TextRowsOK ==
  ASSUME TypeOK, NEW e \in Elements, NEW scr, Size(scr)
  PROVE  /\ DetailsRows(e, scr) \in Nat /\ DetailsRows(e, scr) <= DetailsReq(e, scr)
         /\ "details" \in Plan(e, scr).off => DetailsRows(e, scr) = 1
         /\ InfoRows(e, scr) \in Nat
         /\ InfoRows(e, scr) <= InfoReq(e, scr) + (IF LastRowFull(e, scr) THEN 1 ELSE 0)
         /\ "info" \in Plan(e, scr).off => InfoRows(e, scr) = 1
<1>1. DetailsReq(e, scr) \in Nat \ {0} /\ InfoReq(e, scr) \in Nat \ {0}
  BY RequestsOK
<1>2. /\ DetailsRows(e, scr) \in Nat /\ DetailsRows(e, scr) <= DetailsReq(e, scr)
      /\ "details" \in Plan(e, scr).off => DetailsRows(e, scr) = 1
      /\ "info" \in Plan(e, scr).off => InfoRows(e, scr) = 1
  BY <1>1 DEF DetailsRows, DetailsReq, InfoRows, Drawn
<1> DEFINE n == Infos[e]
           c == DetailCols(scr)
<1>3. n \in Nat /\ c \in Nat \ {0}
  BY DisplayAssumption, DetailColsPositive
<1>4. CASE Drawn("info", e, scr) /\ n > 0
  <2>1. n \div c \in Nat /\ 1 + n \div c <= Ceil(n, c) + (IF n % c = 0 THEN 1 ELSE 0)
    <3> HIDE DEF n, c
    <3> QED
      BY <1>3, CeilFloor
  <2>2. InfoRows(e, scr) = 2 + n \div c /\ InfoReq(e, scr) = 1 + Ceil(n, c)
    BY <1>4 DEF InfoRows, InfoReq, Drawn
  <2>3. LastRowFull(e, scr) <=> n % c = 0
    BY <1>4 DEF LastRowFull
  <2>4. Ceil(n, c) \in Nat
    <3> HIDE DEF n, c
    <3> QED
      BY <1>3, CeilNat
  <2> HIDE DEF n, c
  <2> DEFINE u == n \div c
             v == Ceil(n, c)
  <2>5. u \in Nat /\ v \in Nat /\ InfoRows(e, scr) = 2 + u /\ InfoReq(e, scr) = 1 + v
    BY <2>1, <2>2, <2>4
  <2>6. 1 + u <= v + (IF LastRowFull(e, scr) THEN 1 ELSE 0)
    BY <2>1, <2>3
  <2> HIDE DEF u, v
  <2> QED
    BY <1>2, <2>5, <2>6
<1>5. CASE ~(Drawn("info", e, scr) /\ n > 0)
  <2>1. InfoRows(e, scr) = 1
    BY <1>5 DEF InfoRows
  <2> QED
    BY <1>1, <1>2, <2>1
<1> QED
  BY <1>4, <1>5

\* The budget of lines is kept.
LEMMA InvFits == IInv => NothingCutOff
<1> DEFINE e == current_element
           scr == Screen
           A == Available(scr)
           P == Plan(e, scr)
           LR == ListRows(e, scr)
           GR == GraphRows(e, scr)
           DR == DetailsRows(e, scr)
           IR == InfoRows(e, scr)
           DQ == DetailsReq(e, scr)
           IQ == InfoReq(e, scr)
           GQ == GraphReq(e, scr)
           more == IF LastRowFull(e, scr) THEN 1 ELSE 0
<1> SUFFICES ASSUME IInv, OnScreen PROVE RowsUsed(e, scr) <= A + more
  BY DEF NothingCutOff
<1>1. TypeOK /\ e \in Elements /\ e \in Range(Lines) /\ Size(scr) /\ A \in Nat
  BY OnScreenFacts DEF IInv
<1>2. ListReq \in Nat /\ GQ \in Nat \ {0} /\ DQ \in Nat \ {0} /\ IQ \in Nat \ {0}
  BY <1>1, RequestsOK
<1>3. P.fits
  BY DEF OnScreen
<1>4. /\ P.len \in Int
      /\ \/ Requested(e, scr) <= A /\ P.len = ListReq /\ P.off = {}
         \/ /\ P.len >= c_list_min
            /\ \/ P.len = A - (Requested(e, scr) - ListReq) /\ P.off = {}
               \/ P.len = A - (Requested(e, scr) - IQ + 1) /\ P.off = {"info"}
               \/ P.len = A - (Requested(e, scr) - DQ + 1) /\ P.off = {"details"}
               \/ P.len = A - 3 /\ P.off = {"graph", "details", "info"}
  BY <1>1, <1>3, PlanCases
<1>5. Requested(e, scr) = ListReq + GQ + DQ + IQ
  BY DEF Requested
<1>6. c_list_min \in Nat \ {0}
  BY <1>1 DEF TypeOK
<1>7. "list" \in show => ListReq \in Nat \ {0}
  BY <1>1, SelectionOffsetFacts
<1>8. /\ LR \in Nat
      /\ "list" \in show => LR <= ListReq /\ LR <= P.len
      /\ "list" \notin show => LR = 1 /\ ListReq = 1
  <2>1. "list" \in show => P.len \in Nat \ {0}
    BY <1>4, <1>6, <1>7
  <2> QED
    BY <1>1, <2>1, ListRowsOK
<1>9. LR <= ListReq /\ LR <= P.len
  BY <1>4, <1>6, <1>8
<1>10. GR \in Nat /\ GR <= GQ /\ ("graph" \in P.off => GR = 1)
  BY <1>1, GraphRowsOK
<1>11. /\ DR \in Nat /\ DR <= DQ /\ ("details" \in P.off => DR = 1)
       /\ IR \in Nat /\ IR <= IQ + more /\ ("info" \in P.off => IR = 1)
       /\ more \in {0, 1}
  BY <1>1, TextRowsOK
<1>12. LR + GR + DR + IR <= A + more
  <2>1. /\ P.off = {"info"} => IR = 1
        /\ P.off = {"details"} => DR = 1
        /\ P.off = {"graph", "details", "info"} => GR = 1 /\ DR = 1 /\ IR = 1
    BY <1>10, <1>11
  <2> DEFINE len == P.len
             total == Requested(e, scr)
             L == ListReq
  <2>2. \/ total <= A /\ len = L
        \/ len = A - (total - L)
        \/ len = A - (total - IQ + 1) /\ IR = 1
        \/ len = A - (total - DQ + 1) /\ DR = 1
        \/ len = A - 3 /\ GR = 1 /\ DR = 1 /\ IR = 1
    BY <1>4, <2>1
  <2>3. /\ L \in Nat /\ GQ \in Nat /\ DQ \in Nat /\ IQ \in Nat /\ A \in Nat /\ len \in Int
        /\ LR \in Nat /\ GR \in Nat /\ DR \in Nat /\ IR \in Nat
        /\ LR <= L /\ LR <= len /\ GR <= GQ /\ DR <= DQ /\ IR <= IQ + more /\ more \in {0, 1}
        /\ total = L + GQ + DQ + IQ
    BY <1>1, <1>2, <1>4, <1>5, <1>8, <1>9, <1>10, <1>11
  <2> HIDE DEF P, A, LR, GR, DR, IR, GQ, DQ, IQ, len, total, L, more
  <2> QED
    BY <2>2, <2>3
<1> DEFINE free == scr.rows - LR - GR - DQ - IQ - 2
<1>13. A = scr.rows - 2 /\ scr.rows \in Nat
  BY <1>1 DEF Available, Size
<1>14. EmptyLines(e, scr) = Max({0, free})
  BY DEF EmptyLines
<1>15. RowsUsed(e, scr) = LR + GR + EmptyLines(e, scr) + DR + IR
  BY DEF RowsUsed
<1> HIDE DEF P, A, LR, GR, DR, IR, GQ, DQ, IQ, scr, more
<1>16. 0 \in Int /\ free \in Int
  BY <1>2, <1>8, <1>10, <1>13
<1>17. Max({0, free}) = IF 0 >= free THEN 0 ELSE free
  <2> HIDE DEF free
  <2> QED
    BY <1>16, MinMaxOfTwo
<1> QED
  BY <1>2, <1>8, <1>10, <1>11, <1>12, <1>13, <1>14, <1>15, <1>17

\* What is drawn ends above the status bar, but for the lines behind a full last
\* row of information, which may be drawn where the status bar comes.
THEOREM NothingEverCutOff == Spec => []NothingCutOff
BY CachedAlwaysCurrent, InvFits, PTL DEF IInv

-----------------------------------------------------------------------------
(***************************************************************************)
(* Left and Right: the attributes and the list head are a ring.              *)
(***************************************************************************)
\* The ring's places are the list head's, 0, and those of the list.
At(s, j) == IF j = 0 THEN ListHead ELSE s[j]

\* In a list without repetitions an attribute is found where it is.
LEMMA PlaceIs ==
  ASSUME NEW s \in Seq(Nat), IsDistinct(s), NEW j \in DOMAIN s
  PROVE  /\ Min({i \in DOMAIN s : s[i] = s[j]}) = j
         /\ s[j] \in Nat /\ s[j] # NoAttr /\ s[j] # ListHead
<1>1. s[j] \in Range(s)
  BY DEF Range
<1>2. /\ Min({i \in DOMAIN s : s[i] = s[j]}) \in DOMAIN s
      /\ s[Min({i \in DOMAIN s : s[i] = s[j]})] = s[j]
  BY <1>1, PlaceOf
<1>3. s[j] \in Nat
  BY LenProperties, ElementOfSeq
<1> QED
  BY <1>2, <1>3, AttrAssumption DEF IsDistinct

\* Left goes one place down the ring.
LEMMA LeftInRing ==
  ASSUME NEW s \in Seq(Nat), s # <<>>, IsDistinct(s), NEW j \in 0 .. Len(s)
  PROVE  AttrPrev(s, At(s, j)) = At(s, IF j = 0 THEN Len(s) ELSE j - 1)
<1>1. DOMAIN s = 1 .. Len(s) /\ Len(s) \in Nat \ {0}
  BY LenProperties, EmptySeq
<1>2. CASE j = 0
  BY <1>1, <1>2, AttrAssumption DEF At, AttrPrev, Last
<1>3. CASE j = 1
  <2>1. 1 \in DOMAIN s
    BY <1>1
  <2>2. s[1] # NoAttr /\ s[1] # ListHead
    BY <2>1, PlaceIs
  <2> QED
    BY <1>3, <2>2 DEF At, AttrPrev, AttrLast
<1>4. CASE j > 1
  <2>1. /\ j \in DOMAIN s /\ 1 \in DOMAIN s
        /\ Min({i \in DOMAIN s : s[i] = s[j]}) = j
        /\ s[j] # NoAttr /\ s[j] # ListHead
    BY <1>1, <1>4, PlaceIs
  <2>2. s[j] # s[1]
    BY <1>4, <2>1 DEF IsDistinct
  <2>3. At(s, j) = s[j] /\ At(s, j - 1) = s[j - 1]
    BY <1>4 DEF At
  <2> QED
    BY <1>4, <2>1, <2>2, <2>3 DEF AttrPrev
<1> QED
  BY <1>2, <1>3, <1>4

\* Right undoes Left.
LEMMA RightUndoesLeft ==
  ASSUME NEW s \in Seq(Nat), IsDistinct(s), NEW a \in Range(s)
  PROVE  AttrNext(s, AttrPrev(s, a)) = a
<1>1. PICK j \in DOMAIN s : s[j] = a
  BY DEF Range
<1>2. DOMAIN s = 1 .. Len(s) /\ Len(s) \in Nat \ {0} /\ s # <<>>
  BY <1>1, LenProperties, EmptySeq
<1>3. At(s, j) = a /\ j \in 0 .. Len(s) /\ j # 0
  BY <1>1, <1>2 DEF At
<1>4. AttrPrev(s, a) = At(s, j - 1)
  BY <1>2, <1>3, LeftInRing
<1>5. CASE j = 1
  BY <1>1, <1>2, <1>4, <1>5 DEF At, AttrNext, AttrFirst
<1>6. CASE j # 1
  <2> DEFINE i == j - 1
  <2>1. i \in DOMAIN s /\ i + 1 = j /\ i # Len(s) /\ Len(s) \in DOMAIN s
    BY <1>2, <1>6
  <2>2. AttrPrev(s, a) = s[i]
    BY <1>4, <2>1, <1>2 DEF At
  <2> HIDE DEF i
  <2>3. /\ Min({k \in DOMAIN s : s[k] = s[i]}) = i
        /\ s[i] # NoAttr /\ s[i] # ListHead
    BY <2>1, PlaceIs
  <2>4. s[i] # Last(s)
    BY <2>1 DEF IsDistinct, Last
  <2> QED
    BY <1>1, <2>1, <2>2, <2>3, <2>4 DEF AttrNext
<1> QED
  BY <1>5, <1>6

\* Once around the ring, from wherever the selection is.
LEMMA LeftGoesAround ==
  ASSUME NEW s \in Seq(Nat), IsDistinct(s), NEW x \in AttrSels(s), NEW f,
         \A k \in 0 .. Len(s) + 1 : f[k] = IF k = 0 THEN x ELSE AttrPrev(s, f[k - 1])
  PROVE  Range(s) \subseteq {f[k] : k \in 0 .. Len(s) + 1}
<1> DEFINE n == Len(s)
<1>1. DOMAIN s = 1 .. n /\ n \in Nat /\ (s # <<>> => n # 0)
  BY LenProperties, EmptySeq
<1> SUFFICES ASSUME s # <<>> PROVE Range(s) \subseteq {f[k] : k \in 0 .. n + 1}
  <2>1. s = <<>> => Range(s) = {}
    BY DEF Range
  <2> QED
    BY <2>1
\* The place where Left starts; NULL is left for the list head, like the first.
<1>2. PICK p \in 0 .. n : x = At(s, p) \/ (p = 1 /\ x = NoAttr)
  <2>1. CASE x = NoAttr
    <3>1. 1 \in 0 .. n
      BY <1>1
    <3> QED
      BY <2>1, <3>1
  <2>2. CASE x = ListHead
    <3>1. 0 \in 0 .. n /\ x = At(s, 0)
      BY <1>1, <2>2 DEF At
    <3> QED
      BY <3>1
  <2>3. CASE x \in Range(s)
    <3>1. PICK j \in DOMAIN s : x = s[j]
      BY <2>3 DEF Range
    <3>2. j \in 0 .. n /\ x = At(s, j)
      BY <1>1, <3>1 DEF At
    <3> QED
      BY <3>2
  <2> QED
    BY <2>1, <2>2, <2>3 DEF AttrSels
<1> DEFINE place(k) == IF k <= p THEN p - k ELSE p + n + 1 - k
           I == {m \in Nat : m <= n => f[m + 1] = At(s, place(m + 1))}
<1>3. 0 \in I
  <2>1. 0 \in 0 .. n + 1 /\ 1 \in 0 .. n + 1 /\ 1 - 1 = 0
    BY <1>1
  <2>2. f[0] = x /\ f[1] = AttrPrev(s, f[0])
    BY <2>1
  <2>3. CASE x = At(s, p)
    <3>1. f[1] = At(s, IF p = 0 THEN n ELSE p - 1)
      BY <2>2, <2>3, LeftInRing
    <3>2. place(1) = IF p = 0 THEN n ELSE p - 1
      BY <1>1, <1>2
    <3> QED
      BY <3>1, <3>2
  <2>4. CASE p = 1 /\ x = NoAttr
    <3>1. f[1] = ListHead
      BY <2>2, <2>4 DEF AttrPrev, AttrLast
    <3>2. place(1) = 0
      BY <2>4
    <3> QED
      BY <3>1, <3>2 DEF At
  <2> QED
    BY <1>2, <2>3, <2>4
<1>4. ASSUME NEW m \in Nat, f[m + 1] = At(s, place(m + 1)), m + 1 <= n
      PROVE  f[m + 2] = At(s, place(m + 2))
  <2> DEFINE j == place(m + 1)
  <2>1. /\ m + 2 \in 0 .. n + 1 /\ m + 2 # 0 /\ (m + 2) - 1 = m + 1
        /\ j \in 0 .. n
        /\ place(m + 2) = IF j = 0 THEN n ELSE j - 1
    BY <1>1, <1>4
  <2>2. f[m + 2] = AttrPrev(s, f[m + 1])
    BY <2>1
  <2> HIDE DEF place
  <2> QED
    BY <1>4, <2>1, <2>2, LeftInRing
<1>5. \A m \in Nat : m \in I => m + 1 \in I
  <2>1. \A m \in Nat : (m + 1) + 1 = m + 2 /\ (m + 1 <= n => m <= n) /\ m + 1 \in Nat
    BY <1>1
  <2> HIDE DEF place
  <2> QED
    BY <1>4, <2>1
<1>6. \A m \in Nat : m \in I
  <2> HIDE DEF I
  <2> QED
    BY <1>3, <1>5, NatSetInduction
<1>7. ASSUME NEW j \in 1 .. n PROVE \E k \in 0 .. n + 1 : f[k] = s[j]
  <2> DEFINE m == IF j < p THEN p - j - 1 ELSE p + n - j
  <2>1. m \in Nat /\ m <= n /\ m + 1 \in 0 .. n + 1 /\ place(m + 1) = j
    <3>1. n \in Nat /\ p \in 0 .. n /\ j \in 1 .. n
      BY <1>1, <1>2
    <3>2. CASE j < p
      <4>1. m = p - j - 1
        BY <3>2
      <4> HIDE DEF m
      <4> QED
        BY <3>1, <3>2, <4>1
    <3>3. CASE ~(j < p)
      <4>1. m = p + n - j
        BY <3>3
      <4> HIDE DEF m
      <4> QED
        BY <3>1, <3>3, <4>1
    <3> QED
      BY <3>2, <3>3
  <2>2. m \in I
    <3> HIDE DEF m, I
    <3> QED
      BY <1>6, <2>1
  <2> HIDE DEF m, place
  <2>3. f[m + 1] = At(s, j)
    BY <2>1, <2>2
  <2>4. At(s, j) = s[j]
    BY DEF At
  <2> QED
    BY <2>1, <2>3, <2>4
<1> QED
  BY <1>1, <1>7 DEF Range

\* Left and Right reach every attribute.
LEMMA InvReaches == IInv => LeftReachesAll
<1> SUFFICES ASSUME IInv, current_element \in Live PROVE LeftReachesAll
  BY DEF LeftReachesAll
<1> DEFINE e == current_element
           s == Attrs[e]
           n == Len(s) + 1
           x == e_current_attr[e]
           T == AttrSels(s)
           St == [k \in 1 .. n |-> [t \in T |-> AttrPrev(s, t)]]
           G(f) == f = [k \in 0 .. n |-> IF k = 0 THEN x ELSE AttrPrev(s, f[k - 1])]
           f == CHOOSE f : G(f)
<1>1. e \in Elements
  <2>1. PICK g \in Groups : e \in Range(order[g])
    BY DEF Live
  <2>2. order[g] \in Seq(Elements)
    BY DEF IInv, TypeOK, Forested
  <2> QED
    BY <2>1, <2>2, ElementOfSeq DEF Range
<1>2. s \in Seq(Nat) /\ IsDistinct(s) /\ n \in Nat
  BY <1>1, AttrsFacts
<1>3. x \in T
  BY <1>1 DEF IInv, TypeOK
<1>4. LeftReachesAll <=> (pc = "keys" => /\ Range(s) \subseteq {f[k] : k \in 0 .. n}
                                        /\ \A a \in Range(s) : AttrNext(s, AttrPrev(s, a)) = a)
  BY DEF LeftReachesAll
<1> HIDE DEF e, x, s
<1>5. \E h : G(h)
  <2>1. \A t \in T : AttrPrev(s, t) \in T
    BY <1>2, AttrStepsOK
  <2>2. St \in [1 .. n -> [T -> T]]
    BY <2>1
  <2> HIDE DEF St, T, n
  <2>3. PICK h \in [0 .. n -> T] : Follows(h, x, n, St)
    BY <1>2, <1>3, <2>2, RecursionExists
  <2>4. ASSUME NEW k \in 0 .. n PROVE h[k] = IF k = 0 THEN x ELSE AttrPrev(s, h[k - 1])
    <3>1. CASE k = 0
      BY <2>3, <3>1 DEF Follows
    <3>2. CASE k # 0
      <4>1. k \in 1 .. n /\ k - 1 \in 0 .. n
        BY <1>2, <3>2
      <4>2. h[k - 1] \in T /\ h[k] = St[k][h[k - 1]]
        BY <2>3, <4>1 DEF Follows
      <4> QED
        BY <3>2, <4>1, <4>2 DEF St
    <3> QED
      BY <3>1, <3>2
  <2>5. G(h)
    BY <2>4
  <2> QED
    BY <2>5
<1>6. G(f)
  <2> HIDE DEF G
  <2> QED
    BY <1>5
<1>7. \A k \in 0 .. n : f[k] = IF k = 0 THEN x ELSE AttrPrev(s, f[k - 1])
  BY <1>6
<1> HIDE DEF f, G
<1>8. Range(s) \subseteq {f[k] : k \in 0 .. n}
  BY <1>2, <1>3, <1>7, LeftGoesAround
<1>9. \A a \in Range(s) : AttrNext(s, AttrPrev(s, a)) = a
  BY <1>2, RightUndoesLeft
<1> QED
  BY <1>4, <1>8, <1>9

\* In spite of the list head among them, Left reaches every attribute of the
\* selected element, and Right undoes it.
THEOREM LeftAlwaysReaches == Spec => []LeftReachesAll
BY CachedAlwaysCurrent, InvReaches, PTL DEF IInv

-----------------------------------------------------------------------------
(***************************************************************************)
(* PgDn: how far it goes down the lines of the list.  The lists hold each    *)
(* element once, so that an element has one line, and the length of the list *)
(* that the key moves by is the one that was drawn.                          *)
(***************************************************************************)
ElementsOnce ==
    /\ IsDistinct(group_list)
    /\ \A g, h \in Groups : \A i \in DOMAIN order[g], j \in DOMAIN order[h] :
          order[g][i] = order[h][j] => g = h /\ i = j

LengthKept ==
    pc = "keys" /\ ~IsSmall(Screen) /\ current_element # NoElement =>
        list_length = Plan(current_element, Screen).len

\* A group is added to the list of groups at most once, and readings leave
\* forests.
LEMMA OnceKept ==
  ASSUME TypeOK, ElementsOnce, [Next]_vars
  PROVE  ElementsOnce'
<1>1. CASE UNCHANGED forest
  BY <1>1 DEF ElementsOnce, IsDistinct, forest
<1>2. CASE Reading
  <2>1. order' \in Forests
    BY <1>2 DEF Reading
  <2>2. \A g, h \in Groups : \A i \in DOMAIN order'[g], j \in DOMAIN order'[h] :
          order'[g][i] = order'[h][j] => g = h /\ i = j
    BY <2>1, ForestAssumption
  <2>3. PICK more \in {<<>>} \cup {<<g>> : g \in Groups \ Range(group_list)} :
          group_list' = group_list \o more
    BY <1>2 DEF Reading
  <2>4. group_list \in Seq(Groups) /\ IsDistinct(group_list)
    BY DEF TypeOK, Forested, ElementsOnce
  <2>5. CASE more = <<>>
    <3>1. group_list' = group_list
      BY <2>3, <2>4, <2>5, ConcatEmptySeq
    <3> QED
      BY <2>2, <2>4, <3>1 DEF ElementsOnce
  <2>6. ASSUME NEW g \in Groups, g \notin Range(group_list), more = <<g>>
        PROVE  IsDistinct(group_list')
    <3> DEFINE n == Len(group_list)
               s == group_list'
    <3>1. n \in Nat /\ DOMAIN group_list = 1 .. n /\ \A i \in 1 .. n : group_list[i] # g
      BY <2>4, <2>6, LenProperties DEF Range
    <3>2. /\ DOMAIN s = 1 .. n + 1 /\ s[n + 1] = g
          /\ \A i \in 1 .. n : s[i] = group_list[i]
      BY <2>3, <2>4, <2>6, <3>1
    <3> HIDE DEF n, s
    <3>3. ASSUME NEW i \in 1 .. n + 1, NEW j \in 1 .. n + 1, s[i] = s[j]
          PROVE  i = j
      <4>1. i \in 1 .. n \/ i = n + 1
        BY <3>1
      <4>2. j \in 1 .. n \/ j = n + 1
        BY <3>1
      <4> QED
        BY <2>4, <3>1, <3>2, <3>3, <4>1, <4>2 DEF IsDistinct
    <3> QED
      BY <3>2, <3>3 DEF IsDistinct, s
  <2> QED
    BY <2>2, <2>3, <2>5, <2>6 DEF ElementsOnce
<1>3. [Next]_vars => UNCHANGED forest \/ Reading
  BY DEF Next, Keys, KeyQ, KeyEsc, KeyN, KeyHelp, KeyRedraw, KeyOnDialog, KeyY, KeyToggle,
         KeyNgraph, KeyTab, KeyPageDown, KeyPageUp, KeySelect, Select, KeyAttr,
         KeyCollectHistory, KeyReset, Undefined, Draw, vars
<1> QED
  BY <1>1, <1>2, <1>3

\* What the sections ask for depends on the forest, the options and the size only.
LEMMA PlanKept ==
  ASSUME UNCHANGED <<forest, options, toggles>>, NEW e, NEW scr,
         rows' = scr.rows, cols' = scr.cols, e = current_element'
  PROVE  Plan(current_element, Screen)' = Plan(e, scr)
<1>1. /\ group_list' = group_list /\ order' = order /\ show' = show /\ c_ngraph' = c_ngraph
      /\ c_list_min' = c_list_min /\ gc_height' = gc_height
  BY DEF forest, options, toggles
<1>2. Lines' = Lines
  BY <1>1 DEF Lines
<1>3. ListReq' = ListReq
  BY <1>1, <1>2 DEF ListReq
<1>4. Screen'.rows = scr.rows /\ Screen'.cols = scr.cols
  BY DEF Screen
<1>5. GraphReq(current_element, Screen)' = GraphReq(e, scr)
  BY <1>1, <1>4 DEF GraphReq, Ngraph, SideBySide, TableLines
<1>6. DetailsReq(current_element, Screen)' = DetailsReq(e, scr)
  BY <1>1, <1>4 DEF DetailsReq, DetailCols
<1>7. InfoReq(current_element, Screen)' = InfoReq(e, scr)
  BY <1>1, <1>4 DEF InfoReq, DetailCols
<1>8. Available(Screen)' = Available(scr)
  BY <1>4 DEF Available
<1>9. Tries(current_element, Screen)' = Tries(e, scr)
  BY <1>1, <1>3, <1>5, <1>6, <1>7, <1>8 DEF Tries
<1> QED
  BY <1>1, <1>3, <1>5, <1>6, <1>7, <1>8, <1>9 DEF Plan

\* Drawing leaves the length of the list that it has drawn.
LEMMA LengthStep ==
  ASSUME LengthKept, [Next]_vars
  PROVE  LengthKept'
<1> SUFFICES ASSUME pc' = "keys", ~IsSmall(Screen)', current_element' # NoElement
             PROVE  list_length' = Plan(current_element, Screen)'.len
  BY DEF LengthKept
<1>1. CASE UNCHANGED vars
  <2>1. /\ UNCHANGED <<forest, options, toggles>> /\ pc = "keys"
        /\ rows' = rows /\ cols' = cols /\ current_element' = current_element
        /\ list_length' = list_length
    BY <1>1 DEF vars, drawn
  <2>2. /\ Screen.rows = rows /\ Screen.cols = cols /\ ~IsSmall(Screen)
    BY <2>1 DEF Screen, IsSmall
  <2>3. Plan(current_element, Screen)' = Plan(current_element, Screen)
    BY <2>1, <2>2, PlanKept
  <2> QED
    BY <2>1, <2>2, <2>3 DEF LengthKept
<1>2. CASE Keys \/ Reading
  BY <1>2 DEF Keys, KeyQ, KeyEsc, KeyN, KeyHelp, KeyRedraw, KeyOnDialog, KeyY, KeyToggle,
                KeyNgraph, KeyTab, KeyPageDown, KeyPageUp, KeySelect, Select, KeyAttr,
                KeyCollectHistory, KeyReset, Undefined, Handled, Reading
<1>3. ASSUME NEW scr \in Screens, Draw(scr)
      PROVE  list_length' = Plan(current_element, Screen)'.len
  <2>1. rows' = scr.rows /\ cols' = scr.cols /\ UNCHANGED <<forest, options, toggles>>
    BY <1>3 DEF Draw
  <2>2. ~IsSmall(scr)
    BY <2>1 DEF IsSmall, Screen
  <2>3. list_length' = Plan(current_element', scr).len
    BY <1>3, <2>2 DEF Draw
  <2>4. Plan(current_element, Screen)' = Plan(current_element', scr)
    BY <2>1, PlanKept
  <2> QED
    BY <2>3, <2>4
<1> QED
  BY <1>1, <1>2, <1>3 DEF Next

-----------------------------------------------------------------------------
\* Where the groups and their elements stand in the lines of the list.
Layout(base) ==
    /\ base \in [0 .. Len(group_list) -> Nat] /\ base[0] = 0
    /\ \A k \in 1 .. Len(group_list) :
          /\ base[k] = base[k - 1] + 1 + Len(order[group_list[k]])
          /\ base[k - 1] + 1 \in DOMAIN Lines /\ Lines[base[k - 1] + 1] = NoElement
          /\ \A j \in DOMAIN order[group_list[k]] :
                /\ base[k - 1] + 1 + j \in DOMAIN Lines
                /\ Lines[base[k - 1] + 1 + j] = order[group_list[k]][j]
    /\ \A i \in DOMAIN Lines : \E k \in 1 .. Len(group_list) :
          \/ i = base[k - 1] + 1
          \/ \E j \in DOMAIN order[group_list[k]] : i = base[k - 1] + 1 + j

\* Each group has a line for its title, and below it one for each element.
LEMMA LinesLaidOut ==
  ASSUME Forested, group_list # <<>>
  PROVE  \E base : Layout(base)
<1> DEFINE n == Len(group_list)
           ss == [k \in DOMAIN group_list |-> <<NoElement>> \o order[group_list[k]]]
<1>1. n \in Nat \ {0} /\ DOMAIN group_list = 1 .. n /\ \A k \in 1 .. n : group_list[k] \in Groups
  BY LenProperties, ElementOfSeq, EmptySeq DEF Forested
<1>2. ASSUME NEW k \in 1 .. n
      PROVE  /\ ss[k] \in Seq(Entries) /\ Len(ss[k]) = 1 + Len(order[group_list[k]])
             /\ DOMAIN order[group_list[k]] = 1 .. Len(order[group_list[k]])
             /\ Len(order[group_list[k]]) \in Nat
             /\ 1 \in 1 .. Len(ss[k]) /\ ss[k][1] = NoElement
             /\ \A j \in DOMAIN order[group_list[k]] :
                  1 + j \in 1 .. Len(ss[k]) /\ ss[k][1 + j] = order[group_list[k]][j]
  <2> DEFINE h == <<NoElement>>
             s == order[group_list[k]]
  <2>1. s \in Seq(Entries)
    <3>1. s \in Seq(Elements) /\ Elements \subseteq Entries
      BY <1>1 DEF Forested, Entries
    <3> QED
      BY <3>1, SeqMonotonic
  <2>2. h \in Seq(Entries) /\ Len(h) = 1 /\ h[1] = NoElement
    BY DEF Entries
  <2>3. ss[k] = h \o s
    BY <1>1
  <2> HIDE DEF h, s
  <2>4. Len(s) \in Nat /\ DOMAIN s = 1 .. Len(s)
    BY <2>1, LenProperties
  <2>5. /\ h \o s \in Seq(Entries) /\ Len(h \o s) = 1 + Len(s)
        /\ \A j \in 1 .. 1 + Len(s) : (h \o s)[j] = IF j <= 1 THEN h[j] ELSE s[j - 1]
    <3>1. /\ h \o s \in Seq(Entries) /\ Len(h \o s) = Len(h) + Len(s)
          /\ \A j \in 1 .. Len(h) + Len(s) :
                (h \o s)[j] = IF j <= Len(h) THEN h[j] ELSE s[j - Len(h)]
      BY ONLY <2>1, <2>2, ConcatProperties
    <3> QED
      BY ONLY <2>2, <3>1
  <2>6. ASSUME NEW j \in DOMAIN s
        PROVE  1 + j \in 1 .. 1 + Len(s) /\ (h \o s)[1 + j] = s[j]
    <3>1. 1 + j \in 1 .. 1 + Len(s) /\ ~(1 + j <= 1) /\ (1 + j) - 1 = j
      BY <2>4
    <3> QED
      BY <2>5, <3>1
  <2>7. 1 \in 1 .. 1 + Len(s) /\ (h \o s)[1] = NoElement
    BY <2>2, <2>4, <2>5
  <2> HIDE DEF ss
  <2> QED
    BY <2>3, <2>4, <2>5, <2>6, <2>7 DEF s
<1>3. Lines = FlattenSeq(ss)
  BY DEF Lines
<1>4. ss \in Seq(Seq(Entries)) /\ Len(ss) = n
  <2> DEFINE T == Seq(Entries)
  <2>1. ss \in [1 .. n -> T]
    BY <1>1, <1>2
  <2> HIDE DEF T, ss
  <2>2. ss \in Seq(T) /\ Len(ss) = n
    BY <1>1, <2>1, LenProperties
  <2> QED
    BY <2>2 DEF T
<1> HIDE DEF ss
<1>5. PICK base : IsPlaced(base, ss)
  <2>1. Len(ss) # 0
    BY <1>1, <1>4
  <2> QED
    BY <1>4, <2>1, FlattenPlaces
<1>6. /\ base \in [0 .. n -> Nat] /\ base[0] = 0 /\ Len(Lines) = base[n]
      /\ \A k \in 1 .. n : base[k] = base[k - 1] + Len(ss[k])
      /\ \A k \in 1 .. n : \A j \in 1 .. Len(ss[k]) :
            base[k - 1] + j \in 1 .. base[n] /\ Lines[base[k - 1] + j] = ss[k][j]
      /\ \A i \in 1 .. base[n] : \E k \in 1 .. n : \E j \in 1 .. Len(ss[k]) : i = base[k - 1] + j
  BY <1>3, <1>4, <1>5 DEF IsPlaced
<1>7. DOMAIN Lines = 1 .. base[n]
  BY <1>6, LinesFacts
<1>8. ASSUME NEW k \in 1 .. n
      PROVE  /\ base[k] = base[k - 1] + 1 + Len(order[group_list[k]])
             /\ base[k - 1] + 1 \in DOMAIN Lines /\ Lines[base[k - 1] + 1] = NoElement
             /\ \A j \in DOMAIN order[group_list[k]] :
                   /\ base[k - 1] + 1 + j \in DOMAIN Lines
                   /\ Lines[base[k - 1] + 1 + j] = order[group_list[k]][j]
  <2>1. k - 1 \in 0 .. n
    BY <1>1
  <2>2. base[k - 1] \in Nat
    BY <1>6, <2>1
  <2>3. base[k] = base[k - 1] + 1 + Len(order[group_list[k]])
    <3> DEFINE b == base[k - 1]
               m == Len(order[group_list[k]])
    <3>1. base[k] = b + Len(ss[k]) /\ Len(ss[k]) = 1 + m /\ b \in Nat /\ m \in Nat
      BY <1>2, <1>6, <2>2
    <3> HIDE DEF b, m
    <3>2. base[k] = b + 1 + m
      BY <3>1
    <3> QED
      BY <3>2 DEF b, m
  <2>4. base[k - 1] + 1 \in DOMAIN Lines /\ Lines[base[k - 1] + 1] = NoElement
    BY <1>2, <1>6, <1>7
  <2>5. ASSUME NEW j \in DOMAIN order[group_list[k]]
        PROVE  /\ base[k - 1] + 1 + j \in DOMAIN Lines
               /\ Lines[base[k - 1] + 1 + j] = order[group_list[k]][j]
    <3> DEFINE j1 == 1 + j
               b == base[k - 1]
    <3>1. j1 \in 1 .. Len(ss[k]) /\ ss[k][j1] = order[group_list[k]][j]
      BY <1>2
    <3>2. j \in Nat /\ b \in Nat
      BY <1>2, <2>2
    <3>3. b + j1 = b + 1 + j
      BY <3>2
    <3> HIDE DEF j1
    <3>4. b + j1 \in 1 .. base[n] /\ Lines[b + j1] = ss[k][j1]
      BY <1>6, <3>1
    <3> QED
      BY <1>7, <3>1, <3>3, <3>4
  <2> QED
    BY <2>3, <2>4, <2>5
<1>9. ASSUME NEW i \in DOMAIN Lines
      PROVE  \E k \in 1 .. n : \/ i = base[k - 1] + 1
                               \/ \E j \in DOMAIN order[group_list[k]] : i = base[k - 1] + 1 + j
  <2>1. PICK k \in 1 .. n : \E j \in 1 .. Len(ss[k]) : i = base[k - 1] + j
    BY <1>6, <1>7
  <2>2. PICK j \in 1 .. Len(ss[k]) : i = base[k - 1] + j
    BY <2>1
  <2>3. CASE j = 1
    BY <2>2, <2>3
  <2>4. CASE j # 1
    <3>1. j - 1 \in DOMAIN order[group_list[k]]
      BY <1>2, <2>4
    <3>2. k - 1 \in 0 .. n
      BY <1>1
    <3>3. base[k - 1] \in Nat
      BY <1>6, <3>2
    <3> DEFINE b == base[k - 1]
    <3>4. i = b + 1 + (j - 1)
      <4>1. i = b + j /\ b \in Nat
        BY <2>2, <3>3
      <4> HIDE DEF b
      <4> QED
        BY <4>1
    <3> QED
      BY <3>1, <3>4
  <2> QED
    BY <2>3, <2>4
<1>10. Layout(base)
  BY <1>6, <1>8, <1>9 DEF Layout
<1> QED
  BY <1>10

LineOf(e) == Min({i \in DOMAIN Lines : Lines[i] = e})

\* An element has one line.
LEMMA LineIs ==
  ASSUME Forested, ElementsOnce, NEW base, Layout(base),
         NEW k \in 1 .. Len(group_list), NEW j \in DOMAIN order[group_list[k]]
  PROVE  /\ LineOf(order[group_list[k]][j]) = base[k - 1] + 1 + j
         /\ base[k - 1] + 1 + j \in DOMAIN Lines
<1> DEFINE n == Len(group_list)
           e == order[group_list[k]][j]
           l == base[k - 1] + 1 + j
           T == {i \in DOMAIN Lines : Lines[i] = e}
<1>1. n \in Nat /\ DOMAIN group_list = 1 .. n /\ \A m \in 1 .. n : group_list[m] \in Groups
  BY LenProperties, ElementOfSeq DEF Forested
<1>2. e \in Elements /\ e # NoElement
  BY <1>1, InList
<1>3. l \in DOMAIN Lines /\ Lines[l] = e
  BY DEF Layout
<1>4. ASSUME NEW i \in DOMAIN Lines, Lines[i] = e
      PROVE  i = l
  <2>1. PICK m \in 1 .. n : \/ i = base[m - 1] + 1
                            \/ \E h \in DOMAIN order[group_list[m]] : i = base[m - 1] + 1 + h
    BY DEF Layout
  <2>2. i # base[m - 1] + 1
    BY <1>2, <1>4 DEF Layout
  <2>3. PICK h \in DOMAIN order[group_list[m]] : i = base[m - 1] + 1 + h
    BY <2>1, <2>2
  <2>4. order[group_list[m]][h] = e
    BY <1>4, <2>3 DEF Layout
  <2>5. group_list[m] = group_list[k] /\ h = j
    <3> HIDE DEF e
    <3> QED
      BY <1>1, <2>4 DEF ElementsOnce, e
  <2>6. m = k
    BY <1>1, <2>5 DEF ElementsOnce, IsDistinct
  <2> QED
    BY <2>3, <2>5, <2>6
<1> HIDE DEF e, l
<1>5. T = {l}
  BY <1>3, <1>4
<1>6. Min(T) = l
  <2>1. Len(Lines) \in Nat /\ T \subseteq 0 .. Len(Lines) /\ T # {}
    BY <1>5, LinesFacts
  <2> HIDE DEF T
  <2>2. Min(T) \in T
    BY <2>1, MinIsLeast
  <2> QED
    BY <1>5, <2>2
<1> QED
  BY <1>3, <1>6 DEF LineOf, l, e

\* The last group's next is the first, any other's is the one behind it.
LEMMA NextGroup ==
  ASSUME Forested, IsDistinct(group_list), NEW k \in 1 .. Len(group_list)
  PROVE  Forest!GroupSelectNext(group_list[k])
           = group_list[IF k = Len(group_list) THEN 1 ELSE k + 1]
<1> DEFINE n == Len(group_list)
           g == group_list[k]
           i == Forest!PosIn(group_list, g)
<1>1. n \in Nat \ {0} /\ DOMAIN group_list = 1 .. n /\ \A m \in 1 .. n : group_list[m] \in Groups
  BY LenProperties, ElementOfSeq DEF Forested
<1>2. g # NoGroup
  BY <1>1, ForestAssumption
<1>3. i = k
  <2>1. g \in Range(group_list)
    BY <1>1 DEF Range
  <2> HIDE DEF g
  <2>2. i \in DOMAIN group_list /\ group_list[i] = g
    BY <2>1, PosInFacts
  <2> HIDE DEF i
  <2> QED
    BY <1>1, <2>2 DEF IsDistinct, g
<1>4. group_list # <<>>
  BY <1>1
<1>5. /\ Forest!FirstOf(group_list, NoGroup) = group_list[1]
      /\ Forest!LastOf(group_list, NoGroup) = group_list[n]
  BY <1>4 DEF Forest!FirstOf, Forest!LastOf
<1>6. g = group_list[n] => k = n
  <2>1. k \in DOMAIN group_list /\ n \in DOMAIN group_list
    BY <1>1
  <2> QED
    BY <2>1 DEF IsDistinct
<1> QED
  BY <1>2, <1>3, <1>5, <1>6 DEF Forest!GroupSelectNext

\* What is selected when the group that is current has nothing to select.
Nowhere(s) == Current(s) = NoElement /\ order[Forest!GroupCurrent(s.group)] = <<>>

\* Down moves to the next line, over the title of the next group, or to the
\* first element, if it does not end in an empty group.
Downward(l, s) ==
    LET d == LineOf(Current(s)) IN
    /\ Current(s) # NoElement /\ d \in DOMAIN Lines
    /\ \/ d = 2
       \/ d = l + 1
       \/ d = l + 2 /\ Lines[l + 1] = NoElement

\* The selection after Pick is what was picked.
LEMMA PickedIs ==
  ASSUME Forested, group_list # <<>>, NEW s \in Sels, NEW g \in Groups, NEW x
  PROVE  /\ Current(Forest!Pick(s, g, x)) = x
         /\ Forest!GroupCurrent(Forest!Pick(s, g, x).group) = g
<1>1. Forest!Pick(s, g, x).group = g /\ Forest!Pick(s, g, x).cur[g] = x
  BY DEF Forest!Pick, Sels
<1>2. Forest!GroupCurrent(g) = g
  BY ForestAssumption DEF Forest!GroupCurrent
<1> QED
  BY <1>1, <1>2 DEF Current

\* From an element Down leads on to the lines below, or to an empty group.
LEMMA DownLine ==
  ASSUME Forested, ElementsOnce, group_list # <<>>, NEW s \in Sels, Current(s) # NoElement
  PROVE  LET t == Forest!SelectNext(s)
         IN  Nowhere(t) \/ Downward(LineOf(Current(s)), t)
<1> DEFINE n == Len(group_list)
           g == Forest!GroupCurrent(s.group)
           e == s.cur[g]
           t == Forest!SelectNext(s)
<1>1. n \in Nat \ {0} /\ DOMAIN group_list = 1 .. n /\ \A m \in 1 .. n : group_list[m] \in Groups
  BY LenProperties, ElementOfSeq, EmptySeq DEF Forested
<1>2. Current(s) = e /\ g \in Listed /\ g \in Groups
  BY CurrentGroup DEF Current
<1>3. e \in Range(order[g])
  BY <1>2 DEF Sels, Selectable
<1>4. PICK k \in 1 .. n : group_list[k] = g
  BY <1>1, <1>2 DEF Listed, Range
<1>5. order[g] \in Seq(Elements) /\ Len(order[g]) \in Nat /\ DOMAIN order[g] = 1 .. Len(order[g])
  BY <1>2, LenProperties DEF Forested
<1> DEFINE j == Forest!PosIn(order[g], e)
           last == Len(order[g])
<1>6. j \in DOMAIN order[g] /\ order[g][j] = e
  BY <1>3, PosInFacts
<1>7. Forest!LastOf(order[g], NoElement) = order[g][last] /\ last \in DOMAIN order[g]
  BY <1>5, <1>6 DEF Forest!LastOf
<1>8. PICK base : Layout(base)
  BY LinesLaidOut
<1> HIDE DEF g, j
<1>9. LineOf(Current(s)) = base[k - 1] + 1 + j
  BY <1>2, <1>4, <1>6, <1>8, LineIs
<1>10. base[k - 1] \in Nat /\ base[k] = base[k - 1] + 1 + last
  BY <1>1, <1>4, <1>8 DEF Layout
<1>11. CASE e # Forest!LastOf(order[g], NoElement)
  <2>1. j + 1 \in DOMAIN order[g]
    BY <1>5, <1>6, <1>7, <1>11
  <2>2. t = Forest!Pick(s, g, order[g][j + 1])
    BY <1>2, <1>11 DEF Forest!SelectNext, g, j
  <2>3. Current(t) = order[g][j + 1]
    BY <1>2, <2>2, PickedIs
  <2>4. Current(t) # NoElement
    BY <1>2, <2>1, <2>3, InList
  <2>5. LineOf(Current(t)) = base[k - 1] + 1 + (j + 1) /\ base[k - 1] + 1 + (j + 1) \in DOMAIN Lines
    BY <1>4, <1>8, <2>1, <2>3, LineIs
  <2>6. LineOf(Current(t)) = LineOf(Current(s)) + 1
    <3> DEFINE b == base[k - 1]
    <3>1. LineOf(Current(t)) = b + 1 + (j + 1) /\ LineOf(Current(s)) = b + 1 + j /\ b \in Nat /\ j \in Nat
      BY <1>5, <1>6, <1>9, <1>10, <2>5
    <3> HIDE DEF b, t
    <3> QED
      BY <3>1
  <2> QED
    BY <2>4, <2>5, <2>6 DEF Downward
<1>12. CASE e = Forest!LastOf(order[g], NoElement)
  <2> DEFINE k2 == IF k = n THEN 1 ELSE k + 1
             g2 == group_list[k2]
             s2 == [s EXCEPT !.group = g2]
             x == Forest!FirstOf(order[g2], NoElement)
  <2>1. j = last
    BY <1>2, <1>6, <1>7, <1>12 DEF ElementsOnce
  <2>2. k2 \in 1 .. n /\ g2 \in Groups /\ g2 \in Listed
    <3>1. k2 \in 1 .. n
      <4>1. n \in Nat \ {0} /\ k \in 1 .. n
        BY <1>1, <1>4
      <4> HIDE DEF n, g, e, t, last, g2, s2, x
      <4> QED
        BY ONLY <4>1
    <3> HIDE DEF k2
    <3> QED
      BY <1>1, <3>1 DEF Listed, Range
  <2>3. Forest!GroupSelectNext(g) = g2
    BY <1>4, NextGroup DEF ElementsOnce
  <2>4. s2 \in Sels /\ s2.group = g2
    BY <2>2, MoveOK DEF Sels
  <2>5. t = Forest!SelectFirst(s2)
    BY <1>2, <1>12, <2>3 DEF Forest!SelectNext, g
  <2>6. Forest!GroupCurrent(s2.group) = g2
    BY <2>2, <2>4, ForestAssumption DEF Forest!GroupCurrent
  <2> HIDE DEF k2, g2, s2, t
  <2>7. t = Forest!Pick(s2, g2, x)
    BY <2>5, <2>6 DEF Forest!SelectFirst
  <2>8. Current(t) = x /\ Forest!GroupCurrent(t.group) = g2
    BY <2>2, <2>4, <2>7, PickedIs
  <2>9. CASE order[g2] = <<>>
    BY <2>8, <2>9 DEF Forest!FirstOf, Nowhere, t
  <2>10. CASE order[g2] # <<>>
    <3>1. x = order[g2][1] /\ 1 \in DOMAIN order[g2]
      <4>1. order[g2] \in Seq(Elements)
        BY <2>2 DEF Forested
      <4> QED
        BY <2>10, <4>1, EmptySeq, LenProperties DEF Forest!FirstOf
    <3>2. Current(t) # NoElement
      BY <2>2, <2>8, <3>1, InList
    <3>3. LineOf(Current(t)) = base[k2 - 1] + 1 + 1 /\ base[k2 - 1] + 1 + 1 \in DOMAIN Lines
      BY <1>8, <2>2, <2>8, <3>1, LineIs DEF g2
    <3>4. CASE k = n
      <4>1. base[k2 - 1] = 0
        BY <1>8, <3>4 DEF k2, Layout
      <4> QED
        BY <3>2, <3>3, <4>1 DEF Downward, t
    <3>5. CASE k # n
      <4>1. k2 - 1 = k /\ k2 = k + 1
        <5>1. k \in Nat /\ k2 = k + 1
          <6>1. n \in Nat \ {0} /\ k \in 1 .. n
            BY <1>1, <1>4
          <6> HIDE DEF n
          <6> QED
            BY ONLY <3>5, <6>1 DEF k2
        <5> QED
          BY <5>1
      <4>2. base[k] = LineOf(Current(s)) /\ base[k] \in Nat
        BY <1>9, <1>10, <2>1, <1>5, <1>7
      <4>3. Lines[base[k] + 1] = NoElement
        BY <1>8, <2>2, <4>1 DEF Layout
      <4>4. LineOf(Current(t)) = LineOf(Current(s)) + 2
        BY <3>3, <4>1, <4>2
      <4> QED
        BY <3>2, <3>3, <4>2, <4>3, <4>4 DEF Downward, t
    <3> QED
      BY <3>4, <3>5
  <2> QED
    BY <2>9, <2>10
<1> QED
  BY <1>11, <1>12

\* In an empty group Down leads nowhere.
LEMMA DownNowhere ==
  ASSUME Forested, group_list # <<>>, NEW s \in Sels, Nowhere(s)
  PROVE  Nowhere(Forest!SelectNext(s))
<1> DEFINE g == Forest!GroupCurrent(s.group)
<1>1. g \in Groups /\ s.cur[g] = NoElement /\ order[g] = <<>>
  BY CurrentGroup DEF Nowhere, Current
<1>2. Forest!SelectNext(s) = Forest!Pick(s, g, NoElement)
  BY <1>1 DEF Forest!SelectNext, Forest!SelectFirst, Forest!FirstOf
<1> HIDE DEF g
<1>3. Current(Forest!SelectNext(s)) = NoElement /\ Forest!GroupCurrent(Forest!SelectNext(s).group) = g
  BY <1>1, <1>2, PickedIs
<1> QED
  BY <1>1, <1>3 DEF Nowhere

-----------------------------------------------------------------------------
\* The titles from line a to line b.
TitlesIn(a, b) == {i \in a .. b : Lines[i] = NoElement}
Titles(a, b) == Cardinality(TitlesIn(a, b))

\* One line more has one title more, or none.
LEMMA TitlesFacts ==
  ASSUME NEW a \in Nat, NEW b \in Nat
  PROVE  /\ Titles(a, b) \in Nat
         /\ Titles(a, b) <= Titles(a, b + 1)
         /\ a <= b + 1 /\ Lines[b + 1] = NoElement => Titles(a, b + 1) = Titles(a, b) + 1
<1>1. IsFiniteSet(a .. b) /\ IsFiniteSet(a .. b + 1)
  BY FS_Interval
<1>2. IsFiniteSet(TitlesIn(a, b)) /\ IsFiniteSet(TitlesIn(a, b + 1))
  BY <1>1, FS_Subset DEF TitlesIn
<1>3. TitlesIn(a, b) \subseteq TitlesIn(a, b + 1)
  BY DEF TitlesIn
<1>4. ASSUME a <= b + 1, Lines[b + 1] = NoElement
      PROVE  TitlesIn(a, b + 1) = TitlesIn(a, b) \cup {b + 1} /\ b + 1 \notin TitlesIn(a, b)
  BY <1>4 DEF TitlesIn
<1>5. Titles(a, b) \in Nat
  BY <1>2, FS_CardinalityType DEF Titles
<1>6. Titles(a, b) <= Titles(a, b + 1)
  BY <1>2, <1>3, FS_Subset DEF Titles
<1>7. a <= b + 1 /\ Lines[b + 1] = NoElement => Titles(a, b + 1) = Titles(a, b) + 1
  BY <1>2, <1>4, FS_AddElement DEF Titles
<1> QED
  BY <1>5, <1>6, <1>7

\* After i moves down from a line: nowhere, not below it, or no further below
\* it than i lines and the titles between.
Walked(from, i, s) ==
    \/ Nowhere(s)
    \/ LET l == LineOf(Current(s)) IN
       /\ Current(s) # NoElement /\ l \in DOMAIN Lines
       /\ l <= from \/ l - from <= i + Titles(from, l)

\* One move more goes one line further, and over a title at most.
LEMMA WalkStep ==
  ASSUME Forested, ElementsOnce, group_list # <<>>, NEW s \in Sels,
         NEW from \in DOMAIN Lines, from >= 2, Lines[from] # NoElement,
         NEW i \in Nat, Walked(from, i, s)
  PROVE  Walked(from, i + 1, Forest!SelectNext(s))
<1> DEFINE t == Forest!SelectNext(s)
           l == LineOf(Current(s))
           d == LineOf(Current(t))
<1>1. CASE Nowhere(s)
  BY <1>1, DownNowhere DEF Walked
<1>2. CASE ~Nowhere(s)
  <2>1. /\ Current(s) # NoElement /\ l \in DOMAIN Lines
        /\ l <= from \/ l - from <= i + Titles(from, l)
    BY <1>2 DEF Walked
  <2>2. Nowhere(t) \/ Downward(l, t)
    BY <2>1, DownLine
  <2>3. DOMAIN Lines = 1 .. Len(Lines) /\ Len(Lines) \in Nat
    BY LinesFacts
  <2>4. CASE Nowhere(t)
    BY <2>4 DEF Walked
  <2>5. CASE Downward(l, t)
    <3>1. /\ Current(t) # NoElement /\ d \in DOMAIN Lines
          /\ d = 2 \/ d = l + 1 \/ (d = l + 2 /\ Lines[l + 1] = NoElement)
      BY <2>5 DEF Downward
    <3>2. /\ Titles(from, l) \in Nat /\ Titles(from, l + 1) \in Nat /\ Titles(from, (l + 1) + 1) \in Nat
          /\ Titles(from, l) <= Titles(from, l + 1)
          /\ Titles(from, l + 1) <= Titles(from, (l + 1) + 1)
          /\ from <= l + 1 /\ Lines[l + 1] = NoElement => Titles(from, l + 1) = Titles(from, l) + 1
      <4>1. from \in Nat /\ l \in Nat /\ l + 1 \in Nat
        BY <2>1, <2>3
      <4> HIDE DEF l
      <4>2. /\ Titles(from, l) \in Nat /\ Titles(from, l) <= Titles(from, l + 1)
            /\ from <= l + 1 /\ Lines[l + 1] = NoElement => Titles(from, l + 1) = Titles(from, l) + 1
        BY <4>1, TitlesFacts
      <4> DEFINE l1 == l + 1
      <4>3. l1 \in Nat
        BY <4>1
      <4> HIDE DEF l1
      <4>4. Titles(from, l1) \in Nat /\ Titles(from, l1) <= Titles(from, l1 + 1)
        BY <4>1, <4>3, TitlesFacts
      <4>5. l1 + 1 \in Nat
        BY <4>3
      <4>6. Titles(from, l1 + 1) \in Nat
        BY <4>1, <4>5, TitlesFacts
      <4> QED
        BY <4>2, <4>4, <4>6 DEF l1
    <3>3. (l + 1) + 1 = l + 2 /\ l \in Nat /\ from \in Nat
      BY <2>1, <2>3
    <3>4. d <= from \/ d - from <= (i + 1) + Titles(from, d)
      <4>1. CASE d = 2
        BY <4>1, <3>3
      <4>2. CASE d = l + 1
        <5> HIDE DEF d, l
        <5> QED
          BY <2>1, <3>2, <3>3, <4>2
      <4>3. CASE d = l + 2 /\ Lines[l + 1] = NoElement
        <5>1. l + 1 # from
          BY <4>3
        <5> HIDE DEF d, l
        <5> QED
          BY <2>1, <3>2, <3>3, <4>3, <5>1
      <4> QED
        BY <3>1, <4>1, <4>2, <4>3
    <3> QED
      BY <3>1, <3>4 DEF Walked
  <2> QED
    BY <2>2, <2>4, <2>5
<1> QED
  BY <1>1, <1>2

\* The selected element is in its line.
LEMMA ElementLine ==
  ASSUME Forested, ElementsOnce, group_list # <<>>, NEW s \in Sels, Current(s) # NoElement
  PROVE  /\ Current(s) \in Elements
         /\ LineOf(Current(s)) \in DOMAIN Lines /\ LineOf(Current(s)) >= 2
         /\ Lines[LineOf(Current(s))] = Current(s)
<1> DEFINE n == Len(group_list)
           g == Forest!GroupCurrent(s.group)
<1>1. n \in Nat \ {0} /\ DOMAIN group_list = 1 .. n
  BY LenProperties, EmptySeq DEF Forested
<1>2. Current(s) = s.cur[g] /\ g \in Listed /\ g \in Groups
  BY CurrentGroup DEF Current
<1>3. Current(s) \in Range(order[g])
  BY <1>2 DEF Sels, Selectable
<1>4. PICK k \in 1 .. n : group_list[k] = g
  BY <1>1, <1>2 DEF Listed, Range
<1> HIDE DEF g
<1>5. PICK j \in DOMAIN order[g] : Current(s) = order[g][j]
  BY <1>3 DEF Range
<1>6. PICK base : Layout(base)
  BY LinesLaidOut
<1>7. LineOf(Current(s)) = base[k - 1] + 1 + j /\ base[k - 1] + 1 + j \in DOMAIN Lines
  BY <1>4, <1>5, <1>6, LineIs
<1>8. Lines[base[k - 1] + 1 + j] = Current(s)
  BY <1>4, <1>5, <1>6 DEF Layout
<1>9. base[k - 1] + 1 + j >= 2
  <2>1. k - 1 \in 0 .. n
    BY <1>1, <1>4
  <2>2. base[k - 1] \in Nat
    BY <1>6, <2>1 DEF Layout
  <2>3. j \in Nat /\ j >= 1
    <3>1. order[g] \in Seq(Elements)
      BY <1>2 DEF Forested
    <3> QED
      BY <1>5, <3>1, LenProperties
  <2> DEFINE b == base[k - 1]
  <2>4. b \in Nat
    BY <2>2
  <2> HIDE DEF b
  <2>5. b + 1 + j >= 2
    BY <2>3, <2>4
  <2> QED
    BY <2>5 DEF b
<1>10. Current(s) \in Elements
  BY <1>2, <1>5, InList
<1> QED
  BY <1>7, <1>8, <1>9, <1>10

\* What PgDn selects is no further down than the page is long, titles aside.
LEMMA PageWalks ==
  ASSUME Forested, ElementsOnce, group_list # <<>>, Forest!Selection \in Sels,
         Current(Forest!Selection) # NoElement, NEW n \in Int
  PROVE  \A s \in Page(n, LAMBDA t : Forest!SelectNext(t)) :
            Walked(LineOf(Current(Forest!Selection)), Max({0, n}), s)
<1> DEFINE m == Max({0, n})
           x == Forest!Selection
           from == LineOf(Current(x))
<1>1. PICK f : RunsDown(f, m) /\ Page(n, LAMBDA t : Forest!SelectNext(t)) = f[m]
  BY PageDownRuns
<1>2. m \in Nat
  BY PageLength
<1>3. from \in DOMAIN Lines /\ from >= 2 /\ Lines[from] # NoElement
  BY ElementLine
<1> DEFINE I == {i \in Nat : i <= m => f[i] \subseteq Sels /\ \A s \in f[i] : Walked(from, i, s)}
<1>4. 0 \in I
  <2>1. f[0] = {x}
    BY <1>1 DEF RunsDown
  <2>2. Walked(from, 0, x)
    BY <1>3 DEF Walked
  <2> HIDE DEF from, x
  <2> QED
    BY <2>1, <2>2 DEF x
<1> HIDE DEF from, m, x
<1>5. ASSUME NEW i \in Nat, i + 1 <= m, f[i] \subseteq Sels, \A s \in f[i] : Walked(from, i, s)
      PROVE  f[i + 1] \subseteq Sels /\ \A s \in f[i + 1] : Walked(from, i + 1, s)
  <2>1. i + 1 \in 1 .. m /\ (i + 1) - 1 = i
    BY <1>2, <1>5
  <2>2. f[i + 1] \subseteq Sels /\ f[i + 1] = {Forest!SelectNext(s) : s \in f[i]}
    BY <1>1, <1>5, <2>1 DEF RunsDown
  <2>3. ASSUME NEW s \in f[i] PROVE Walked(from, i + 1, Forest!SelectNext(s))
    <3>1. s \in Sels /\ Walked(from, i, s)
      BY <1>5
    <3> QED
      BY <1>3, <3>1, WalkStep
  <2> QED
    BY <2>2, <2>3
<1>6. \A i \in Nat : i \in I => i + 1 \in I
  BY <1>2, <1>5
<1>7. m \in I
  <2> HIDE DEF I
  <2> QED
    BY <1>2, <1>4, <1>6, NatSetInduction
<1>8. \A s \in f[m] : Walked(from, m, s)
  BY <1>2, <1>7
<1> QED
  BY <1>1, <1>8 DEF from, m, x

-----------------------------------------------------------------------------
PInv == IInv /\ ElementsOnce /\ LengthKept

\* The two windows of the list that a move shows, if it is no longer than one of
\* them, leave no line out.
LEMMA WindowsMeet ==
  ASSUME NEW x \in Nat, NEW y \in Nat, NEW len \in Nat \ {0}, NEW req \in Nat, NEW half \in Nat,
         half < len, x < y, y < req, y - x <= len, NEW i \in x .. y,
         NEW o, o = LET upper == x - half
                        wish == IF upper >= 0 THEN upper ELSE 0
                        last == req - len
                    IN  IF wish <= last THEN wish ELSE last,
         NEW p, p = LET upper == y - half
                        wish == IF upper >= 0 THEN upper ELSE 0
                        last == req - len
                    IN  IF wish <= last THEN wish ELSE last
  PROVE  (o <= i /\ i < o + len) \/ (p <= i /\ i < p + len)
OBVIOUS

\* What PgDn leaves behind or reaches has been on the screen, in any state with
\* the invariant.
LEMMA PageStep ==
  ASSUME PInv, KeyPageDown, OnScreen, Drawn("list", current_element, Screen)
  PROVE  LET new == Current(Forest!Selection)'
             from == SelectionOffset(current_element) + 1
             to == SelectionOffset(new) + 1
             len == list_length
         IN  from < to /\ Plan(new, Screen).len = len
             /\ Cardinality({i \in from .. to : Lines[i] = NoElement}) <= 1
             => \A i \in from .. to : LineVisible(i, current_element, len) \/ LineVisible(i, new, len)
<1> DEFINE e == current_element
           new == Current(Forest!Selection)'
           from == SelectionOffset(e) + 1
           to == SelectionOffset(new) + 1
           len == list_length
<1> SUFFICES ASSUME from < to, Cardinality({i \in from .. to : Lines[i] = NoElement}) <= 1,
                    NEW i \in from .. to
             PROVE  LineVisible(i, e, len) \/ LineVisible(i, new, len)
  OBVIOUS
<1>1. /\ TypeOK /\ Forested /\ ElementsOnce /\ Forest!Selection \in Sels
      /\ e \in Elements /\ e \in Range(Lines) /\ "list" \in show /\ Size(Screen)
  BY OnScreenFacts DEF PInv, IInv, TypeOK, Drawn
<1>2. e = Current(Forest!Selection) /\ e # NoElement
  BY DEF PInv, IInv, CachedIsCurrent, OnScreen
<1>3. group_list # <<>>
  BY <1>2 DEF Current
<1>4. len = Plan(e, Screen).len
  BY DEF PInv, LengthKept, OnScreen
<1>5. SelectionOffset(e) \in 1 .. ListReq - 1 /\ ListReq \in Nat
  BY <1>1, SelectionOffsetFacts
<1>6. len \in Nat \ {0}
  <2>1. Plan(e, Screen).fits
    BY DEF OnScreen
  <2>2. /\ Plan(e, Screen).len \in Int /\ c_list_min \in Nat \ {0}
        /\ Plan(e, Screen).len = ListReq \/ Plan(e, Screen).len >= c_list_min
    BY <1>1, <2>1, PlanCases DEF TypeOK
  <2> HIDE DEF len, e
  <2> QED
    BY <1>4, <1>5, <2>2
<1>7. PICK s \in Page(len - 1, LAMBDA t : Forest!SelectNext(t)) : Select(s)
  BY <1>3 DEF KeyPageDown
<1>8. s \in Sels /\ Walked(LineOf(e), len - 1, s)
  <2>1. len - 1 \in Int
    BY <1>6
  <2>2. Max({0, len - 1}) = len - 1
    <3>1. Max({0, len - 1}) = IF 0 >= len - 1 THEN 0 ELSE len - 1
      BY <2>1, PageLength
    <3> QED
      BY <1>6, <3>1
  <2> QED
    BY <1>1, <1>2, <1>3, <1>7, <2>1, <2>2, PageDownOK, PageWalks
<1>9. new = Current(s)
  <2>1. Forest!SetSelection(s) /\ UNCHANGED forest
    BY <1>7 DEF Select
  <2>2. s = [group |-> s.group, cur |-> s.cur]
    BY <1>8 DEF Sels
  <2>3. Forest!Selection' = s
    BY <2>1, <2>2 DEF Forest!SetSelection, Forest!Selection
  <2> QED
    BY <2>1, <2>3 DEF Current, forest, Forest!GroupCurrent, Forest!FirstOf
<1> HIDE DEF new, e, len
<1>10. \A z : SelectionOffset(z) = LineOf(z) - 1
  BY <1>1 DEF SelectionOffset, LineOf
<1>11. LineOf(e) \in DOMAIN Lines /\ DOMAIN Lines = 1 .. Len(Lines) /\ Len(Lines) \in Nat /\ from = LineOf(e)
  <2>1. LineOf(e) \in DOMAIN Lines /\ DOMAIN Lines = 1 .. Len(Lines) /\ Len(Lines) \in Nat
    BY <1>1, <1>2, <1>3, ElementLine, LinesFacts
  <2> QED
    BY <1>10, <2>1
<1>12. ~Nowhere(s)
  <2> SUFFICES ASSUME Nowhere(s) PROVE FALSE
    OBVIOUS
  <2>1. new = NoElement
    BY <1>9 DEF Nowhere
  <2> DEFINE T == {j \in DOMAIN Lines : Lines[j] = NoElement}
  <2>2. 1 \in T /\ T \subseteq 0 .. Len(Lines)
    BY <1>1, <1>3, <1>11, LinesFacts
  <2> HIDE DEF T
  <2>3. Min(T) \in T /\ Min(T) <= 1
    BY <1>11, <2>2, MinIsLeast
  <2>4. LineOf(new) <= 1 /\ LineOf(new) \in Nat
    BY <1>11, <2>1, <2>2, <2>3 DEF LineOf, T
  <2>5. to = LineOf(new)
    BY <1>10, <2>4
  <2> QED
    BY <1>5, <2>4, <2>5
<1>13. /\ new # NoElement /\ new \in Elements
       /\ LineOf(new) \in DOMAIN Lines /\ Lines[LineOf(new)] = new
       /\ LineOf(new) <= LineOf(e) \/ LineOf(new) - LineOf(e) <= len - 1 + Titles(LineOf(e), LineOf(new))
  <2>1. /\ Current(s) # NoElement
        /\ LineOf(new) <= LineOf(e) \/ LineOf(new) - LineOf(e) <= len - 1 + Titles(LineOf(e), LineOf(new))
    BY <1>8, <1>9, <1>12 DEF Walked
  <2> QED
    BY <1>1, <1>3, <1>8, <1>9, <2>1, ElementLine
<1>14. to = LineOf(new)
  BY <1>10, <1>11, <1>13
<1>15. to - from <= len
  <2>1. Titles(LineOf(e), LineOf(new)) <= 1 /\ Titles(LineOf(e), LineOf(new)) \in Nat
    <3>1. Titles(LineOf(e), LineOf(new)) = Cardinality({k \in from .. to : Lines[k] = NoElement})
      BY <1>11, <1>14 DEF Titles, TitlesIn
    <3>2. LineOf(e) \in Nat /\ LineOf(new) \in Nat
      BY <1>11, <1>13
    <3> QED
      BY <3>1, <3>2, TitlesFacts
  <2> QED
    BY <1>6, <1>11, <1>13, <1>14, <2>1
<1>16. new \in Range(Lines)
  BY <1>13 DEF Range
<1> DEFINE x == SelectionOffset(e)
           y == SelectionOffset(new)
           half == len \div 2
<1>17. SelectionOffset(new) \in 1 .. ListReq - 1
  BY <1>1, <1>13, <1>16, SelectionOffsetFacts
<1>18. Offset(e, len) = LET upper == x - half
                            wish == IF upper >= 0 THEN upper ELSE 0
                            last == ListReq - len
                        IN  IF wish <= last THEN wish ELSE last
  BY <1>1, <1>6, OffsetIs
<1>19. Offset(new, len) = LET upper == y - half
                              wish == IF upper >= 0 THEN upper ELSE 0
                              last == ListReq - len
                          IN  IF wish <= last THEN wish ELSE last
  BY <1>1, <1>6, <1>13, <1>16, OffsetIs
<1>20. half \in Nat /\ half < len
  BY <1>6
<1>21. x \in Nat /\ y \in Nat /\ x < y /\ y < ListReq /\ y - x <= len /\ i - 1 \in x .. y
  <2>1. x \in Nat /\ y \in Nat /\ from = x + 1 /\ to = y + 1 /\ y < ListReq
    BY <1>5, <1>17
  <2> HIDE DEF x, y, from, to
  <2> QED
    BY <1>6, <1>15, <2>1
<1> HIDE DEF x, y, half
<1>22. \/ Offset(e, len) <= i - 1 /\ i - 1 < Offset(e, len) + len
       \/ Offset(new, len) <= i - 1 /\ i - 1 < Offset(new, len) + len
  BY <1>5, <1>6, <1>18, <1>19, <1>20, <1>21, WindowsMeet
<1> QED
  BY <1>22 DEF LineVisible

\* PgDn passes no element unseen, as long as the list keeps its length and it
\* crosses at most one title: every line between the old and the new selection
\* was on the screen before or is after.
THEOREM PageNeverSkips == Spec => PageSkipsNothing
<1>1. Init => ElementsOnce /\ LengthKept
  BY DEF Init, ElementsOnce, IsDistinct, LengthKept, IsSmall, Screen
<1>2. IInv /\ ElementsOnce /\ LengthKept /\ [Next]_vars => ElementsOnce' /\ LengthKept'
  BY OnceKept, LengthStep DEF IInv
<1>3. PInv => (KeyPageDown /\ OnScreen /\ Drawn("list", current_element, Screen) =>
         LET new == Current(Forest!Selection)'
             from == SelectionOffset(current_element) + 1
             to == SelectionOffset(new) + 1
             len == list_length
         IN  from < to /\ Plan(new, Screen).len = len
             /\ Cardinality({i \in from .. to : Lines[i] = NoElement}) <= 1
             => \A i \in from .. to : LineVisible(i, current_element, len) \/ LineVisible(i, new, len))
  BY PageStep
<1> QED
  BY <1>1, <1>2, <1>3, CachedAlwaysCurrent, PTL DEF Spec, PInv, IInv, PageSkipsNothing

=============================================================================
