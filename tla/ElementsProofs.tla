--------------------------- MODULE ElementsProofs ---------------------------
(***************************************************************************)
(* Proofs about Elements, for every set of addresses, groups and names and  *)
(* every lifetime: an inductive invariant that contains the type invariant, *)
(* SelectionLive, ListsExact, CountExact and NoOrphans; on top of it, one   *)
(* for the order of the lists (PreOrder) and one for the lifetimes           *)
(* (CountedOnce, StaleIsDropped); and where the keys                         *)
(* Down and Up lead (UpUndoesDown, DownVisitsAll).  The last part is about   *)
(* the netlink input on top of Elements: its steps are steps of Elements,    *)
(* and a reading takes the whole of the kernel's tree (ReadsWhole), which is   *)
(* what the screen shows once the kernel has come to rest (Settles).        *)
(***************************************************************************)
EXTENDS Netlink, Lemmas, FiniteSetTheorems, TLAPS

\* PosIn finds what is listed.
LEMMA PosInFacts ==
  ASSUME NEW s, NEW x, \E i \in DOMAIN s : s[i] = x
  PROVE  PosIn(s, x) \in DOMAIN s /\ s[PosIn(s, x)] = x
BY DEF PosIn

(***************************************************************************)
(* The inductive invariant.  SelectionLive says too little on its own: that *)
(* the neighbour the selection moves to is allocated follows from           *)
(* ListsExact; that element_free() finds a childless element to begin with  *)
(* needs parents to stand before their children and orphans not to exist.   *)
(***************************************************************************)
Listed == {group_list[i] : i \in DOMAIN group_list}

GroupsListed ==
    /\ current_group \in Listed \cup {NoGroup}
    /\ \A e \in Elements : Live(e) => e_group[e] \in Listed

SelectedInGroup == \A g \in Groups : g_current[g] # NoElement => e_group[g_current[g]] = g

DeadClean == \A e \in Elements : ~Live(e) => e_parent[e] = NoElement

ParentBefore ==
    \A g \in Groups : \A i, j \in DOMAIN order[g] :
        e_parent[order[g][j]] = order[g][i] => i < j

FreeAtPlace == pc = "free" => IsPlace(walk)

Lists == TypeOK /\ ListsExact /\ GroupsListed
IInv == /\ Lists /\ SelectedInGroup /\ CountExact /\ NoOrphans
        /\ DeadClean /\ ParentBefore /\ FreeAtPlace

\* A selection that points at elements of the right group only.
SelOK(s) ==
    /\ s \in [group : Listed \cup {NoGroup}, cur : [Groups -> Elements \cup {NoElement}]]
    /\ \A g \in Groups : s.cur[g] # NoElement => e_group[s.cur[g]] = g

Selectable(g, e) == e = NoElement \/ (e \in Elements /\ e_group[e] = g)

-----------------------------------------------------------------------------
(***************************************************************************)
(* Moving the selection.                                                    *)
(***************************************************************************)
\* The listed groups are groups.
LEMMA ListedIsGroup ==
  ASSUME TypeOK
  PROVE  Listed \subseteq Groups
BY DEF TypeOK, Listed

\* What stands in a group's list is an element of that group.
LEMMA InList ==
  ASSUME Lists, NEW g \in Groups, NEW i \in DOMAIN order[g]
  PROVE  order[g][i] \in Elements /\ Selectable(g, order[g][i]) /\ order[g][i] # NoElement
BY NullAssumption DEF Lists, TypeOK, ListsExact, Selectable

\* First and last of a list are NULL or in the list.
LEMMA EndsSelectable ==
  ASSUME Lists, NEW g \in Groups
  PROVE  /\ Selectable(g, FirstOf(order[g], NoElement))
         /\ Selectable(g, LastOf(order[g], NoElement))
<1>1. CASE order[g] = <<>>
  BY <1>1 DEF FirstOf, LastOf, Selectable
<1>2. CASE order[g] # <<>>
  <2>1. 1 \in DOMAIN order[g] /\ Len(order[g]) \in DOMAIN order[g]
    BY <1>2, EmptySeq, LenProperties DEF Lists, TypeOK
  <2> QED
    BY <1>2, <2>1, InList DEF FirstOf, LastOf
<1> QED
  BY <1>1, <1>2

\* The steps between groups stay among the groups there are.
LEMMA GroupSteps ==
  ASSUME TypeOK, group_list # <<>>, NEW g \in Listed \cup {NoGroup}
  PROVE  /\ GroupSelectNext(g) \in Listed
         /\ GroupSelectPrev(g) \in Listed
         /\ GroupCurrent(g) \in Listed
<1>1. /\ DOMAIN group_list = 1 .. Len(group_list)
      /\ Len(group_list) \in Nat \ {0}
  BY EmptySeq, LenProperties DEF TypeOK
<1>2. FirstOf(group_list, NoGroup) = group_list[1]
      /\ LastOf(group_list, NoGroup) = group_list[Len(group_list)]
  BY DEF FirstOf, LastOf
<1>3. FirstOf(group_list, NoGroup) \in Listed /\ LastOf(group_list, NoGroup) \in Listed
  BY <1>1, <1>2 DEF Listed
<1>4. ASSUME g # NoGroup
      PROVE  PosIn(group_list, g) \in DOMAIN group_list /\ group_list[PosIn(group_list, g)] = g
  BY <1>4, PosInFacts DEF Listed
<1>5. ASSUME g # NoGroup, g # group_list[Len(group_list)]
      PROVE  group_list[PosIn(group_list, g) + 1] \in Listed
  <2>1. PosIn(group_list, g) + 1 \in DOMAIN group_list
    BY <1>1, <1>4, <1>5
  <2> QED
    BY <2>1 DEF Listed
<1>6. ASSUME g # NoGroup, g # group_list[1]
      PROVE  group_list[PosIn(group_list, g) - 1] \in Listed
  <2>1. PosIn(group_list, g) - 1 \in DOMAIN group_list
    BY <1>1, <1>4, <1>6
  <2> QED
    BY <2>1 DEF Listed
<1> QED
  BY <1>2, <1>3, <1>5, <1>6 DEF GroupSelectNext, GroupSelectPrev, GroupCurrent

\* Selecting a NULL or live element of a listed group keeps a selection sound.
LEMMA PickOK ==
  ASSUME Lists, NEW s, SelOK(s), NEW g \in Listed, NEW e, Selectable(g, e)
  PROVE  SelOK(Pick(s, g, e))
<1>1. g \in Groups
  BY ListedIsGroup DEF Lists
<1> QED
  BY <1>1 DEF SelOK, Selectable, Pick

\* element_select_first() and element_select_last() lead to allocated elements.
LEMMA SelectEndsOK ==
  ASSUME Lists, group_list # <<>>, NEW s, SelOK(s)
  PROVE  SelOK(SelectFirst(s)) /\ SelOK(SelectLast(s))
<1>1. s.group \in Listed \cup {NoGroup}
  BY DEF SelOK
<1>2. GroupCurrent(s.group) \in Listed /\ GroupCurrent(s.group) \in Groups
  BY <1>1, GroupSteps, ListedIsGroup DEF Lists
<1> QED
  BY <1>2, EndsSelectable, PickOK DEF SelectFirst, SelectLast

\* element_select_next() and element_select_prev() lead to allocated elements.
LEMMA SelectStepsOK ==
  ASSUME Lists, group_list # <<>>, NEW s, SelOK(s)
  PROVE  SelOK(SelectNext(s)) /\ SelOK(SelectPrev(s))
<1> DEFINE g == GroupCurrent(s.group)
           e == s.cur[g]
<1>1. s.group \in Listed \cup {NoGroup}
  BY DEF SelOK
<1>2. g \in Listed /\ g \in Groups
  BY <1>1, GroupSteps, ListedIsGroup DEF Lists
<1>3. SelOK(SelectFirst(s)) /\ SelOK(SelectLast(s))
  BY SelectEndsOK
<1>4. GroupSelectNext(g) \in Listed /\ GroupSelectPrev(g) \in Listed
  BY <1>2, GroupSteps DEF Lists
<1>5. SelOK([s EXCEPT !.group = GroupSelectNext(g)]) /\ SelOK([s EXCEPT !.group = GroupSelectPrev(g)])
  BY <1>4 DEF SelOK
<1>6. /\ SelOK(SelectFirst([s EXCEPT !.group = GroupSelectNext(g)]))
      /\ SelOK(SelectLast([s EXCEPT !.group = GroupSelectPrev(g)]))
  BY <1>5, SelectEndsOK
<1>7. order[g] \in Seq(Elements) /\ DOMAIN order[g] = 1 .. Len(order[g]) /\ Len(order[g]) \in Nat
  BY <1>2, LenProperties DEF Lists, TypeOK
<1>8. ASSUME e # NoElement
      PROVE  /\ PosIn(order[g], e) \in DOMAIN order[g]
             /\ order[g][PosIn(order[g], e)] = e
  <2>1. e \in Elements /\ e_group[e] = g
    BY <1>2, <1>8 DEF SelOK
  <2>2. g # NoGroup
    BY <1>2, NullAssumption
  <2>3. \E i \in DOMAIN order[g] : order[g][i] = e
    BY <2>1, <2>2 DEF Lists, ListsExact, Live
  <2> QED
    BY <2>3, PosInFacts
<1>9. ASSUME e # NoElement, e # LastOf(order[g], NoElement)
      PROVE  SelOK(Pick(s, g, order[g][PosIn(order[g], e) + 1]))
  <2>1. PosIn(order[g], e) # Len(order[g]) /\ order[g] # <<>>
    BY <1>7, <1>8, <1>9, EmptySeq DEF LastOf
  <2>2. PosIn(order[g], e) + 1 \in DOMAIN order[g]
    BY <1>7, <1>8, <1>9, <2>1
  <2> QED
    BY <1>2, <2>2, InList, PickOK
<1>10. ASSUME e # NoElement, e # FirstOf(order[g], NoElement)
       PROVE  SelOK(Pick(s, g, order[g][PosIn(order[g], e) - 1]))
  <2>1. PosIn(order[g], e) # 1 /\ order[g] # <<>>
    BY <1>7, <1>8, <1>10, EmptySeq DEF FirstOf
  <2>2. PosIn(order[g], e) - 1 \in DOMAIN order[g]
    BY <1>7, <1>8, <1>10, <2>1
  <2> QED
    BY <1>2, <2>2, InList, PickOK
<1> QED
  BY <1>3, <1>6, <1>9, <1>10 DEF SelectNext, SelectPrev

\* element_current() picks an allocated element.
LEMMA ElementCurrentOK ==
  ASSUME Lists, group_list # <<>>, NEW s, SelOK(s)
  PROVE  SelOK(ElementCurrent(s))
<1> DEFINE g == GroupCurrent(s.group)
           matches(r) == {i \in DOMAIN order[g] : /\ e_parent[order[g][i]] = NoElement
                                                  /\ e_name[order[g][i]] \in Rules[r]}
           hits == {r \in DOMAIN Rules : matches(r) # {}}
<1>1. g \in Listed /\ g \in Groups
  BY GroupSteps, ListedIsGroup DEF Lists, SelOK
<1>2. SelOK(Pick(s, g, s.cur[g]))
  <2>1. Selectable(g, s.cur[g])
    BY <1>1 DEF SelOK, Selectable
  <2> QED
    BY <1>1, <2>1, PickOK
<1>3. Selectable(g, PickFromPolicy(g))
  <2>1. CASE hits = {}
    <3>1. PickFromPolicy(g) = FirstOf(order[g], NoElement)
      BY <2>1, SMTT(40) DEF PickFromPolicy
    <3> HIDE DEF g
    <3> QED
      BY <1>1, <3>1, EndsSelectable
  <2>2. CASE hits # {}
    <3>1. hits \subseteq 0 .. Len(Rules) /\ Len(Rules) \in Nat
      BY PolicyAssumption, LenProperties, SMTT(30)
    <3>2. Min(hits) \in hits
      BY <2>2, <3>1, MinIsLeast
    <3>3. matches(Min(hits)) # {}
      BY <3>2
    <3>4. matches(Min(hits)) \subseteq 0 .. Len(order[g]) /\ Len(order[g]) \in Nat
      <4>1. order[g] \in Seq(Elements)
        BY <1>1 DEF Lists, TypeOK
      <4>2. Len(order[g]) \in Nat /\ DOMAIN order[g] = 1 .. Len(order[g])
        BY <4>1, LenProperties
      <4>3. matches(Min(hits)) \subseteq DOMAIN order[g]
        OBVIOUS
      <4> HIDE DEF matches, hits
      <4> QED
        BY <4>2, <4>3
    <3>5. Min(matches(Min(hits))) \in DOMAIN order[g]
      BY <3>3, <3>4, MinIsLeast
    <3> QED
      BY <1>1, <2>2, <3>5, InList DEF PickFromPolicy
  <2> QED
    BY <2>1, <2>2
<1>4. SelOK(Pick(s, g, PickFromPolicy(g)))
  BY <1>1, <1>3, PickOK
<1> QED
  BY <1>2, <1>4 DEF ElementCurrent

\* What element_free() does to the selections takes the freed element out of all.
LEMMA DeselectOK ==
  ASSUME Lists, group_list # <<>>, NEW s, SelOK(s), NEW e \in Elements, Live(e)
  PROVE  /\ SelOK(Deselect(s, e))
         /\ \A g \in Groups : Deselect(s, e).cur[g] # e
<1> DEFINE g == e_group[e]
           t == IF s.cur[g] = e THEN SelectPrev(s) ELSE s
<1>1. g \in Groups
  BY DEF Lists, TypeOK, Live
<1>2. SelOK(t)
  BY SelectStepsOK
<1> HIDE DEF t
<1>3. SelOK([t EXCEPT !.cur[g] = NoElement])
  BY <1>1, <1>2 DEF SelOK
<1>4. \A h \in Groups : t.cur[h] = e => h = g
  BY <1>2, NullAssumption DEF SelOK
<1>5. CASE t.cur[g] = e
  <2>1. Deselect(s, e) = [t EXCEPT !.cur[g] = NoElement]
    BY <1>5 DEF Deselect, t
  <2>2. \A h \in Groups : [t EXCEPT !.cur[g] = NoElement].cur[h] # e
    BY <1>1, <1>2, <1>4, NullAssumption DEF SelOK
  <2> QED
    BY <1>3, <2>1, <2>2
<1>6. CASE t.cur[g] # e
  BY <1>2, <1>4, <1>6 DEF Deselect, t
<1> QED
  BY <1>5, <1>6

\* The selection of an invariant state is sound.
LEMMA SelectionOK ==
  ASSUME Lists, SelectedInGroup
  PROVE  SelOK(Selection)
BY DEF SelOK, Selection, Lists, TypeOK, GroupsListed, SelectedInGroup

-----------------------------------------------------------------------------
\* The invariant holds when the main loop is entered.
LEMMA InitIInv == Init => IInv
<1> SUFFICES ASSUME Init PROVE IInv
  OBVIOUS
<1> USE NullAssumption, LifecyclesAssumption DEF Init, NoElementYet
<1>1. TypeOK
  BY EmptySeq DEF TypeOK
<1>2. ListsExact /\ SelectedInGroup /\ CountExact /\ NoOrphans
  BY DEF ListsExact, SelectedInGroup, CountExact, NoOrphans, Live
<1>3. GroupsListed /\ DeadClean /\ ParentBefore /\ FreeAtPlace
  BY DEF GroupsListed, DeadClean, ParentBefore, FreeAtPlace, Live
<1> QED
  BY <1>1, <1>2, <1>3 DEF IInv, Lists

\* A step that changes nothing but where the selections point.
LEMMA SelectionStep ==
  ASSUME IInv, NEW s, SelOK(s), SetSelection(s), pc' \in {"keys", "draw"},
         UNCHANGED <<group_list, order, records, e_lifecycles, e_updated, g_nelements, walk, age>>
  PROVE  IInv'
<1> USE DEF IInv, Lists, records
<1>1. current_group' \in Listed \cup {NoGroup} /\ Listed' = Listed
  BY DEF SetSelection, SelOK, Listed
<1>2. Listed \subseteq Groups
  BY ListedIsGroup
<1>3. TypeOK'
  BY <1>1, <1>2 DEF TypeOK, SetSelection, SelOK
<1>4. (ListsExact /\ CountExact /\ NoOrphans /\ DeadClean /\ ParentBefore)'
  BY DEF ListsExact, CountExact, NoOrphans, DeadClean, ParentBefore, Live
<1>5. GroupsListed'
  BY <1>1 DEF GroupsListed, Live
<1>6. SelectedInGroup'
  BY DEF SelectedInGroup, SetSelection, SelOK
<1>7. FreeAtPlace'
  BY DEF FreeAtPlace
<1> QED
  BY <1>3, <1>4, <1>5, <1>6, <1>7

\* The keys of output_pre() preserve the invariant.
LEMMA KeysStep == IInv /\ Keys => IInv'
<1> SUFFICES ASSUME IInv, Keys PROVE IInv'
  OBVIOUS
<1>1. group_list # <<>> /\ pc = "keys" /\ Lists /\ SelOK(Selection)
  BY SelectionOK DEF Keys, KeyDown, KeyUp, KeyGroupNext, KeyGroupPrev, Key, IInv
<1>2. SelOK(SelectNext(Selection)) /\ SelOK(SelectPrev(Selection))
  BY <1>1, SelectStepsOK
<1>3. SelOK(MoveToGroupNext(Selection)) /\ SelOK(MoveToGroupPrev(Selection))
  <2>1. Selection.group \in Listed \cup {NoGroup}
    BY <1>1 DEF SelOK
  <2>2. GroupSelectNext(Selection.group) \in Listed /\ GroupSelectPrev(Selection.group) \in Listed
    BY <1>1, <2>1, GroupSteps DEF Lists
  <2> QED
    BY <1>1, <2>2 DEF SelOK, MoveToGroupNext, MoveToGroupPrev
<1>4. PICK s : SelOK(s) /\ SetSelection(s)
  BY <1>1, <1>2, <1>3, ElementCurrentOK DEF Keys, KeyDown, KeyUp, KeyGroupNext, KeyGroupPrev, Key
<1>5. UNCHANGED <<pc, group_list, order, records, e_lifecycles, e_updated, g_nelements, walk, age>>
  BY DEF Keys, KeyDown, KeyUp, KeyGroupNext, KeyGroupPrev, Key
<1> QED
  BY <1>1, <1>4, <1>5, SelectionStep

\* So does output_draw(), which may pick an element.
LEMMA DrawStep == IInv /\ Draw => IInv'
<1> SUFFICES ASSUME IInv, Draw PROVE IInv'
  OBVIOUS
<1>1. Lists /\ SelOK(Selection)
  BY SelectionOK DEF IInv
<1>2. PICK s : SelOK(s) /\ SetSelection(s)
  BY <1>1, ElementCurrentOK DEF Draw, Selection, SetSelection, selection
<1> QED
  BY <1>2, SelectionStep DEF Draw

\* Steps that neither allocate, free nor select.
LEMMA QuietStep ==
  ASSUME IInv, UNCHANGED <<group_list, selection, order, records, g_nelements>>,
         TypeOK', FreeAtPlace'
  PROVE  IInv'
BY DEF IInv, Lists, selection, records, ListsExact, GroupsListed, SelectedInGroup, CountExact,
       NoOrphans, DeadClean, ParentBefore, Listed, Live

\* reset_update_flags() preserves the invariant.
LEMMA StartReadStep == IInv /\ StartRead => IInv'
<1> SUFFICES ASSUME IInv, StartRead PROVE IInv'
  OBVIOUS
<1>1. TypeOK' /\ FreeAtPlace'
  BY LifecyclesAssumption DEF IInv, Lists, TypeOK, FreeAtPlace, StartRead, selection, records
<1> QED
  BY <1>1, QuietStep DEF StartRead

\* The end of input_read() preserves the invariant.
LEMMA EndReadStep == IInv /\ EndRead => IInv'
<1> SUFFICES ASSUME IInv, EndRead PROVE IInv'
  OBVIOUS
<1>1. TypeOK' /\ FreeAtPlace'
  BY DEF IInv, Lists, TypeOK, FreeAtPlace, EndRead, selection, records
<1> QED
  BY <1>1, QuietStep DEF EndRead

\* element_check_if_dead() preserves it: the counter wraps within its type,
\* and what is freed next stands at the cursor.
LEMMA CheckIfDeadStep == IInv /\ CheckIfDead => IInv'
<1> SUFFICES ASSUME IInv, CheckIfDead PROVE IInv'
  OBVIOUS
<1> DEFINE e == order[group_list[walk.group]][walk.pos]
           n == (e_lifecycles[e] - 1) % Wrap
<1>1. e \in Elements
  BY InList, SMTT(30) DEF CheckIfDead, IsPlace, IInv, Lists, TypeOK
<1>2. n \in 0 .. Wrap - 1
  <2>1. \A x \in Int, w \in Nat \ {0} : x % w \in 0 .. w - 1
    OBVIOUS
  <2>2. e_lifecycles \in [Elements -> 0 .. Wrap - 1] /\ Wrap \in Nat \ {0}
    BY LifecyclesAssumption DEF IInv, Lists, TypeOK
  <2> HIDE DEF e
  <2>3. e_lifecycles[e] - 1 \in Int
    BY <1>1, <2>2
  <2> QED
    BY <2>1, <2>2, <2>3
<1>3. TypeOK'
  <2>1. /\ e_lifecycles' = [e_lifecycles EXCEPT ![e] = n]
        /\ pc' \in {"free", "reap"}
        /\ walk' = walk \/ walk' = [walk EXCEPT !.pos = @ + 1]
    BY DEF CheckIfDead
  <2> HIDE DEF e, n
  <2>2. e_lifecycles' \in [Elements -> 0 .. Wrap - 1]
    BY <1>1, <1>2, <2>1 DEF IInv, Lists, TypeOK
  <2>3. walk' \in [group : Nat \ {0}, pos : Nat \ {0}]
    BY <2>1 DEF IInv, Lists, TypeOK
  <2> QED
    BY <2>1, <2>2, <2>3 DEF CheckIfDead, IInv, Lists, TypeOK, selection, records
<1>4. FreeAtPlace'
  BY DEF CheckIfDead, FreeAtPlace, IsPlace
<1> QED
  BY <1>3, <1>4, QuietStep DEF CheckIfDead

\* The walk's step to the next group preserves it.
LEMMA NextGroupStep == IInv /\ NextGroup => IInv'
<1> SUFFICES ASSUME IInv, NextGroup PROVE IInv'
  OBVIOUS
<1>1. TypeOK'
  BY DEF NextGroup, IInv, Lists, TypeOK, selection, records
<1>2. FreeAtPlace'
  BY DEF NextGroup, FreeAtPlace
<1> QED
  BY <1>1, <1>2, QuietStep DEF NextGroup

-----------------------------------------------------------------------------
(***************************************************************************)
(* Reporting: group_lookup() and element_lookup() create.                   *)
(***************************************************************************)
\* group_lookup() adds at most the group it is asked for.
LEMMA GroupLookupFacts ==
  ASSUME TypeOK, NEW g \in Groups, GroupLookup(g)
  PROVE  /\ group_list' \in Seq(Groups)
         /\ Listed' = Listed \cup {g}
<1>1. CASE g \in Listed
  BY <1>1 DEF GroupLookup, Listed, TypeOK
<1>2. CASE g \notin Listed
  <2>1. group_list' = Append(group_list, g)
    BY <1>2 DEF GroupLookup, Listed
  <2>2. /\ group_list' \in Seq(Groups)
        /\ DOMAIN group_list' = 1 .. Len(group_list) + 1
        /\ DOMAIN group_list = 1 .. Len(group_list) /\ Len(group_list) \in Nat
        /\ \A i \in 1 .. Len(group_list) : group_list'[i] = group_list[i]
        /\ group_list'[Len(group_list) + 1] = g
    BY <2>1, LenProperties DEF TypeOK
  <2>3. Listed' = {group_list'[i] : i \in 1 .. Len(group_list) + 1}
    BY <2>2 DEF Listed
  <2> QED
    BY <2>2, <2>3 DEF Listed
<1> QED
  BY <1>1, <1>2

\* Reporting what is known or not let in changes lifetimes and groups only.
LEMMA ObserveKnownStep ==
  ASSUME IInv, NEW g \in Groups, NEW n \in Names, NEW p \in Elements \cup {NoElement},
         ObserveKnown(g, n, p) \/ ObserveDenied(g, n, p)
  PROVE  IInv'
<1> USE DEF IInv, Lists
<1>1. GroupLookup(g) /\ UNCHANGED <<pc, selection, order, records, g_nelements, walk>> /\ pc = "read"
  BY DEF ObserveKnown, ObserveDenied
<1>2. group_list' \in Seq(Groups) /\ Listed' = Listed \cup {g}
  BY <1>1, GroupLookupFacts
<1>3. /\ e_lifecycles' \in [Elements -> 0 .. Wrap - 1]
      /\ e_updated' \in [Elements -> BOOLEAN]
      /\ age' \in [Elements -> 0 .. AgeCap]
  <2>1. CASE ObserveDenied(g, n, p)
    BY <2>1 DEF ObserveDenied, TypeOK
  <2>2. CASE ObserveKnown(g, n, p)
    <3>1. PICK e \in Elements : Lifesign(e)
      BY <2>2 DEF ObserveKnown, Lookup
    <3> QED
      BY <3>1, LifecyclesAssumption DEF Lifesign, TypeOK
  <2> QED
    BY <2>1, <2>2
<1>4. TypeOK'
  BY <1>1, <1>2, <1>3 DEF TypeOK, selection, records
<1>5. (ListsExact /\ SelectedInGroup /\ CountExact /\ NoOrphans /\ DeadClean /\ ParentBefore)'
  BY <1>1 DEF selection, records, ListsExact, SelectedInGroup, CountExact, NoOrphans, DeadClean,
              ParentBefore, Live
<1>6. GroupsListed'
  BY <1>1, <1>2 DEF GroupsListed, Live, selection, records
<1>7. FreeAtPlace'
  BY <1>1 DEF FreeAtPlace
<1> QED
  BY <1>4, <1>5, <1>6, <1>7

\* A new element goes into its group's list, and behind its parent.
LEMMA InsertPosFacts ==
  ASSUME IInv, NEW g \in Groups, NEW p \in Elements \cup {NoElement}, IsParent(p, g)
  PROVE  /\ InsertPos(g, p) \in 1 .. Len(order[g]) + 1
         /\ \A i \in DOMAIN order[g] : order[g][i] = p => i < InsertPos(g, p)
<1> DEFINE s == order[g]
           i == PosIn(s, p)
           ends == {j \in i + 1 .. Len(s) + 1 :
                      j = Len(s) + 1 \/ e_parent[s[j]] \notin {s[k] : k \in i .. j - 1}}
<1>1. DOMAIN s = 1 .. Len(s) /\ Len(s) \in Nat
  BY LenProperties DEF IInv, Lists, TypeOK
<1>2. CASE p = NoElement
  <2>1. InsertPos(g, p) = Len(s) + 1
    BY <1>2 DEF InsertPos
  <2> QED
    BY <1>1, <2>1
<1>3. CASE p # NoElement
  <2>1. p \in Elements /\ e_group[p] = g /\ Live(p)
    BY <1>3, NullAssumption DEF IsParent, Live
  <2>2. \E k \in DOMAIN s : s[k] = p
    BY <2>1 DEF IInv, Lists, ListsExact
  <2>3. i \in DOMAIN s /\ s[i] = p
    BY <2>2, PosInFacts
  <2>4. Len(s) + 1 \in ends
    BY <1>1, <2>3
  <2>5. ends \subseteq 0 .. Len(s) + 1 /\ Len(s) + 1 \in Nat
    BY <1>1, <2>3
  <2>6. Min(ends) \in ends
    BY <2>4, <2>5, MinIsLeast
  <2>7. Min(ends) \in i + 1 .. Len(s) + 1
    BY <2>6
  <2>8. InsertPos(g, p) = Min(ends)
    BY <1>3 DEF InsertPos
  <2>9. \A k \in DOMAIN s : s[k] = p => k = i
    BY <2>3 DEF IInv, Lists, ListsExact
  <2>10. InsertPos(g, p) \in i + 1 .. Len(s) + 1
    BY <2>7, <2>8
  <2> HIDE DEF i, ends
  <2> QED
    BY <1>1, <2>3, <2>9, <2>10
<1> QED
  BY <1>2, <1>3

\* Allocating an element and linking it into its parent's list preserves the
\* invariant.
LEMMA ObserveNewStep ==
  ASSUME IInv, NEW g \in Groups, NEW n \in Names, NEW p \in Elements \cup {NoElement},
         ObserveNew(g, n, p)
  PROVE  IInv'
<1> USE DEF IInv, Lists
<1>1. PICK e \in Elements :
        /\ ~Live(e)
        /\ e_group' = [e_group EXCEPT ![e] = g]
        /\ e_parent' = [e_parent EXCEPT ![e] = p]
        /\ e_name' = [e_name EXCEPT ![e] = n]
        /\ order' = [order EXCEPT ![g] = InsertAt(@, InsertPos(g, p), e)]
        /\ Lifesign(e)
  BY DEF ObserveNew
<1>2. /\ pc = "read" /\ IsParent(p, g) /\ GroupLookup(g)
      /\ g_nelements' = [g_nelements EXCEPT ![g] = @ + 1]
      /\ UNCHANGED <<pc, selection, walk>>
  BY DEF ObserveNew
<1> DEFINE s == order[g]
           t == order'[g]
           b == InsertPos(g, p)
<1>3. s \in Seq(Elements) /\ DOMAIN s = 1 .. Len(s) /\ Len(s) \in Nat
  BY LenProperties DEF TypeOK
<1>4. b \in 1 .. Len(s) + 1 /\ \A i \in DOMAIN s : s[i] = p => i < b
  BY <1>2, InsertPosFacts
<1>5. \A h \in Groups : h # g => order'[h] = order[h]
  BY <1>1 DEF TypeOK
<1>6. /\ t \in Seq(Elements) /\ Len(t) = Len(s) + 1
      /\ \A j \in 1 .. Len(s) + 1 : t[j] = IF j < b THEN s[j] ELSE IF j = b THEN e ELSE s[j - 1]
  <2>1. t = InsertAt(s, b, e)
    BY <1>1 DEF TypeOK
  <2>2. b \in 1 .. Len(s) + 1
    BY <1>4
  <2>3. s \in Seq(Elements)
    BY <1>3
  <2> HIDE DEF b, s, t
  <2>4. /\ InsertAt(s, b, e) \in Seq(Elements)
        /\ Len(InsertAt(s, b, e)) = Len(s) + 1
        /\ \A j \in 1 .. Len(s) + 1 :
              InsertAt(s, b, e)[j] = IF j < b THEN s[j] ELSE IF j = b THEN e ELSE s[j - 1]
    BY <1>1, <2>2, <2>3, InsertElement
  <2> QED
    BY <2>1, <2>4
<1>7. DOMAIN t = 1 .. Len(s) + 1
  BY <1>6, LenProperties
<1>8. /\ e_group'[e] = g /\ e_parent'[e] = p
      /\ \A d \in Elements : d # e => e_group'[d] = e_group[d] /\ e_parent'[d] = e_parent[d]
  BY <1>1 DEF TypeOK
<1>9. \A h \in Groups : \A i \in DOMAIN order[h] : order[h][i] \in Elements /\ order[h][i] # e
  BY <1>1, NullAssumption DEF TypeOK, ListsExact, Live
<1> HIDE DEF s, t, b
<1>10. group_list' \in Seq(Groups) /\ Listed' = Listed \cup {g}
  BY <1>2, GroupLookupFacts
<1>11. TypeOK'
  <2>1. order' \in [Groups -> Seq(Elements)]
    BY <1>1, <1>5, <1>6 DEF TypeOK, s, t, b
  <2>2. /\ e_group' \in [Elements -> Groups \cup {NoGroup}]
        /\ e_parent' \in [Elements -> Elements \cup {NoElement}]
        /\ e_name' \in [Elements -> Names \cup {NoName}]
    BY <1>1 DEF TypeOK
  <2>3. /\ e_lifecycles' \in [Elements -> 0 .. Wrap - 1]
        /\ e_updated' \in [Elements -> BOOLEAN]
        /\ age' \in [Elements -> 0 .. AgeCap]
    BY <1>1, LifecyclesAssumption DEF Lifesign, TypeOK
  <2>4. g_nelements' \in [Groups -> Nat]
    BY <1>2 DEF TypeOK
  <2> QED
    BY <1>2, <1>10, <2>1, <2>2, <2>3, <2>4 DEF TypeOK, selection
<1>12. ListsExact'
  <2>1. ASSUME NEW h \in Groups, NEW i \in DOMAIN order'[h]
        PROVE  e_group'[order'[h][i]] = h
    <3>1. CASE h = g
      <4>1. \A k \in 1 .. Len(s) : e_group[s[k]] = g /\ s[k] \in Elements /\ s[k] # e
        BY <1>3, <1>9 DEF ListsExact, s
      <4>2. i \in 1 .. Len(s) + 1
        BY <1>7, <3>1 DEF t
      <4>3. t[i] = e \/ \E k \in 1 .. Len(s) : t[i] = s[k]
        BY <1>3, <1>4, <1>6, <4>2
      <4>4. e_group'[t[i]] = g
        BY <1>8, <4>1, <4>3
      <4> QED
        BY <3>1, <4>4 DEF t
    <3>2. CASE h # g
      BY <1>5, <1>8, <1>9, <2>1, <3>2 DEF ListsExact
    <3> QED
      BY <3>1, <3>2
  <2>2. ASSUME NEW h \in Groups, NEW i \in DOMAIN order'[h], NEW j \in DOMAIN order'[h],
               order'[h][i] = order'[h][j]
        PROVE  i = j
    <3>1. CASE h = g
      <4>1. \A k, m \in 1 .. Len(s) : s[k] = s[m] => k = m
        BY <1>3 DEF ListsExact, s
      <4>2. \A k \in 1 .. Len(s) : s[k] # e
        BY <1>3, <1>9 DEF s
      <4>3. i \in 1 .. Len(s) + 1 /\ j \in 1 .. Len(s) + 1 /\ t[i] = t[j]
        BY <1>7, <2>2, <3>1 DEF t
      <4> QED
        BY <1>3, <1>4, <1>6, <4>1, <4>2, <4>3
    <3>2. CASE h # g
      BY <1>5, <2>2, <3>2 DEF ListsExact
    <3> QED
      BY <3>1, <3>2
  <2>3. ASSUME NEW d \in Elements, Live(d)'
        PROVE  \E i \in DOMAIN order'[e_group'[d]] : order'[e_group'[d]][i] = d
    <3>1. CASE d = e
      <4>1. b \in DOMAIN t /\ t[b] = e
        BY <1>3, <1>4, <1>6, <1>7
      <4> QED
        BY <1>8, <3>1, <4>1 DEF t
    <3>2. CASE d # e
      <4>1. Live(d) /\ e_group'[d] = e_group[d] /\ e_group[d] \in Groups
        BY <1>8, <2>3, <3>2 DEF Live, TypeOK
      <4>2. PICK i \in DOMAIN order[e_group[d]] : order[e_group[d]][i] = d
        BY <4>1 DEF ListsExact
      <4>3. CASE e_group[d] = g
        <5>1. i \in 1 .. Len(s) /\ s[i] = d
          BY <1>3, <4>2, <4>3 DEF s
        <5>2. t[IF i < b THEN i ELSE i + 1] = d /\ (IF i < b THEN i ELSE i + 1) \in DOMAIN t
          BY <1>3, <1>4, <1>6, <1>7, <5>1
        <5> QED
          BY <4>1, <4>3, <5>2 DEF t
      <4>4. CASE e_group[d] # g
        BY <1>5, <4>1, <4>2, <4>4
      <4> QED
        BY <4>3, <4>4
    <3> QED
      BY <3>1, <3>2
  <2> QED
    BY <2>1, <2>2, <2>3 DEF ListsExact
<1>13. GroupsListed' /\ SelectedInGroup' /\ DeadClean'
  <2>1. GroupsListed'
    BY <1>2, <1>8, <1>10 DEF GroupsListed, Live, selection
  <2>2. SelectedInGroup'
    BY <1>1, <1>2, <1>8, NullAssumption DEF SelectedInGroup, selection, TypeOK, Live
  <2>3. DeadClean'
    BY <1>8, NullAssumption DEF DeadClean, Live
  <2> QED
    BY <2>1, <2>2, <2>3
<1>14. CountExact'
  BY <1>2, <1>5, <1>6 DEF CountExact, TypeOK, s, t
<1>15. NoOrphans'
  BY <1>1, <1>2, <1>8, NullAssumption DEF NoOrphans, Live, IsParent, TypeOK
<1>16. ParentBefore'
  <2>1. ASSUME NEW h \in Groups, NEW i \in DOMAIN order'[h], NEW j \in DOMAIN order'[h],
               e_parent'[order'[h][j]] = order'[h][i]
        PROVE  i < j
    <3>1. CASE h # g
      BY <1>5, <1>8, <1>9, <2>1, <3>1 DEF ParentBefore
    <3>2. CASE h = g
      <4>1. i \in 1 .. Len(s) + 1 /\ j \in 1 .. Len(s) + 1 /\ e_parent'[t[j]] = t[i]
        BY <1>7, <2>1, <3>2 DEF t
      <4>2. \A k \in 1 .. Len(s) : s[k] \in Elements /\ s[k] # e /\ e_parent[s[k]] # e
        <5>1. ASSUME NEW k \in 1 .. Len(s), e_parent[s[k]] = e PROVE FALSE
          <6>1. s[k] \in Elements /\ Live(s[k])
            BY <1>3, <1>9, NullAssumption DEF s, ListsExact, Live
          <6> QED
            BY <1>1, <5>1, <6>1, NullAssumption DEF NoOrphans, Live
        <5> QED
          BY <1>3, <1>9, <5>1 DEF s
      <4>3. \A k, m \in 1 .. Len(s) : e_parent[s[m]] = s[k] => k < m
        BY <1>3 DEF ParentBefore, s
      <4>4. CASE j = b
        <5>1. t[j] = e /\ t[i] = p
          BY <1>6, <1>8, <4>1, <4>4
        <5>2. p # e
          BY <1>1, <1>2, NullAssumption DEF IsParent, Live
        <5>3. \A k \in 1 .. Len(s) : s[k] = p => k < b
          BY <1>3, <1>4
        <5> QED
          BY <1>3, <1>4, <1>6, <4>1, <4>4, <5>1, <5>2, <5>3
      <4>5. CASE j # b
        <5>1. PICK m \in 1 .. Len(s) : t[j] = s[m] /\ m = IF j < b THEN j ELSE j - 1
          BY <1>3, <1>4, <1>6, <4>1, <4>5
        <5>2. e_parent[s[m]] = t[i]
          BY <1>8, <4>1, <4>2, <5>1
        <5>3. t[i] # e
          BY <4>2, <5>2
        <5>4. PICK k \in 1 .. Len(s) : t[i] = s[k] /\ k = IF i < b THEN i ELSE i - 1
          <6>1. b \in 1 .. Len(s) + 1 /\ Len(s) \in Nat /\ i \in 1 .. Len(s) + 1
            BY <1>3, <1>4, <4>1
          <6>2. t[i] = IF i < b THEN s[i] ELSE IF i = b THEN e ELSE s[i - 1]
            BY <1>6, <6>1
          <6>3. i < b \/ i > b
            BY ONLY <5>3, <6>1, <6>2
          <6> DEFINE m0 == IF i < b THEN i ELSE i - 1
          <6>4. m0 \in 1 .. Len(s) /\ t[i] = s[m0]
            BY ONLY <6>1, <6>2, <6>3
          <6> QED
            BY ONLY <6>4
        <5>5. k < m
          BY <4>3, <5>2, <5>4
        <5> QED
          BY <1>3, <1>4, <4>1, <5>1, <5>4, <5>5
      <4> QED
        BY <4>4, <4>5
    <3> QED
      BY <3>1, <3>2
  <2> QED
    BY <2>1 DEF ParentBefore
<1>17. FreeAtPlace'
  BY <1>2 DEF FreeAtPlace
<1> QED
  BY <1>11, <1>12, <1>13, <1>14, <1>15, <1>16, <1>17

-----------------------------------------------------------------------------
(***************************************************************************)
(* Freeing.                                                                 *)
(***************************************************************************)
\* The last element of a list has no children: they would stand behind it.
LEMMA LastIsChildless ==
  ASSUME IInv, NEW g \in Groups, order[g] # <<>>
  PROVE  Children(order[g][Len(order[g])]) = {}
<1> DEFINE s == order[g]
           x == s[Len(s)]
<1> USE DEF IInv, Lists
<1>1. DOMAIN s = 1 .. Len(s) /\ Len(s) \in Nat /\ Len(s) \in DOMAIN s
  BY LenProperties, EmptySeq DEF TypeOK
<1>2. x \in Elements /\ e_group[x] = g /\ x # NoElement
  BY <1>1, InList, NullAssumption DEF Selectable
<1>3. ASSUME NEW c \in Elements, e_parent[c] = x PROVE FALSE
  <2>1. Live(c)
    BY <1>2, <1>3 DEF DeadClean
  <2>2. e_group[c] = g
    BY <1>2, <1>3, <2>1 DEF NoOrphans
  <2>3. PICK j \in DOMAIN s : s[j] = c
    BY <2>1, <2>2 DEF ListsExact
  <2>4. Len(s) < j
    BY <1>1, <1>3, <2>3 DEF ParentBefore
  <2> QED
    BY <1>1, <2>3, <2>4
<1> QED
  BY <1>3 DEF Children

\* element_free() starts with an element that has no children left.
LEMMA VictimFacts ==
  ASSUME IInv, NEW g \in Groups, NEW i \in DOMAIN order[g]
  PROVE  \E k \in DOMAIN order[g] : /\ i <= k
                                    /\ Victim(order[g], i) = order[g][k]
                                    /\ Children(order[g][k]) = {}
<1> DEFINE s == order[g]
           childless == {k \in i .. Len(s) : Children(s[k]) = {}}
<1>1. DOMAIN s = 1 .. Len(s) /\ Len(s) \in Nat
  BY LenProperties DEF IInv, Lists, TypeOK
<1>2. Len(s) \in childless
  <2>1. s # <<>> /\ Len(s) \in i .. Len(s)
    BY <1>1, EmptySeq
  <2> QED
    BY <2>1, LastIsChildless
<1>3. childless \subseteq 0 .. Len(s)
  BY <1>1
<1>4. Min(childless) \in childless
  BY <1>1, <1>2, <1>3, MinIsLeast
<1>5. Victim(s, i) = s[Min(childless)]
  BY DEF Victim
<1>6. Min(childless) \in i .. Len(s) /\ Children(s[Min(childless)]) = {}
  BY <1>4
<1>7. Min(childless) \in DOMAIN s /\ i <= Min(childless)
  BY <1>1, <1>6
<1> QED
  BY <1>5, <1>6, <1>7

\* One element_free(), with the selection it moves, preserves the invariant.
LEMMA ElementFreeStep == IInv /\ ElementFree => IInv'
<1> SUFFICES ASSUME IInv, ElementFree PROVE IInv'
  OBVIOUS
<1> USE DEF IInv, Lists
<1> DEFINE g == group_list[walk.group]
           e == Victim(order[g], walk.pos)
           s == order[g]
           t == order'[g]
<1>1. /\ g \in Groups /\ group_list # <<>>
      /\ walk.pos \in DOMAIN s
  BY EmptySeq DEF ElementFree, FreeAtPlace, IsPlace, TypeOK
<1>2. PICK k \in DOMAIN s : walk.pos <= k /\ e = s[k] /\ Children(e) = {}
  BY <1>1, VictimFacts
<1>3. s \in Seq(Elements) /\ DOMAIN s = 1 .. Len(s) /\ Len(s) \in Nat
  BY <1>1, LenProperties DEF TypeOK
<1>4. e \in Elements /\ e_group[e] = g /\ Live(e) /\ e # NoElement
  <2> HIDE DEF e, g
  <2>1. e = order[g][k] /\ k \in DOMAIN order[g]
    BY <1>2
  <2>2. e \in Elements /\ Selectable(g, e) /\ e # NoElement
    BY <1>1, <2>1, InList
  <2> QED
    BY <1>1, <2>2, NullAssumption DEF Selectable, Live
<1>5. /\ SetSelection(Deselect(Selection, e))
      /\ order' = [order EXCEPT ![g] = Unlink(@, e)]
      /\ g_nelements' = [g_nelements EXCEPT ![g] = CountWithout(g, e)]
      /\ e_group' = [e_group EXCEPT ![e] = NoGroup]
      /\ e_parent' = [e_parent EXCEPT ![e] = NoElement]
      /\ e_name' = [e_name EXCEPT ![e] = NoName]
      /\ e_lifecycles' = [e_lifecycles EXCEPT ![e] = 0]
      /\ e_updated' = [e_updated EXCEPT ![e] = FALSE]
      /\ age' = [age EXCEPT ![e] = 0]
      /\ IF e = s[walk.pos] THEN pc' = "reap" /\ walk' = Resume(walk) ELSE UNCHANGED <<pc, walk>>
      /\ group_list' = group_list /\ pc = "free"
  BY DEF ElementFree
<1> HIDE DEF e, g
<1>6. \A m \in DOMAIN s : s[m] = e => m = k
  BY <1>1, <1>2 DEF ListsExact
<1>7. t = RemoveAt(s, k)
  <2>1. PosIn(s, e) = k
    BY <1>2, <1>6, PosInFacts
  <2> QED
    BY <1>1, <1>5, <2>1 DEF TypeOK, Unlink
<1>8. \A h \in Groups : h # g => order'[h] = order[h]
  BY <1>5 DEF TypeOK
<1>9. /\ e_group'[e] = NoGroup /\ e_parent'[e] = NoElement
      /\ \A d \in Elements : d # e => e_group'[d] = e_group[d] /\ e_parent'[d] = e_parent[d]
  BY <1>4, <1>5 DEF TypeOK
<1>10. k \in 1 .. Len(s)
  BY <1>3
<1> HIDE DEF s, t
<1>11. /\ t \in Seq(Elements) /\ Len(t) = Len(s) - 1
       /\ \A j \in 1 .. Len(s) - 1 : t[j] = IF j < k THEN s[j] ELSE s[j + 1]
  <2>1. s \in Seq(Elements)
    BY <1>3
  <2>2. /\ RemoveAt(s, k) \in Seq(Elements) /\ Len(RemoveAt(s, k)) = Len(s) - 1
        /\ \A j \in 1 .. Len(s) - 1 : RemoveAt(s, k)[j] = IF j < k THEN s[j] ELSE s[j + 1]
    BY <1>10, <2>1, RemoveAtFacts
  <2> QED
    BY <1>7, <2>2
<1>12. DOMAIN t = 1 .. Len(s) - 1
  BY <1>11, LenProperties
<1>13. \A j \in DOMAIN t : \E m \in DOMAIN s : /\ t[j] = s[m] /\ m # k
                                               /\ m = IF j < k THEN j ELSE j + 1
  BY <1>3, <1>10, <1>11, <1>12
<1>14. \A m \in DOMAIN s : m # k => \E j \in DOMAIN t : t[j] = s[m]
  <2>1. ASSUME NEW m \in DOMAIN s, m # k
        PROVE  LET j == IF m < k THEN m ELSE m - 1 IN j \in DOMAIN t /\ t[j] = s[m]
    BY <1>3, <1>10, <1>11, <1>12, <2>1
  <2> QED
    BY <2>1
<1>15. SelOK(Deselect(Selection, e)) /\ \A h \in Groups : Deselect(Selection, e).cur[h] # e
  BY <1>1, <1>4, SelectionOK, DeselectOK
<1>16. TypeOK'
  <2>1. current_group' \in Groups \cup {NoGroup}
        /\ g_current' \in [Groups -> Elements \cup {NoElement}]
    BY <1>5, <1>15, ListedIsGroup DEF SetSelection, SelOK
  <2>2. order' \in [Groups -> Seq(Elements)]
    BY <1>1, <1>5, <1>11 DEF TypeOK, t, s
  <2>3. g_nelements' \in [Groups -> Nat]
    <3>1. g_nelements[g] = Len(s)
      BY <1>1 DEF CountExact, s
    <3>2. CountWithout(g, e) \in Nat
      BY <1>3, <1>10, <3>1 DEF CountWithout
    <3> QED
      BY <1>5, <3>2 DEF TypeOK
  <2>4. /\ e_group' \in [Elements -> Groups \cup {NoGroup}]
        /\ e_parent' \in [Elements -> Elements \cup {NoElement}]
        /\ e_name' \in [Elements -> Names \cup {NoName}]
        /\ e_updated' \in [Elements -> BOOLEAN]
    BY <1>5 DEF TypeOK
  <2>5. e_lifecycles' \in [Elements -> 0 .. Wrap - 1] /\ age' \in [Elements -> 0 .. AgeCap]
    <3>1. 0 \in 0 .. Wrap - 1 /\ 0 \in 0 .. AgeCap
      BY LifecyclesAssumption
    <3> QED
      BY <1>5, <3>1 DEF TypeOK
  <2>6. pc' \in {"reap", "free"} /\ walk' = walk
    BY <1>5 DEF Resume
  <2> QED
    BY <1>5, <2>1, <2>2, <2>3, <2>4, <2>5, <2>6 DEF TypeOK
<1>17. ListsExact'
  <2>1. ASSUME NEW h \in Groups, NEW i \in DOMAIN order'[h]
        PROVE  e_group'[order'[h][i]] = h
    <3>1. CASE h = g
      <4>1. PICK m \in DOMAIN s : t[i] = s[m] /\ m # k
        BY <1>13, <2>1, <3>1 DEF t
      <4>2. s[m] # e /\ s[m] \in Elements /\ e_group[s[m]] = g
        BY <1>1, <1>3, <1>6, <4>1 DEF s, ListsExact
      <4> QED
        BY <1>9, <3>1, <4>1, <4>2 DEF t
    <3>2. CASE h # g
      <4>1. order'[h][i] \in Elements /\ e_group[order'[h][i]] = h
        BY <1>8, <2>1, <3>2 DEF ListsExact, TypeOK
      <4> QED
        BY <1>4, <1>9, <3>2, <4>1
    <3> QED
      BY <3>1, <3>2
  <2>2. ASSUME NEW h \in Groups, NEW i \in DOMAIN order'[h], NEW j \in DOMAIN order'[h],
               order'[h][i] = order'[h][j]
        PROVE  i = j
    <3>1. CASE h = g
      <4>1. i \in DOMAIN t /\ j \in DOMAIN t /\ t[i] = t[j]
        BY <2>2, <3>1 DEF t
      <4>2. PICK m \in DOMAIN s : t[i] = s[m] /\ m = IF i < k THEN i ELSE i + 1
        BY <1>13, <4>1
      <4>3. PICK n \in DOMAIN s : t[j] = s[n] /\ n = IF j < k THEN j ELSE j + 1
        BY <1>13, <4>1
      <4>4. m = n
        <5>1. s[m] = s[n]
          BY <4>1, <4>2, <4>3
        <5>2. \A a, c \in DOMAIN s : s[a] = s[c] => a = c
          BY <1>1 DEF ListsExact, s
        <5> QED
          BY <4>2, <4>3, <5>1, <5>2
      <4> QED
        BY <1>3, <1>10, <1>12, <4>1, <4>2, <4>3, <4>4
    <3>2. CASE h # g
      BY <1>8, <2>2, <3>2 DEF ListsExact
    <3> QED
      BY <3>1, <3>2
  <2>3. ASSUME NEW d \in Elements, Live(d)'
        PROVE  \E i \in DOMAIN order'[e_group'[d]] : order'[e_group'[d]][i] = d
    <3>1. d # e /\ e_group'[d] = e_group[d] /\ Live(d) /\ e_group[d] \in Groups
      BY <1>9, <2>3 DEF Live, TypeOK
    <3>2. PICK m \in DOMAIN order[e_group[d]] : order[e_group[d]][m] = d
      BY <3>1 DEF ListsExact
    <3>3. CASE e_group[d] = g
      <4>1. m \in DOMAIN s /\ s[m] = d /\ m # k
        BY <1>2, <3>1, <3>2, <3>3 DEF s
      <4> QED
        BY <1>14, <3>1, <3>3, <4>1 DEF t
    <3>4. CASE e_group[d] # g
      BY <1>8, <3>1, <3>2, <3>4
    <3> QED
      BY <3>3, <3>4
  <2> QED
    BY <2>1, <2>2, <2>3 DEF ListsExact
<1>18. GroupsListed'
  <2>1. Listed' = Listed
    BY <1>5 DEF Listed
  <2>2. current_group' \in Listed \cup {NoGroup}
    BY <1>5, <1>15 DEF SetSelection, SelOK
  <2> QED
    BY <1>9, <2>1, <2>2 DEF GroupsListed, Live
<1>19. SelectedInGroup'
  BY <1>5, <1>9, <1>15 DEF SelectedInGroup, SetSelection, SelOK
<1>20. CountExact'
  <2>1. g_nelements[g] = Len(s)
    BY <1>1 DEF CountExact, s
  <2>2. g_nelements'[g] = Len(t)
    BY <1>1, <1>5, <1>11, <2>1 DEF TypeOK, CountWithout
  <2> QED
    BY <1>5, <1>8, <2>2 DEF CountExact, TypeOK, t
<1>21. NoOrphans' /\ DeadClean'
  <2>1. \A c \in Elements : e_parent[c] # e
    BY <1>2 DEF Children
  <2>2. \A d \in Elements : Live(d)' => d # e /\ Live(d)
    BY <1>9 DEF Live
  <2>3. NoOrphans'
    <3> SUFFICES ASSUME NEW d \in Elements, Live(d)', e_parent'[d] # NoElement
                 PROVE  e_group'[e_parent'[d]] = e_group'[d]
      BY DEF NoOrphans
    <3>1. d # e /\ Live(d) /\ e_parent'[d] = e_parent[d] /\ e_group'[d] = e_group[d]
      BY <1>9, <2>2
    <3>2. e_parent[d] \in Elements /\ e_parent[d] # e
      BY <1>4, <2>1, <3>1 DEF TypeOK
    <3>3. e_group[e_parent[d]] = e_group[d]
      BY <1>4, <3>1, <3>2 DEF NoOrphans
    <3> QED
      BY <1>9, <3>1, <3>2, <3>3
  <2>4. DeadClean'
    BY <1>4, <1>9 DEF DeadClean, Live
  <2> QED
    BY <2>3, <2>4
<1>22. ParentBefore'
  <2>1. ASSUME NEW h \in Groups, NEW i \in DOMAIN order'[h], NEW j \in DOMAIN order'[h],
               e_parent'[order'[h][j]] = order'[h][i]
        PROVE  i < j
    <3>1. CASE h # g
      <4>1. order'[h] = order[h] /\ order[h][j] \in Elements /\ e_group[order[h][j]] = h
        BY <1>8, <2>1, <3>1 DEF TypeOK, ListsExact
      <4>2. e_parent[order[h][j]] = order[h][i]
        BY <1>4, <1>9, <2>1, <3>1, <4>1
      <4> QED
        BY <2>1, <4>1, <4>2 DEF ParentBefore
    <3>2. CASE h = g
      <4>1. i \in DOMAIN t /\ j \in DOMAIN t /\ e_parent'[t[j]] = t[i]
        BY <2>1, <3>2 DEF t
      <4>2. PICK m \in DOMAIN s : t[i] = s[m] /\ m = IF i < k THEN i ELSE i + 1
        BY <1>13, <4>1
      <4>3. PICK n \in DOMAIN s : t[j] = s[n] /\ n # k /\ n = IF j < k THEN j ELSE j + 1
        BY <1>13, <4>1
      <4>4. s[n] # e /\ s[n] \in Elements
        BY <1>3, <1>6, <4>3
      <4>5. e_parent[s[n]] = s[m]
        BY <1>9, <4>1, <4>2, <4>3, <4>4
      <4>6. m < n
        BY <1>1, <4>5 DEF ParentBefore, s
      <4> QED
        BY <1>3, <1>10, <1>12, <4>1, <4>2, <4>3, <4>6
    <3> QED
      BY <3>1, <3>2
  <2> QED
    BY <2>1 DEF ParentBefore
<1>23. FreeAtPlace'
  <2>1. ASSUME pc' = "free" PROVE IsPlace(walk)'
    <3>1. e # s[walk.pos] /\ walk' = walk
      BY <1>5, <2>1 DEF s
    <3>2. walk.pos # k /\ walk.pos \in DOMAIN s
      BY <1>1, <1>2, <3>1 DEF s
    <3>3. walk.pos < k
      BY <1>2, <1>3, <1>10, <3>2
    <3>4. walk.pos \in DOMAIN t
      BY <1>3, <1>10, <1>12, <3>2, <3>3
    <3>5. walk.group \in DOMAIN group_list
      BY <1>5 DEF FreeAtPlace, IsPlace
    <3> QED
      BY <1>5, <3>1, <3>4, <3>5 DEF IsPlace, t, g
  <2> QED
    BY <2>1 DEF FreeAtPlace
<1> QED
  BY <1>16, <1>17, <1>18, <1>19, <1>20, <1>21, <1>22, <1>23

-----------------------------------------------------------------------------
(***************************************************************************)
(* The theorems.                                                            *)
(***************************************************************************)
\* The invariant is inductive: every handler of the main loop preserves it.
LEMMA NextStep == IInv /\ [Next]_vars => IInv'
<1> SUFFICES ASSUME IInv, [Next]_vars PROVE IInv'
  OBVIOUS
<1>1. CASE Keys
  BY <1>1, KeysStep
<1>2. CASE Observe
  <2>1. PICK g \in Groups, n \in Names, p \in Elements \cup {NoElement} :
          ObserveKnown(g, n, p) \/ ObserveNew(g, n, p) \/ ObserveDenied(g, n, p)
    BY <1>2 DEF Observe
  <2> QED
    BY <2>1, ObserveKnownStep, ObserveNewStep
<1>3. CASE Loop
  BY <1>3, StartReadStep, EndReadStep, CheckIfDeadStep, NextGroupStep, ElementFreeStep, DrawStep
     DEF Loop
<1>4. CASE UNCHANGED vars
  BY <1>4 DEF IInv, Lists, TypeOK, ListsExact, GroupsListed, Listed, SelectedInGroup, CountExact,
     NoOrphans, DeadClean, ParentBefore, FreeAtPlace, IsPlace, Live, vars, selection, records
<1> QED
  BY <1>1, <1>2, <1>3, <1>4 DEF Next

\* IInv holds in every reachable state.
LEMMA Invariance == Spec => []IInv
BY InitIInv, NextStep, PTL DEF Spec

\* Every variable keeps its type; in particular a lifecycle counter that is
\* decremented at 0 stays within its width, and no count goes negative.
THEOREM TypeCorrect == Spec => []TypeOK
<1>1. IInv => TypeOK
  BY DEF IInv, Lists
<1> QED
  BY <1>1, Invariance, PTL

\* Whatever is freed, created and selected, in whatever order, no group's
\* selection points at a freed element or one of another group.
THEOREM SelectionAlwaysLive == Spec => []SelectionLive
<1>1. IInv => SelectionLive
  <2> SUFFICES ASSUME IInv, NEW g \in Groups, g_current[g] # NoElement
               PROVE  /\ e_group[g_current[g]] = g
                      /\ \E i \in DOMAIN order[g] : order[g][i] = g_current[g]
    BY DEF SelectionLive
  <2>1. g_current[g] \in Elements /\ e_group[g_current[g]] = g
    BY DEF IInv, Lists, TypeOK, SelectedInGroup
  <2> QED
    BY <2>1, NullAssumption DEF IInv, Lists, ListsExact, Live
<1> QED
  BY <1>1, Invariance, PTL

\* The lists always hold exactly the allocated elements: no leak, no double
\* listing, and no freed element in a list.
THEOREM ListsAlwaysExact == Spec => []ListsExact
<1>1. IInv => ListsExact
  BY DEF IInv, Lists
<1> QED
  BY <1>1, Invariance, PTL

\* g_nelements is the number of elements of the group at every moment.
THEOREM CountAlwaysExact == Spec => []CountExact
<1>1. IInv => CountExact
  BY DEF IInv
<1> QED
  BY <1>1, Invariance, PTL

\* No element is ever left behind by its parent, also half way through a
\* recursive element_free().
THEOREM NeverOrphaned == Spec => []NoOrphans
<1>1. IInv => NoOrphans
  BY DEF IInv
<1> QED
  BY <1>1, Invariance, PTL

-----------------------------------------------------------------------------
(***************************************************************************)
(* What the two handlers that change a list do to it.                       *)
(***************************************************************************)
\* Element e leaves place k of group g's list, the walk being at or before it.
FreedAt(g, k, e) ==
    /\ walk.group \in DOMAIN group_list /\ g = group_list[walk.group]
    /\ walk.pos \in DOMAIN order[g] /\ walk.pos <= k
    /\ e = order[g][k] /\ Children(e) = {} /\ e_group[e] = g
    /\ order' \in [Groups -> Seq(Elements)]
    /\ Len(order'[g]) = Len(order[g]) - 1
    /\ \A j \in 1 .. Len(order[g]) - 1 :
          order'[g][j] = IF j < k THEN order[g][j] ELSE order[g][j + 1]
    /\ \A h \in Groups : h # g => order'[h] = order[h]
    /\ e_group' = [e_group EXCEPT ![e] = NoGroup]
    /\ e_parent' = [e_parent EXCEPT ![e] = NoElement]
    /\ e_lifecycles' = [e_lifecycles EXCEPT ![e] = 0]
    /\ age' = [age EXCEPT ![e] = 0]
    /\ pc = "free" /\ pc' = (IF k = walk.pos THEN "reap" ELSE "free")
    /\ walk' = walk /\ group_list' = group_list

\* Element e enters group g's list behind p's descendants.
LinkedIn(g, p, e) ==
    /\ ~Live(e) /\ pc = "read" /\ IsParent(p, g) /\ GroupLookup(g) /\ Lifesign(e)
    /\ InsertPos(g, p) \in 1 .. Len(order[g]) + 1
    /\ order' \in [Groups -> Seq(Elements)]
    /\ Len(order'[g]) = Len(order[g]) + 1
    /\ \A j \in 1 .. Len(order[g]) + 1 :
          order'[g][j] = IF j < InsertPos(g, p) THEN order[g][j]
                         ELSE IF j = InsertPos(g, p) THEN e ELSE order[g][j - 1]
    /\ \A h \in Groups : h # g => order'[h] = order[h]
    /\ e_group' = [e_group EXCEPT ![e] = g]
    /\ e_parent' = [e_parent EXCEPT ![e] = p]
    /\ UNCHANGED <<pc, selection, walk>>

\* element_free() takes a childless element of the group the walk is in, at or
\* behind the cursor, out of its list.
LEMMA FreeFacts ==
  ASSUME IInv, ElementFree
  PROVE  \E g \in Groups : \E k \in DOMAIN order[g] : \E e \in Elements : FreedAt(g, k, e)
<1> USE DEF IInv, Lists
<1> DEFINE g == group_list[walk.group]
           e == Victim(order[g], walk.pos)
<1>1. /\ g \in Groups /\ walk.group \in DOMAIN group_list
      /\ walk.pos \in DOMAIN order[g]
  BY DEF ElementFree, FreeAtPlace, IsPlace, TypeOK
<1>2. PICK k \in DOMAIN order[g] : walk.pos <= k /\ e = order[g][k] /\ Children(e) = {}
  BY <1>1, VictimFacts
<1>3. order[g] \in Seq(Elements) /\ DOMAIN order[g] = 1 .. Len(order[g])
  BY <1>1, LenProperties DEF TypeOK
<1>4. e \in Elements /\ e_group[e] = g
  <2> HIDE DEF e, g
  <2>1. k \in DOMAIN order[g] /\ e = order[g][k]
    BY <1>2
  <2> QED
    BY <1>1, <2>1, InList DEF Selectable
<1>5. /\ order' = [order EXCEPT ![g] = Unlink(@, e)]
      /\ e_group' = [e_group EXCEPT ![e] = NoGroup]
      /\ e_parent' = [e_parent EXCEPT ![e] = NoElement]
      /\ e_lifecycles' = [e_lifecycles EXCEPT ![e] = 0]
      /\ age' = [age EXCEPT ![e] = 0]
      /\ IF e = order[g][walk.pos] THEN pc' = "reap" /\ walk' = Resume(walk) ELSE UNCHANGED <<pc, walk>>
      /\ group_list' = group_list /\ pc = "free"
  BY DEF ElementFree
<1> HIDE DEF e, g
<1>6. \A m \in DOMAIN order[g] : order[g][m] = e => m = k
  BY <1>1, <1>2 DEF ListsExact
<1>7. order'[g] = RemoveAt(order[g], k) /\ order' = [order EXCEPT ![g] = RemoveAt(@, k)]
  <2>1. PosIn(order[g], e) = k
    BY <1>2, <1>6, PosInFacts
  <2> QED
    BY <1>1, <1>5, <2>1 DEF TypeOK, Unlink
<1>8. /\ RemoveAt(order[g], k) \in Seq(Elements)
      /\ Len(RemoveAt(order[g], k)) = Len(order[g]) - 1
      /\ \A j \in 1 .. Len(order[g]) - 1 :
            RemoveAt(order[g], k)[j] = IF j < k THEN order[g][j] ELSE order[g][j + 1]
  <2>1. k \in 1 .. Len(order[g])
    BY <1>3
  <2> QED
    BY <1>3, <2>1, RemoveAtFacts
<1>9. order' \in [Groups -> Seq(Elements)]
  BY <1>1, <1>7, <1>8 DEF TypeOK
<1>10. \A h \in Groups : h # g => order'[h] = order[h]
  BY <1>5 DEF TypeOK
<1>11. pc' = (IF k = walk.pos THEN "reap" ELSE "free") /\ walk' = walk
  BY <1>1, <1>2, <1>5, <1>6 DEF Resume
<1>12. g = group_list[walk.group]
  BY DEF g
<1>13. Len(order'[g]) = Len(order[g]) - 1
       /\ \A j \in 1 .. Len(order[g]) - 1 :
             order'[g][j] = IF j < k THEN order[g][j] ELSE order[g][j + 1]
  BY <1>7, <1>8
<1> HIDE DEF IInv, Lists
<1>14. FreedAt(g, k, e)
  BY <1>1, <1>2, <1>4, <1>5, <1>9, <1>10, <1>11, <1>12, <1>13 DEF FreedAt
<1> QED
  BY <1>1, <1>2, <1>4, <1>14

\* A new element is linked in at InsertPos, and nothing else moves.
LEMMA NewFacts ==
  ASSUME IInv, NEW g \in Groups, NEW n \in Names, NEW p \in Elements \cup {NoElement},
         ObserveNew(g, n, p)
  PROVE  \E e \in Elements : LinkedIn(g, p, e)
<1> USE DEF IInv, Lists
<1>1. PICK e \in Elements :
        /\ ~Live(e)
        /\ e_group' = [e_group EXCEPT ![e] = g]
        /\ e_parent' = [e_parent EXCEPT ![e] = p]
        /\ order' = [order EXCEPT ![g] = InsertAt(@, InsertPos(g, p), e)]
        /\ Lifesign(e)
  BY DEF ObserveNew
<1>2. /\ pc = "read" /\ IsParent(p, g) /\ GroupLookup(g)
      /\ UNCHANGED <<pc, selection, walk>>
  BY DEF ObserveNew
<1>3. InsertPos(g, p) \in 1 .. Len(order[g]) + 1
  BY <1>2, InsertPosFacts
<1>4. order[g] \in Seq(Elements)
  BY DEF TypeOK
<1>5. /\ InsertAt(order[g], InsertPos(g, p), e) \in Seq(Elements)
      /\ Len(InsertAt(order[g], InsertPos(g, p), e)) = Len(order[g]) + 1
      /\ \A j \in 1 .. Len(order[g]) + 1 :
            InsertAt(order[g], InsertPos(g, p), e)[j] =
               IF j < InsertPos(g, p) THEN order[g][j]
               ELSE IF j = InsertPos(g, p) THEN e ELSE order[g][j - 1]
  <2> DEFINE s == order[g]
             k == InsertPos(g, p)
  <2>1. s \in Seq(Elements) /\ k \in 1 .. Len(s) + 1
    BY <1>3, <1>4
  <2> HIDE DEF s, k
  <2>2. /\ InsertAt(s, k, e) \in Seq(Elements)
        /\ Len(InsertAt(s, k, e)) = Len(s) + 1
        /\ \A j \in 1 .. Len(s) + 1 :
              InsertAt(s, k, e)[j] = IF j < k THEN s[j] ELSE IF j = k THEN e ELSE s[j - 1]
    BY ONLY <2>1, e \in Elements, InsertElement
  <2> QED
    BY ONLY <2>2 DEF s, k
<1>6. order'[g] = InsertAt(order[g], InsertPos(g, p), e)
  BY <1>1 DEF TypeOK
<1>7. order' \in [Groups -> Seq(Elements)] /\ \A h \in Groups : h # g => order'[h] = order[h]
  BY <1>1, <1>5 DEF TypeOK
<1>8. LinkedIn(g, p, e)
  BY <1>1, <1>2, <1>3, <1>5, <1>6, <1>7 DEF LinkedIn
<1> QED
  BY <1>8

\* InsertPos is the end of p's tree: all up to it descend from p, what stands
\* there does not.
LEMMA InsertPosLeast ==
  ASSUME IInv, NEW g \in Groups, NEW i \in DOMAIN order[g]
  PROVE  LET s == order[g]
             b == InsertPos(g, s[i])
         IN  /\ b \in i + 1 .. Len(s) + 1
             /\ b # Len(s) + 1 => e_parent[s[b]] \notin {s[m] : m \in i .. b - 1}
             /\ \A k \in i + 1 .. b - 1 : e_parent[s[k]] \in {s[m] : m \in i .. k - 1}
<1> DEFINE s == order[g]
           b == InsertPos(g, s[i])
           ends == {j \in i + 1 .. Len(s) + 1 :
                      j = Len(s) + 1 \/ e_parent[s[j]] \notin {s[k] : k \in i .. j - 1}}
<1>1. DOMAIN s = 1 .. Len(s) /\ Len(s) \in Nat /\ i \in 1 .. Len(s)
  BY LenProperties DEF IInv, Lists, TypeOK
<1>2. s[i] # NoElement
  BY InList DEF IInv
<1>3. PosIn(s, s[i]) = i
  BY PosInFacts DEF IInv, Lists, ListsExact
<1>4. b = Min(ends)
  BY <1>2, <1>3 DEF InsertPos
<1>5. ends \subseteq 0 .. Len(s) + 1 /\ Len(s) + 1 \in Nat /\ Len(s) + 1 \in ends
  BY <1>1
<1>6. Min(ends) \in ends /\ \A y \in ends : Min(ends) <= y
  <2> HIDE DEF ends
  <2> QED
    BY <1>5, MinIsLeast
<1> HIDE DEF b
<1>7. b \in ends /\ \A y \in ends : b <= y
  BY <1>4, <1>6
<1>8. b \in i + 1 .. Len(s) + 1 /\ (b = Len(s) + 1 \/ e_parent[s[b]] \notin {s[m] : m \in i .. b - 1})
  BY <1>7
<1>9. ASSUME NEW k \in i + 1 .. b - 1 PROVE e_parent[s[k]] \in {s[m] : m \in i .. k - 1}
  <2>1. k \notin ends
    BY <1>1, <1>7, <1>8, <1>9
  <2>2. k \in i + 1 .. Len(s) + 1 /\ k # Len(s) + 1
    BY <1>1, <1>8, <1>9
  <2> QED
    BY <2>1, <2>2
<1> QED
  BY <1>8, <1>9 DEF b

-----------------------------------------------------------------------------
(***************************************************************************)
(* PreOrder, with its set of places written as a quantifier.                *)
(***************************************************************************)
Between ==
    \A g \in Groups : \A i, j \in DOMAIN order[g] :
        e_parent[order[g][j]] = order[g][i] =>
            \A k \in i + 1 .. j - 1 : \E m \in i .. k - 1 : e_parent[order[g][k]] = order[g][m]

\* A new element does not come between an element and its child, unless it
\* descends from that element too.
LEMMA LinkedInBetween ==
  ASSUME IInv, Between, NEW g \in Groups, NEW p \in Elements \cup {NoElement},
         NEW e \in Elements, LinkedIn(g, p, e)
  PROVE  Between'
<1> DEFINE s == order[g]
           t == order'[g]
           b == InsertPos(g, p)
<1>1. /\ DOMAIN s = 1 .. Len(s) /\ Len(s) \in Nat
      /\ DOMAIN t = 1 .. Len(s) + 1
  BY LenProperties DEF IInv, Lists, TypeOK, LinkedIn
<1>2. /\ b \in 1 .. Len(s) + 1
      /\ \A j \in 1 .. Len(s) + 1 : t[j] = IF j < b THEN s[j] ELSE IF j = b THEN e ELSE s[j - 1]
  BY DEF LinkedIn
<1>3. \A h \in Groups : \A i \in DOMAIN order[h] :
         /\ order[h][i] \in Elements /\ order[h][i] # e
         /\ e_parent[order[h][i]] # e
  <2> SUFFICES ASSUME NEW h \in Groups, NEW i \in DOMAIN order[h]
               PROVE  /\ order[h][i] \in Elements /\ order[h][i] # e
                      /\ e_parent[order[h][i]] # e
    OBVIOUS
  <2>1. order[h][i] \in Elements /\ e_group[order[h][i]] = h /\ ~Live(e)
    BY DEF IInv, Lists, TypeOK, ListsExact, LinkedIn
  <2>2. Live(order[h][i]) /\ e # NoElement
    BY <2>1, NullAssumption DEF Live
  <2> QED
    BY <2>1, <2>2 DEF IInv, NoOrphans, Live
<1>4. /\ e_parent'[e] = p
      /\ \A d \in Elements : d # e => e_parent'[d] = e_parent[d]
  BY DEF LinkedIn, IInv, Lists, TypeOK
<1>5. p # e
  BY NullAssumption DEF LinkedIn, IsParent, Live
<1>6. /\ \A i \in 1 .. Len(s) : s[i] = p => i < b
      /\ p # NoElement => \E q \in 1 .. Len(s) : s[q] = p
      /\ p = NoElement => b = Len(s) + 1
  <2>1. \A i \in DOMAIN s : s[i] = p => i < b
    BY InsertPosFacts DEF LinkedIn
  <2>2. ASSUME p # NoElement PROVE \E q \in DOMAIN s : s[q] = p
    BY <2>2, NullAssumption DEF LinkedIn, IsParent, IInv, Lists, ListsExact, Live
  <2>3. p = NoElement => b = Len(s) + 1
    BY DEF InsertPos
  <2> QED
    BY <1>1, <2>1, <2>2, <2>3
<1>7. \A q \in 1 .. Len(s) : s[q] = p =>
         /\ b # Len(s) + 1 => \A m \in q .. b - 1 : e_parent[s[b]] # s[m]
         /\ \A k \in q + 1 .. b - 1 : \E m \in q .. k - 1 : e_parent[s[k]] = s[m]
  <2> SUFFICES ASSUME NEW q \in 1 .. Len(s), s[q] = p
               PROVE  /\ b # Len(s) + 1 => \A m \in q .. b - 1 : e_parent[s[b]] # s[m]
                      /\ \A k \in q + 1 .. b - 1 : \E m \in q .. k - 1 : e_parent[s[k]] = s[m]
    OBVIOUS
  <2>1. q \in DOMAIN order[g]
    BY <1>1
  <2>2. /\ b # Len(s) + 1 => e_parent[s[b]] \notin {s[m] : m \in q .. b - 1}
        /\ \A k \in q + 1 .. b - 1 : e_parent[s[k]] \in {s[m] : m \in q .. k - 1}
    BY <2>1, InsertPosLeast
  <2> QED
    BY <2>2
<1>8. \A i, j \in 1 .. Len(s) : e_parent[s[j]] = s[i] =>
         \A k \in i + 1 .. j - 1 : \E m \in i .. k - 1 : e_parent[s[k]] = s[m]
  <2>1. \A i, j \in DOMAIN s : e_parent[s[j]] = s[i] =>
           \A k \in i + 1 .. j - 1 : \E m \in i .. k - 1 : e_parent[s[k]] = s[m]
    BY DEF Between
  <2> HIDE DEF s
  <2> QED
    BY <1>1, <2>1
<1>9. \A k \in 1 .. Len(s) : s[k] \in Elements /\ s[k] # e /\ e_parent[s[k]] # e
  BY <1>1, <1>3
<1>10. \A h \in Groups : h # g => order'[h] = order[h]
  BY DEF LinkedIn
<1> HIDE DEF s, t, b
<1> SUFFICES ASSUME NEW h \in Groups, NEW i \in DOMAIN order'[h], NEW j \in DOMAIN order'[h],
                    e_parent'[order'[h][j]] = order'[h][i], NEW k \in i + 1 .. j - 1
             PROVE  \E m \in i .. k - 1 : e_parent'[order'[h][k]] = order'[h][m]
  BY DEF Between
<1>11. CASE h # g
  <2>1. order'[h] = order[h] /\ order[h] \in Seq(Elements)
    BY <1>10, <1>11 DEF IInv, Lists, TypeOK
  <2>2. \A a \in DOMAIN order[h] : e_parent'[order'[h][a]] = e_parent[order[h][a]]
    BY <1>3, <1>4, <2>1
  <2>3. k \in DOMAIN order[h]
    BY <2>1, LenProperties
  <2>4. \E m \in i .. k - 1 : e_parent[order[h][k]] = order[h][m]
    BY <2>1, <2>2 DEF Between
  <2> QED
    BY <2>1, <2>2, <2>3, <2>4
<1>12. CASE h = g
  <2> DEFINE Old(x) == IF x < b THEN x ELSE x - 1
             New(x) == IF x < b THEN x ELSE x + 1
  <2>1. /\ i \in 1 .. Len(s) + 1 /\ j \in 1 .. Len(s) + 1 /\ k \in i + 1 .. j - 1
        /\ e_parent'[t[j]] = t[i]
    BY <1>1, <1>12 DEF t
  <2>2. \A x \in 1 .. Len(s) + 1 : x # b => Old(x) \in 1 .. Len(s) /\ t[x] = s[Old(x)]
    BY <1>1, <1>2
  <2>3. \A x \in 1 .. Len(s) : New(x) \in 1 .. Len(s) + 1 /\ New(x) # b /\ t[New(x)] = s[x]
    BY <1>1, <1>2
  <2>4. \A x \in 1 .. Len(s) + 1 : x # b => e_parent'[t[x]] = e_parent[s[Old(x)]]
    BY <1>4, <1>9, <2>2
  <2>5. t[b] = e /\ e_parent'[t[b]] = p
    BY <1>1, <1>2, <1>4
  <2>6. i # b
    <3>1. j = b => t[i] = p
      BY <2>1, <2>5
    <3>2. j # b => t[i] # e
      BY <1>9, <2>1, <2>2, <2>4
    <3> QED
      BY <1>5, <2>5, <3>1, <3>2
  <2>7. \E m \in i .. k - 1 : e_parent'[t[k]] = t[m]
    <3>1. CASE j = b
      <4>1. s[Old(i)] = p /\ Old(i) \in 1 .. Len(s)
        BY <2>1, <2>2, <2>5, <2>6, <3>1
      <4>2. i < b /\ i \in 1 .. Len(s) /\ s[i] = p
        BY <1>1, <1>2, <1>6, <2>1, <2>6, <4>1
      <4>3. PICK m \in i .. k - 1 : e_parent[s[k]] = s[m]
        BY <1>7, <2>1, <3>1, <4>2
      <4>4. m \in 1 .. Len(s) + 1 /\ m < b /\ k \in 1 .. Len(s) + 1 /\ k < b
        BY <1>1, <1>2, <2>1, <3>1, <4>3
      <4>5. t[m] = s[m] /\ e_parent'[t[k]] = e_parent[s[k]]
        BY <1>2, <2>4, <4>4
      <4> QED
        BY <4>3, <4>5
    <3>2. CASE j # b
      <4>1. e_parent[s[Old(j)]] = s[Old(i)] /\ Old(i) \in 1 .. Len(s) /\ Old(j) \in 1 .. Len(s)
        BY <2>1, <2>2, <2>4, <2>6, <3>2
      <4>2. CASE k # b
        <5>1. Old(k) \in Old(i) + 1 .. Old(j) - 1
          BY <1>1, <1>2, <2>1, <2>6, <3>2, <4>2
        <5>2. PICK m \in Old(i) .. Old(k) - 1 : e_parent[s[Old(k)]] = s[m]
          BY <1>8, <4>1, <5>1
        <5>3. m \in 1 .. Len(s) /\ New(m) \in i .. k - 1
          <6>1. /\ i \in Nat \ {0} /\ k \in Nat /\ b \in Nat \ {0} /\ m \in Nat /\ k <= Len(s) + 1
                /\ i # b /\ i < k /\ k # b /\ Len(s) \in Nat
            BY <1>1, <1>2, <2>1, <2>6, <4>1, <4>2, <5>2
          <6>2. Old(i) <= m /\ m <= Old(k) - 1
            BY ONLY <5>2, <6>1
          <6> QED
            BY ONLY <6>1, <6>2
        <5>4. t[New(m)] = s[m]
          BY <2>3, <5>3
        <5>5. k \in 1 .. Len(s) + 1
          BY <1>1, <2>1
        <5>6. e_parent'[t[k]] = e_parent[s[Old(k)]]
          BY <2>4, <4>2, <5>5
        <5> QED
          BY <5>2, <5>3, <5>4, <5>6
      <4>3. CASE k = b
        <5>1. i < b /\ b <= Old(j) /\ Old(i) = i /\ b # Len(s) + 1
          BY <1>1, <1>2, <2>1, <4>1, <4>3
        <5>2. PICK q \in 1 .. Len(s) : s[q] = p
          BY <1>6, <5>1
        <5>3. q < b
          BY <1>6, <5>2
        <5>4. \A m \in q .. b - 1 : e_parent[s[b]] # s[m]
          BY <1>7, <5>1, <5>2
        <5>5. \E m \in i .. b - 1 : e_parent[s[b]] = s[m]
          <6>1. CASE b = Old(j)
            <7>1. e_parent[s[b]] = s[i] /\ i \in i .. b - 1
              <8>1. b \in Nat /\ i \in Nat
                BY <1>2, <2>1
              <8>2. i \in i .. b - 1
                BY ONLY <5>1, <8>1
              <8>3. e_parent[s[b]] = s[i]
                BY ONLY <4>1, <5>1, <6>1
              <8> QED
                BY <8>2, <8>3
            <7> QED
              BY ONLY <7>1
          <6>2. CASE b < Old(j)
            <7>1. b \in i + 1 .. Old(j) - 1
              BY <1>1, <1>2, <2>1, <4>1, <5>1, <6>2
            <7> QED
              BY <1>8, <4>1, <5>1, <7>1
          <6> QED
            BY <1>1, <1>2, <4>1, <5>1, <6>1, <6>2
        <5>6. i <= q
          BY <1>1, <1>2, <2>1, <5>1, <5>2, <5>3, <5>4, <5>5
        <5>7. q \in i .. k - 1 /\ t[q] = p
          BY <1>1, <1>2, <2>1, <4>3, <5>2, <5>3, <5>6
        <5> QED
          BY <2>5, <4>3, <5>7
      <4> QED
        BY <4>2, <4>3
    <3> QED
      BY <3>1, <3>2
  <2> QED
    BY <1>12, <2>7 DEF t
<1> QED
  BY <1>11, <1>12

\* Taking away an element without children breaks no chain of descent.
LEMMA FreedBetween ==
  ASSUME IInv, Between, NEW g \in Groups, NEW k \in DOMAIN order[g], NEW e \in Elements,
         FreedAt(g, k, e)
  PROVE  Between'
<1> DEFINE s == order[g]
           t == order'[g]
           Old(x) == IF x < k THEN x ELSE x + 1
           New(x) == IF x < k THEN x ELSE x - 1
<1>1. /\ DOMAIN s = 1 .. Len(s) /\ Len(s) \in Nat /\ k \in 1 .. Len(s)
      /\ DOMAIN t = 1 .. Len(s) - 1
  <2>1. s \in Seq(Elements) /\ t \in Seq(Elements) /\ Len(t) = Len(s) - 1
    BY DEF IInv, Lists, TypeOK, FreedAt
  <2>2. k \in DOMAIN s
    OBVIOUS
  <2> HIDE DEF s, t
  <2> QED
    BY <2>1, <2>2, LenProperties
<1>2. /\ e = s[k]
      /\ \A j \in 1 .. Len(s) - 1 : t[j] = s[Old(j)]
  BY DEF FreedAt
<1>3. /\ \A d \in Elements : e_parent[d] # e
      /\ \A d \in Elements : d # e => e_parent'[d] = e_parent[d]
  BY DEF FreedAt, Children, IInv, Lists, TypeOK
<1>4. \A x \in 1 .. Len(s) : s[x] \in Elements /\ (s[x] = e => x = k)
  <2>1. \A x \in DOMAIN s : s[x] \in Elements /\ (s[x] = e => x = k)
    BY <1>2 DEF IInv, Lists, TypeOK, ListsExact
  <2> QED
    BY <1>1, <2>1
<1>5. \A i, j \in 1 .. Len(s) : e_parent[s[j]] = s[i] =>
         \A x \in i + 1 .. j - 1 : \E m \in i .. x - 1 : e_parent[s[x]] = s[m]
  <2>1. \A i, j \in DOMAIN s : e_parent[s[j]] = s[i] =>
           \A x \in i + 1 .. j - 1 : \E m \in i .. x - 1 : e_parent[s[x]] = s[m]
    BY DEF Between
  <2> HIDE DEF s
  <2> QED
    BY <1>1, <2>1
<1>6. \A h \in Groups : h # g =>
         /\ order'[h] = order[h]
         /\ \A x \in DOMAIN order[h] : order[h][x] \in Elements /\ order[h][x] # e
  BY DEF FreedAt, IInv, Lists, TypeOK, ListsExact
<1> HIDE DEF s, t
<1> SUFFICES ASSUME NEW h \in Groups, NEW i \in DOMAIN order'[h], NEW j \in DOMAIN order'[h],
                    e_parent'[order'[h][j]] = order'[h][i], NEW x \in i + 1 .. j - 1
             PROVE  \E m \in i .. x - 1 : e_parent'[order'[h][x]] = order'[h][m]
  BY DEF Between
<1>7. CASE h # g
  <2>1. order'[h] = order[h] /\ order[h] \in Seq(Elements)
    BY <1>6, <1>7 DEF IInv, Lists, TypeOK
  <2>2. \A a \in DOMAIN order[h] : e_parent'[order'[h][a]] = e_parent[order[h][a]]
    BY <1>3, <1>6, <1>7, <2>1
  <2>3. x \in DOMAIN order[h]
    BY <2>1, LenProperties
  <2>4. \E m \in i .. x - 1 : e_parent[order[h][x]] = order[h][m]
    <3>1. i \in DOMAIN order[h] /\ j \in DOMAIN order[h] /\ e_parent[order[h][j]] = order[h][i]
      BY <2>1, <2>2
    <3> QED
      BY ONLY <3>1, Between, h \in Groups, x \in i + 1 .. j - 1 DEF Between
  <2> QED
    BY <2>1, <2>2, <2>3, <2>4
<1>8. CASE h = g
  <2>1. /\ i \in 1 .. Len(s) - 1 /\ j \in 1 .. Len(s) - 1 /\ x \in i + 1 .. j - 1
        /\ x \in 1 .. Len(s) - 1 /\ e_parent'[t[j]] = t[i]
    BY <1>1, <1>8 DEF t
  <2>2. \A y \in 1 .. Len(s) - 1 :
           /\ Old(y) \in 1 .. Len(s) /\ Old(y) # k /\ t[y] = s[Old(y)]
    BY <1>1, <1>2
  <2>3. \A y \in 1 .. Len(s) - 1 : e_parent'[t[y]] = e_parent[s[Old(y)]]
    BY <1>3, <1>4, <2>2
  <2>4. e_parent[s[Old(j)]] = s[Old(i)] /\ Old(x) \in Old(i) + 1 .. Old(j) - 1
    <3>1. e_parent[s[Old(j)]] = s[Old(i)]
      <4> HIDE DEF Old
      <4> QED
        BY ONLY <2>1, <2>2, <2>3
    <3>2. i \in Nat /\ j \in Nat /\ x \in Nat /\ k \in Nat /\ i < x /\ x < j
      BY ONLY <1>1, <2>1
    <3>3. Old(j) # k /\ Old(i) # k
      <4> HIDE DEF Old
      <4> QED
        BY ONLY <2>1, <2>2
    <3>4. Old(x) \in Old(i) + 1 .. Old(j) - 1
      BY ONLY <3>2, <3>3
    <3> QED
      BY <3>1, <3>4
  <2>5. PICK m \in Old(i) .. Old(x) - 1 : e_parent[s[Old(x)]] = s[m]
    BY <1>5, <2>1, <2>2, <2>4
  <2>6. m \in 1 .. Len(s)
    BY <1>1, <2>1, <2>2, <2>5
  <2>7. m # k
    BY <1>2, <1>3, <1>4, <2>1, <2>2, <2>5
  <2>8. New(m) \in i .. x - 1 /\ New(m) \in 1 .. Len(s) - 1 /\ Old(New(m)) = m
    BY <1>1, <2>1, <2>5, <2>6, <2>7
  <2>9. e_parent'[t[x]] = t[New(m)]
    BY <2>1, <2>2, <2>3, <2>5, <2>8
  <2> QED
    BY <1>8, <2>8, <2>9 DEF t
<1> QED
  BY <1>7, <1>8

-----------------------------------------------------------------------------
(***************************************************************************)
(* Lifetimes.  Before: in main loop position q, with the walk at w, place i  *)
(* of the h-th group has been counted down in this reading.                  *)
(***************************************************************************)
Before(q, w, h, i) ==
    \/ q \in {"keys", "draw"}
    \/ /\ q \in {"reap", "free"}
       /\ \/ h < w.group
          \/ h = w.group /\ (i < w.pos \/ (i = w.pos /\ q = "free"))

PassedIn(q, w, l, g, s, e) ==
    \E h \in DOMAIN l : \E i \in DOMAIN s : l[h] = g /\ s[i] = e /\ Before(q, w, h, i)

Passed(e) == PassedIn(pc, walk, group_list, e_group[e], order[e_group[e]], e)
Since(e) == IF Passed(e) THEN age[e] + 1 ELSE age[e]
Here == order[group_list[walk.group]][walk.pos]

GroupsDistinct == \A i, j \in DOMAIN group_list : group_list[i] = group_list[j] => i = j
Counted == \A e \in Elements :
              Live(e) /\ age[e] < AgeCap => e_lifecycles[e] = (Lifecycles - Since(e)) % Wrap
DeadAtPlace == pc = "free" => e_lifecycles[Here] = 0
NoneOverdue ==
    Lifecycles >= 1 => \A e \in Elements :
        Live(e) => Since(e) < Lifecycles \/ (pc = "free" /\ e = Here)

LInv == GroupsDistinct /\ Counted /\ DeadAtPlace /\ NoneOverdue

\* An element has one place, and that decides whether it has been passed.
LEMMA PassedPlace ==
  ASSUME NEW l, NEW s, NEW h \in DOMAIN l, NEW i \in DOMAIN s,
         \A x, y \in DOMAIN l : l[x] = l[y] => x = y,
         \A x, y \in DOMAIN s : s[x] = s[y] => x = y
  PROVE  \A q, w : PassedIn(q, w, l, l[h], s, s[i]) <=> Before(q, w, h, i)
<1> SUFFICES ASSUME NEW q, NEW w
             PROVE  PassedIn(q, w, l, l[h], s, s[i]) <=> Before(q, w, h, i)
  OBVIOUS
<1>1. ASSUME Before(q, w, h, i) PROVE PassedIn(q, w, l, l[h], s, s[i])
  BY <1>1 DEF PassedIn
<1>2. ASSUME PassedIn(q, w, l, l[h], s, s[i]) PROVE Before(q, w, h, i)
  <2>1. PICK x \in DOMAIN l, y \in DOMAIN s : l[x] = l[h] /\ s[y] = s[i] /\ Before(q, w, x, y)
    BY <1>2 DEF PassedIn
  <2>2. x = h /\ y = i
    BY <2>1
  <2> QED
    BY <2>1, <2>2
<1> QED
  BY <1>1, <1>2

\* Every allocated element has a place.
LEMMA PlaceOf ==
  ASSUME IInv, GroupsDistinct, NEW e \in Elements, Live(e)
  PROVE  /\ e_group[e] \in Groups
         /\ \E h \in DOMAIN group_list : \E i \in DOMAIN order[e_group[e]] :
              /\ group_list[h] = e_group[e] /\ order[e_group[e]][i] = e
              /\ Passed(e) <=> Before(pc, walk, h, i)
<1>1. e_group[e] \in Groups
  BY DEF IInv, Lists, TypeOK, Live
<1>2. PICK h \in DOMAIN group_list : group_list[h] = e_group[e]
  BY DEF IInv, Lists, GroupsListed, Listed
<1>3. PICK i \in DOMAIN order[e_group[e]] : order[e_group[e]][i] = e
  BY DEF IInv, Lists, ListsExact
<1>4. \A x, y \in DOMAIN order[e_group[e]] : order[e_group[e]][x] = order[e_group[e]][y] => x = y
  BY <1>1 DEF IInv, Lists, ListsExact
<1>5. \A x, y \in DOMAIN group_list : group_list[x] = group_list[y] => x = y
  BY DEF GroupsDistinct
<1>6. Passed(e) <=> Before(pc, walk, h, i)
  BY <1>2, <1>3, <1>4, <1>5, PassedPlace DEF Passed
<1> QED
  BY <1>1, <1>2, <1>3, <1>6

\* Where the lists do not change, the place does not.
LEMMA StillPlace ==
  ASSUME IInv, GroupsDistinct, NEW e \in Elements, Live(e),
         UNCHANGED <<group_list, order, records>>
  PROVE  \E h \in DOMAIN group_list : \E i \in DOMAIN order[e_group[e]] :
           /\ group_list[h] = e_group[e] /\ order[e_group[e]][i] = e
           /\ Passed(e) <=> Before(pc, walk, h, i)
           /\ Passed(e)' <=> Before(pc', walk', h, i)
<1>1. /\ e_group[e] \in Groups
      /\ \E h \in DOMAIN group_list : \E i \in DOMAIN order[e_group[e]] :
           /\ group_list[h] = e_group[e] /\ order[e_group[e]][i] = e
           /\ Passed(e) <=> Before(pc, walk, h, i)
  BY PlaceOf
<1>2. PICK h \in DOMAIN group_list, i \in DOMAIN order[e_group[e]] :
        /\ group_list[h] = e_group[e] /\ order[e_group[e]][i] = e
        /\ Passed(e) <=> Before(pc, walk, h, i)
  BY <1>1
<1>3. \A x, y \in DOMAIN order[e_group[e]] : order[e_group[e]][x] = order[e_group[e]][y] => x = y
  BY <1>1 DEF IInv, Lists, ListsExact
<1>4. \A x, y \in DOMAIN group_list : group_list[x] = group_list[y] => x = y
  BY DEF GroupsDistinct
<1>5. PassedIn(pc', walk', group_list, e_group[e], order[e_group[e]], e)
         <=> Before(pc', walk', h, i)
  BY <1>2, <1>3, <1>4, PassedPlace
<1>6. Passed(e)' <=> PassedIn(pc', walk', group_list, e_group[e], order[e_group[e]], e)
  BY DEF Passed, records, PassedIn
<1> QED
  BY <1>2, <1>5, <1>6

\* At the start there is nothing to count.
LEMMA InitLInv == Init => LInv
<1> SUFFICES ASSUME Init PROVE LInv
  OBVIOUS
<1>1. GroupsDistinct
  BY EmptySeq DEF Init, GroupsDistinct
<1>2. \A e \in Elements : ~Live(e)
  BY DEF Init, NoElementYet, Live
<1>3. pc = "keys"
  BY DEF Init, NoElementYet
<1> QED
  BY <1>1, <1>2, <1>3 DEF LInv, Counted, DeadAtPlace, NoneOverdue

\* Keys and drawing count nothing.
LEMMA SelectingCounts ==
  ASSUME IInv, LInv, pc \in {"keys", "draw"}, pc' \in {"keys", "draw"},
         UNCHANGED <<group_list, order, records, e_lifecycles, age>>
  PROVE  LInv'
<1> USE DEF LInv
<1>1. GroupsDistinct' /\ DeadAtPlace'
  BY DEF GroupsDistinct, DeadAtPlace
<1>2. ASSUME NEW e \in Elements, Live(e)'
      PROVE  Live(e) /\ Since(e)' = Since(e)
  <2>1. Live(e)
    BY <1>2 DEF Live, records
  <2>2. Passed(e) /\ Passed(e)'
    BY <2>1, StillPlace DEF Before
  <2> QED
    BY <2>1, <2>2 DEF Since
<1> QED
  BY <1>1, <1>2 DEF Counted, NoneOverdue

\* A reading begins: every element has been without a lifesign for one more.
LEMMA StartReadCounts == ASSUME IInv, LInv, StartRead PROVE LInv'
<1> USE DEF LInv
<1>1. /\ pc = "keys" /\ pc' = "read"
      /\ UNCHANGED <<group_list, order, records, e_lifecycles>>
      /\ age' = [e \in Elements |-> IF Live(e) /\ age[e] < AgeCap THEN age[e] + 1 ELSE age[e]]
  BY DEF StartRead
<1>2. GroupsDistinct' /\ DeadAtPlace'
  BY <1>1 DEF GroupsDistinct, DeadAtPlace
<1>3. ASSUME NEW e \in Elements, Live(e)'
      PROVE  /\ Live(e) /\ age[e] \in 0 .. AgeCap
             /\ Since(e) = age[e] + 1 /\ Since(e)' = age'[e]
             /\ age'[e] = IF age[e] < AgeCap THEN age[e] + 1 ELSE age[e]
  <2>1. Live(e)
    BY <1>1, <1>3 DEF Live, records
  <2>2. Passed(e) /\ ~Passed(e)'
    BY <1>1, <2>1, StillPlace DEF Before
  <2> QED
    BY <1>1, <2>1, <2>2, LifecyclesAssumption DEF Since, IInv, Lists, TypeOK
<1>4. Counted'
  <2> SUFFICES ASSUME NEW e \in Elements, Live(e)', age'[e] < AgeCap
               PROVE  e_lifecycles'[e] = (Lifecycles - Since(e)') % Wrap
    BY DEF Counted
  <2>1. Live(e) /\ age[e] < AgeCap /\ Since(e)' = Since(e)
    BY <1>3, LifecyclesAssumption DEF IInv, Lists, TypeOK
  <2> QED
    BY <1>1, <2>1 DEF Counted
<1>5. NoneOverdue'
  <2> SUFFICES ASSUME Lifecycles >= 1, NEW e \in Elements, Live(e)'
               PROVE  Since(e)' < Lifecycles
    BY <1>1 DEF NoneOverdue
  <2>1. Since(e) < Lifecycles /\ Live(e)
    BY <1>1, <1>3 DEF NoneOverdue
  <2> QED
    BY <1>3, <2>1, LifecyclesAssumption
<1> QED
  BY <1>2, <1>4, <1>5

\* A lifesign starts an element's lifetime again, and touches no other's.
LEMMA ReportCounts ==
  ASSUME IInv, LInv, NEW g \in Groups, GroupLookup(g), pc = "read", pc' = "read",
         \A e \in Elements : Live(e)' =>
            \/ e_lifecycles'[e] = Lifecycles /\ age'[e] = 0
            \/ Live(e) /\ e_lifecycles'[e] = e_lifecycles[e] /\ age'[e] = age[e]
  PROVE  LInv'
<1> USE DEF LInv
<1>1. GroupsDistinct'
  <2>1. CASE g \in Listed
    BY <2>1 DEF GroupLookup, Listed, GroupsDistinct
  <2>2. CASE g \notin Listed
    <3>1. group_list' = Append(group_list, g)
      BY <2>2 DEF GroupLookup, Listed
    <3>2. /\ DOMAIN group_list' = 1 .. Len(group_list) + 1
          /\ DOMAIN group_list = 1 .. Len(group_list) /\ Len(group_list) \in Nat
          /\ \A i \in 1 .. Len(group_list) : group_list'[i] = group_list[i]
          /\ group_list'[Len(group_list) + 1] = g
      BY <3>1, LenProperties DEF IInv, Lists, TypeOK
    <3>3. \A i \in 1 .. Len(group_list) : group_list[i] # g
      BY <2>2, <3>2 DEF Listed
    <3> QED
      BY <3>2, <3>3 DEF GroupsDistinct
  <2> QED
    BY <2>1, <2>2
<1>2. \A e : ~Passed(e) /\ ~Passed(e)'
  BY DEF Passed, PassedIn, Before
<1>3. DeadAtPlace'
  BY DEF DeadAtPlace
<1>4. Counted'
  <2> SUFFICES ASSUME NEW e \in Elements, Live(e)', age'[e] < AgeCap
               PROVE  e_lifecycles'[e] = (Lifecycles - Since(e)') % Wrap
    BY DEF Counted
  <2>1. CASE e_lifecycles'[e] = Lifecycles /\ age'[e] = 0
    <3>1. Since(e)' = 0
      BY <1>2, <2>1 DEF Since
    <3>2. Lifecycles = Wrap * 0 + Lifecycles /\ Lifecycles \in 0 .. Wrap - 1 /\ Wrap \in Nat \ {0}
      BY LifecyclesAssumption
    <3>3. Lifecycles % Wrap = Lifecycles
      BY <3>2, ModUnique
    <3> QED
      BY <2>1, <3>1, <3>2, <3>3
  <2>2. CASE Live(e) /\ e_lifecycles'[e] = e_lifecycles[e] /\ age'[e] = age[e]
    <3>1. Since(e)' = Since(e)
      BY <1>2, <2>2 DEF Since
    <3> QED
      BY <2>2, <3>1 DEF Counted
  <2> QED
    BY <2>1, <2>2
<1>5. NoneOverdue'
  <2> SUFFICES ASSUME Lifecycles >= 1, NEW e \in Elements, Live(e)'
               PROVE  Since(e)' < Lifecycles
    BY DEF NoneOverdue
  <2>1. Since(e)' = age'[e] /\ Since(e) = age[e]
    BY <1>2 DEF Since
  <2>2. Live(e) => Since(e) < Lifecycles
    BY DEF NoneOverdue
  <2> QED
    BY <2>1, <2>2, LifecyclesAssumption
<1> QED
  BY <1>1, <1>3, <1>4, <1>5

\* The walk begins before all places.
LEMMA EndReadCounts == ASSUME IInv, LInv, EndRead PROVE LInv'
<1> USE DEF LInv
<1>1. /\ pc = "read" /\ pc' = "reap" /\ walk' = [group |-> 1, pos |-> 1]
      /\ UNCHANGED <<group_list, order, records, e_lifecycles, age>>
  BY DEF EndRead
<1>2. GroupsDistinct' /\ DeadAtPlace'
  BY <1>1 DEF GroupsDistinct, DeadAtPlace
<1>3. ASSUME NEW e \in Elements, Live(e)'
      PROVE  Live(e) /\ Since(e)' = Since(e)
  <2>1. Live(e) /\ e_group[e] \in Groups
    BY <1>1, <1>3 DEF Live, records, IInv, Lists, TypeOK
  <2>2. PICK h \in DOMAIN group_list, i \in DOMAIN order[e_group[e]] :
          /\ Passed(e) <=> Before(pc, walk, h, i)
          /\ Passed(e)' <=> Before(pc', walk', h, i)
    BY <1>1, <2>1, StillPlace
  <2>3. h \in Nat \ {0} /\ i \in Nat \ {0}
    <3>1. group_list \in Seq(Groups) /\ order[e_group[e]] \in Seq(Elements)
      BY <2>1 DEF IInv, Lists, TypeOK
    <3> QED
      BY <3>1, LenProperties
  <2>4. ~Passed(e) /\ ~Passed(e)'
    BY <1>1, <2>2, <2>3 DEF Before
  <2> QED
    BY <1>1, <2>1, <2>4 DEF Since
<1> QED
  BY <1>1, <1>2, <1>3 DEF Counted, NoneOverdue

\* element_check_if_dead() passes one place and counts one element down.
LEMMA CheckIfDeadCounts == ASSUME IInv, LInv, CheckIfDead PROVE LInv'
<1> USE DEF LInv
<1> DEFINE n == (e_lifecycles[Here] - 1) % Wrap
<1>1. /\ pc = "reap" /\ IsPlace(walk)
      /\ e_lifecycles' = [e_lifecycles EXCEPT ![Here] = n]
      /\ UNCHANGED <<group_list, order, records, age>>
      /\ \/ n = 0 /\ pc' = "free" /\ walk' = walk
         \/ n # 0 /\ pc' = "reap" /\ walk' = [walk EXCEPT !.pos = @ + 1]
  BY DEF CheckIfDead, Here, IsDead
<1> HIDE DEF n
<1>2. /\ walk.group \in DOMAIN group_list /\ group_list[walk.group] \in Groups
      /\ walk.pos \in DOMAIN order[group_list[walk.group]]
      /\ walk \in [group : Nat \ {0}, pos : Nat \ {0}]
  BY <1>1 DEF IsPlace, IInv, Lists, TypeOK
<1>3. Here \in Elements /\ e_group[Here] = group_list[walk.group] /\ Live(Here)
  BY <1>2, NullAssumption DEF Here, IInv, Lists, TypeOK, ListsExact, Live
<1>4. GroupsDistinct'
  BY <1>1 DEF GroupsDistinct
<1>5. DeadAtPlace'
  <2> SUFFICES ASSUME pc' = "free" PROVE e_lifecycles'[Here'] = 0
    BY DEF DeadAtPlace
  <2>1. n = 0 /\ Here' = Here
    BY <1>1 DEF Here
  <2> QED
    BY <1>1, <1>3, <2>1 DEF IInv, Lists, TypeOK
<1>6. ASSUME NEW e \in Elements, Live(e)'
      PROVE  /\ Live(e) /\ age[e] \in 0 .. AgeCap
             /\ e = Here => /\ Since(e) = age[e] /\ Since(e)' = age[e] + 1
                            /\ e_lifecycles'[e] = n
             /\ e # Here => Since(e)' = Since(e) /\ e_lifecycles'[e] = e_lifecycles[e]
  <2>1. Live(e) /\ e_group[e] \in Groups /\ age[e] \in 0 .. AgeCap
    BY <1>1, <1>6 DEF Live, records, IInv, Lists, TypeOK
  <2>2. PICK h \in DOMAIN group_list, i \in DOMAIN order[e_group[e]] :
          /\ group_list[h] = e_group[e] /\ order[e_group[e]][i] = e
          /\ Passed(e) <=> Before(pc, walk, h, i)
          /\ Passed(e)' <=> Before(pc', walk', h, i)
    BY <1>1, <2>1, StillPlace
  <2>3. h \in Nat \ {0} /\ i \in Nat \ {0}
    <3>1. group_list \in Seq(Groups) /\ order[e_group[e]] \in Seq(Elements)
      BY <2>1 DEF IInv, Lists, TypeOK
    <3> QED
      BY <3>1, LenProperties
  <2>4. e = Here <=> h = walk.group /\ i = walk.pos
    <3>1. ASSUME e = Here PROVE h = walk.group /\ i = walk.pos
      <4>1. h = walk.group
        BY <1>2, <1>3, <2>2, <3>1 DEF GroupsDistinct
      <4> QED
        <5>1. group_list[h] = group_list[walk.group]
          BY <4>1
        <5>2. order[e_group[e]][walk.pos] = order[e_group[e]][i] /\ walk.pos \in DOMAIN order[e_group[e]]
          BY <1>2, <2>2, <3>1, <5>1 DEF Here
        <5>3. \A m, x \in DOMAIN order[e_group[e]] : order[e_group[e]][m] = order[e_group[e]][x] => m = x
          BY <2>1 DEF IInv, Lists, ListsExact
        <5> QED
          BY <2>2, <4>1, <5>2, <5>3
    <3>2. ASSUME h = walk.group, i = walk.pos PROVE e = Here
      BY <2>2, <3>2 DEF Here
    <3> QED
      BY <3>1, <3>2
  <2>5. e = Here => ~Passed(e) /\ Passed(e)'
    BY <1>1, <1>2, <2>2, <2>3, <2>4 DEF Before
  <2>6. e # Here => (Passed(e) <=> Passed(e)')
    BY <1>1, <1>2, <2>2, <2>3, <2>4 DEF Before
  <2>7. /\ e = Here => e_lifecycles'[e] = n
        /\ e # Here => e_lifecycles'[e] = e_lifecycles[e]
    BY <1>1, <1>3 DEF IInv, Lists, TypeOK
  <2>8. age'[e] = age[e]
    BY <1>1
  <2> QED
    BY <2>1, <2>5, <2>6, <2>7, <2>8 DEF Since
<1>7. Counted'
  <2> SUFFICES ASSUME NEW e \in Elements, Live(e)', age'[e] < AgeCap
               PROVE  e_lifecycles'[e] = (Lifecycles - Since(e)') % Wrap
    BY DEF Counted
  <2>1. Live(e) /\ e_lifecycles[e] = (Lifecycles - Since(e)) % Wrap
    BY <1>1, <1>6 DEF Counted
  <2>2. CASE e = Here
    <3>1. e_lifecycles[e] = (Lifecycles - age[e]) % Wrap /\ age[e] \in Nat
      BY <1>6, <2>1, <2>2, LifecyclesAssumption
    <3>2. (((Lifecycles - age[e]) % Wrap) - 1) % Wrap = (Lifecycles - age[e] - 1) % Wrap
      BY <3>1, LifecyclesAssumption, ModDown
    <3>3. Lifecycles - age[e] - 1 = Lifecycles - (age[e] + 1)
      BY <3>1, LifecyclesAssumption
    <3>4. e_lifecycles'[e] = (e_lifecycles[e] - 1) % Wrap
      BY <1>6, <2>2 DEF n
    <3> QED
      BY <1>6, <2>2, <3>1, <3>2, <3>3, <3>4
  <2>3. CASE e # Here
    BY <1>6, <2>1, <2>3
  <2> QED
    BY <2>2, <2>3
<1>8. NoneOverdue'
  <2> SUFFICES ASSUME Lifecycles >= 1, NEW e \in Elements, Live(e)'
               PROVE  Since(e)' < Lifecycles \/ (pc' = "free" /\ e = Here')
    BY DEF NoneOverdue
  <2>1. Live(e) /\ Since(e) < Lifecycles
    BY <1>1, <1>6 DEF NoneOverdue
  <2>2. CASE e = Here
    <3>1. Since(e) = age[e] /\ Since(e)' = age[e] + 1 /\ age[e] \in Nat /\ age[e] < Lifecycles
      BY <1>6, <2>1, <2>2
    <3>2. e_lifecycles[e] = (Lifecycles - age[e]) % Wrap
      BY <2>1, <3>1, LifecyclesAssumption DEF Counted
    <3> DEFINE left == Lifecycles - age[e]
    <3>3. left \in 1 .. Wrap - 1 /\ Wrap \in Nat \ {0}
      BY <3>1, LifecyclesAssumption
    <3>4. \A r \in 0 .. Wrap - 1 : r % Wrap = r
      <4>1. \A r \in 0 .. Wrap - 1 : r = Wrap * 0 + r /\ r \in Int
        BY <3>3
      <4> QED
        BY <3>3, <4>1, ModUnique
    <3>5. e_lifecycles[e] = left /\ n = left - 1
      <4> HIDE DEF left
      <4>1. left \in 0 .. Wrap - 1 /\ left - 1 \in 0 .. Wrap - 1
        BY <3>3
      <4>2. e_lifecycles[e] = left
        BY <3>2, <3>4, <4>1 DEF left
      <4> QED
        BY <2>2, <3>4, <4>1, <4>2 DEF n
    <3>6. CASE n = 0
      BY <1>1, <2>2, <3>6 DEF Here
    <3>7. CASE n # 0
      BY <3>1, <3>3, <3>5, <3>7, LifecyclesAssumption
    <3> QED
      BY <3>6, <3>7
  <2>3. CASE e # Here
    BY <1>6, <2>1, <2>3
  <2> QED
    BY <2>2, <2>3
<1> QED
  BY <1>4, <1>5, <1>7, <1>8

\* The walk leaves a group when it has passed all its places.
LEMMA NextGroupCounts == ASSUME IInv, LInv, NextGroup PROVE LInv'
<1> USE DEF LInv
<1>1. /\ pc = "reap" /\ ~IsPlace(walk)
      /\ UNCHANGED <<group_list, order, records, e_lifecycles, age>>
      /\ \/ /\ walk.group < Len(group_list) /\ pc' = "reap"
            /\ walk' = [group |-> walk.group + 1, pos |-> 1]
         \/ ~(walk.group < Len(group_list)) /\ pc' = "draw"
  BY DEF NextGroup
<1>2. walk \in [group : Nat \ {0}, pos : Nat \ {0}] /\ group_list \in Seq(Groups)
  BY DEF IInv, Lists, TypeOK
<1>3. GroupsDistinct' /\ DeadAtPlace'
  BY <1>1 DEF GroupsDistinct, DeadAtPlace
<1>4. ASSUME NEW e \in Elements, Live(e)'
      PROVE  Live(e) /\ Since(e)' = Since(e)
  <2>1. Live(e) /\ e_group[e] \in Groups
    BY <1>1, <1>4 DEF Live, records, IInv, Lists, TypeOK
  <2>2. PICK h \in DOMAIN group_list, i \in DOMAIN order[e_group[e]] :
          /\ group_list[h] = e_group[e] /\ order[e_group[e]][i] = e
          /\ Passed(e) <=> Before(pc, walk, h, i)
          /\ Passed(e)' <=> Before(pc', walk', h, i)
    BY <1>1, <2>1, StillPlace
  <2>3. /\ order[e_group[e]] \in Seq(Elements)
        /\ DOMAIN group_list = 1 .. Len(group_list) /\ Len(group_list) \in Nat
        /\ DOMAIN order[e_group[e]] = 1 .. Len(order[e_group[e]]) /\ Len(order[e_group[e]]) \in Nat
    <3>1. order[e_group[e]] \in Seq(Elements)
      BY <2>1 DEF IInv, Lists, TypeOK
    <3> QED
      BY <1>2, <3>1, LenProperties
  <2>4. h = walk.group => i < walk.pos
    <3> SUFFICES ASSUME h = walk.group PROVE i < walk.pos
      OBVIOUS
    <3>1. walk.pos \notin DOMAIN order[e_group[e]]
      BY <1>1, <2>2 DEF IsPlace
    <3> QED
      BY <1>2, <2>2, <2>3, <3>1
  <2>5. Before(pc, walk, h, i) <=> h <= walk.group
    BY <1>1, <1>2, <2>3, <2>4 DEF Before
  <2>6. Before(pc', walk', h, i) <=> h <= walk.group
    <3>1. h \in 1 .. Len(group_list) /\ i \in Nat \ {0}
      BY <2>2, <2>3
    <3>2. CASE walk.group < Len(group_list)
      <4>1. pc' = "reap" /\ walk'.group = walk.group + 1 /\ walk'.pos = 1
        BY <1>1, <3>2
      <4> QED
        BY <1>2, <3>1, <4>1 DEF Before
    <3>3. CASE ~(walk.group < Len(group_list))
      BY <1>1, <1>2, <2>3, <3>1, <3>3 DEF Before
    <3> QED
      BY <3>2, <3>3
  <2>7. age'[e] = age[e]
    BY <1>1
  <2> QED
    BY <2>1, <2>2, <2>5, <2>6, <2>7 DEF Since
<1>5. Counted' /\ NoneOverdue'
  BY <1>1, <1>4 DEF Counted, NoneOverdue
<1> QED
  BY <1>3, <1>5

\* What moves up into the place of a freed element has not been passed, what
\* stood before it has.
LEMMA FreedCounts ==
  ASSUME IInv, IInv', LInv, NEW g \in Groups, NEW k \in DOMAIN order[g], NEW f \in Elements,
         FreedAt(g, k, f)
  PROVE  LInv'
<1> USE DEF LInv
<1> DEFINE s == order[g]
           t == order'[g]
<1>1. /\ walk.group \in DOMAIN group_list /\ g = group_list[walk.group]
      /\ walk.pos \in DOMAIN s /\ walk.pos <= k /\ f = s[k]
      /\ pc = "free" /\ pc' = (IF k = walk.pos THEN "reap" ELSE "free")
      /\ walk' = walk /\ group_list' = group_list
      /\ \A h \in Groups : h # g => order'[h] = order[h]
  BY DEF FreedAt
<1>2. /\ s \in Seq(Elements) /\ DOMAIN s = 1 .. Len(s) /\ Len(s) \in Nat
      /\ DOMAIN t = 1 .. Len(s) - 1
      /\ \A j \in 1 .. Len(s) - 1 : t[j] = IF j < k THEN s[j] ELSE s[j + 1]
  <2>1. s \in Seq(Elements) /\ t \in Seq(Elements) /\ Len(t) = Len(s) - 1
    BY DEF IInv, Lists, TypeOK, FreedAt
  <2>2. \A j \in 1 .. Len(s) - 1 : t[j] = IF j < k THEN s[j] ELSE s[j + 1]
    BY DEF FreedAt
  <2> HIDE DEF s, t
  <2> QED
    BY <2>1, <2>2, LenProperties
<1>3. Here = s[walk.pos] /\ walk \in [group : Nat \ {0}, pos : Nat \ {0}]
  BY <1>1 DEF Here, IInv, Lists, TypeOK
<1>4. /\ e_group'[f] = NoGroup
      /\ \A d \in Elements : d # f => /\ e_group'[d] = e_group[d]
                                      /\ e_lifecycles'[d] = e_lifecycles[d]
                                      /\ age'[d] = age[d]
  BY DEF FreedAt, IInv, Lists, TypeOK
<1>5. \A x, y \in DOMAIN s : s[x] = s[y] => x = y
  BY DEF IInv, Lists, ListsExact
<1>6. GroupsDistinct'
  BY <1>1 DEF GroupsDistinct
<1>7. pc' = "free" => Here' = Here /\ Here # f /\ Here \in Elements
  <2> SUFFICES ASSUME pc' = "free" PROVE Here' = Here /\ Here # f /\ Here \in Elements
    OBVIOUS
  <2>1. walk.pos < k /\ walk.pos \in 1 .. Len(s) - 1
    BY <1>1, <1>2
  <2>2. Here' = t[walk.pos]
    BY <1>1 DEF Here
  <2>3. t[walk.pos] = s[walk.pos]
    BY <1>2, <2>1
  <2>4. s[walk.pos] # f
    BY <1>1, <1>5, <2>1
  <2>5. s[walk.pos] \in Elements
    BY <1>1, <1>2
  <2> QED
    BY <1>3, <2>2, <2>3, <2>4, <2>5
<1>8. DeadAtPlace'
  BY <1>1, <1>4, <1>7 DEF DeadAtPlace
<1>9. ASSUME NEW d \in Elements, Live(d)'
      PROVE  d # f /\ Live(d) /\ Since(d)' = Since(d)
  <2>1. d # f /\ Live(d) /\ e_group'[d] = e_group[d]
    BY <1>4, <1>9 DEF Live
  <2>2. /\ e_group[d] \in Groups
        /\ \E h \in DOMAIN group_list : \E i \in DOMAIN order[e_group[d]] :
              /\ group_list[h] = e_group[d] /\ order[e_group[d]][i] = d
              /\ Passed(d) <=> Before(pc, walk, h, i)
    BY <2>1, PlaceOf
  <2>3. PICK h \in DOMAIN group_list, i \in DOMAIN order[e_group[d]] :
          /\ group_list[h] = e_group[d] /\ order[e_group[d]][i] = d
          /\ Passed(d) <=> Before(pc, walk, h, i)
    BY <2>2
  <2>4. \A j \in DOMAIN order'[e_group[d]] : order'[e_group[d]][j] = d =>
           (Passed(d)' <=> Before(pc', walk', h, j))
    <3> SUFFICES ASSUME NEW j \in DOMAIN order'[e_group[d]], order'[e_group[d]][j] = d
                 PROVE  Passed(d)' <=> Before(pc', walk', h, j)
      OBVIOUS
    <3>1. \A x, y \in DOMAIN order'[e_group[d]] :
             order'[e_group[d]][x] = order'[e_group[d]][y] => x = y
      BY <2>2 DEF IInv, Lists, ListsExact
    <3>2. \A x, y \in DOMAIN group_list : group_list[x] = group_list[y] => x = y
      BY DEF GroupsDistinct
    <3>3. PassedIn(pc', walk', group_list, e_group[d], order'[e_group[d]], d)
            <=> Before(pc', walk', h, j)
      BY <2>3, <3>1, <3>2, PassedPlace
    <3>4. Passed(d)' <=> PassedIn(pc', walk', group_list', e_group'[d], order'[e_group'[d]], d)
      BY DEF Passed
    <3> QED
      BY <1>1, <2>1, <3>3, <3>4
  <2>5. Passed(d)' <=> Passed(d)
    <3>1. CASE e_group[d] # g
      <4>1. h # walk.group
        BY <1>1, <2>3, <3>1
      <4>2. Passed(d)' <=> Before(pc', walk', h, i)
        BY <1>1, <2>2, <2>3, <2>4, <3>1
      <4> QED
        BY <1>1, <2>3, <4>1, <4>2 DEF Before
    <3>2. CASE e_group[d] = g
      <4>1. h = walk.group
        BY <1>1, <2>3, <3>2 DEF GroupsDistinct
      <4>2. i \in 1 .. Len(s) /\ s[i] = d /\ i # k
        BY <1>1, <1>2, <2>1, <2>3, <3>2
      <4> DEFINE j == IF i < k THEN i ELSE i - 1
      <4>3. j \in 1 .. Len(s) - 1 /\ t[j] = d
        <5>1. k \in 1 .. Len(s)
          BY <1>2
        <5> HIDE DEF s, t
        <5> QED
          BY <1>2, <4>2, <5>1
      <4>4. Passed(d)' <=> Before(pc', walk', h, j)
        BY <1>2, <2>4, <3>2, <4>3
      <4>5. Before(pc, walk, h, i) <=> i <= walk.pos
        <5> HIDE DEF s
        <5> QED
          BY <1>1, <1>3, <4>1, <4>2 DEF Before
      <4>6. Before(pc', walk', h, j) <=> i <= walk.pos
        <5>1. k \in 1 .. Len(s) /\ walk.pos \in 1 .. Len(s)
          BY <1>1, <1>2
        <5> HIDE DEF s
        <5> QED
          BY <1>1, <1>2, <1>3, <4>1, <4>2, <5>1 DEF Before
      <4> QED
        BY <2>3, <4>4, <4>5, <4>6
    <3> QED
      BY <3>1, <3>2
  <2>6. age'[d] = age[d]
    BY <1>4, <2>1
  <2> QED
    BY <2>1, <2>5, <2>6 DEF Since
<1>10. Counted'
  BY <1>4, <1>9 DEF Counted
<1>11. NoneOverdue'
  <2> SUFFICES ASSUME Lifecycles >= 1, NEW d \in Elements, Live(d)'
               PROVE  Since(d)' < Lifecycles \/ (pc' = "free" /\ d = Here')
    BY DEF NoneOverdue
  <2>1. d # f /\ (Since(d)' < Lifecycles \/ d = Here)
    BY <1>9 DEF NoneOverdue
  <2>2. d = Here => pc' = "free"
    BY <1>1, <1>3, <2>1
  <2> QED
    BY <1>7, <2>1, <2>2
<1> QED
  BY <1>6, <1>8, <1>10, <1>11

\* Every handler keeps what is known about lifetimes.
LEMMA LifetimeStep == IInv /\ LInv /\ [Next]_vars => LInv'
<1> SUFFICES ASSUME IInv, LInv, [Next]_vars PROVE LInv'
  OBVIOUS
<1>1. CASE Keys
  BY <1>1, SelectingCounts DEF Keys, KeyDown, KeyUp, KeyGroupNext, KeyGroupPrev, Key
<1>2. CASE Observe
  <2>1. PICK g \in Groups, n \in Names, p \in Elements \cup {NoElement} :
          ObserveKnown(g, n, p) \/ ObserveNew(g, n, p) \/ ObserveDenied(g, n, p)
    BY <1>2 DEF Observe
  <2>2. CASE ObserveKnown(g, n, p)
    <3>1. PICK e \in Elements : Lifesign(e)
      BY <2>2 DEF ObserveKnown, Lookup
    <3>2. GroupLookup(g) /\ pc = "read" /\ pc' = "read" /\ UNCHANGED records
      BY <2>2 DEF ObserveKnown
    <3>3. ASSUME NEW d \in Elements, Live(d)'
          PROVE  \/ e_lifecycles'[d] = Lifecycles /\ age'[d] = 0
                 \/ Live(d) /\ e_lifecycles'[d] = e_lifecycles[d] /\ age'[d] = age[d]
      BY <3>1, <3>2, <3>3 DEF Lifesign, Live, records, IInv, Lists, TypeOK
    <3> QED
      BY <3>2, <3>3, ReportCounts
  <2>3. CASE ObserveNew(g, n, p)
    <3>1. PICK e \in Elements : LinkedIn(g, p, e)
      BY <2>3, NewFacts
    <3>2. GroupLookup(g) /\ pc = "read" /\ pc' = "read"
      BY <3>1 DEF LinkedIn
    <3>3. ASSUME NEW d \in Elements, Live(d)'
          PROVE  \/ e_lifecycles'[d] = Lifecycles /\ age'[d] = 0
                 \/ Live(d) /\ e_lifecycles'[d] = e_lifecycles[d] /\ age'[d] = age[d]
      BY <3>1, <3>3 DEF LinkedIn, Lifesign, Live, IInv, Lists, TypeOK
    <3> QED
      BY <3>2, <3>3, ReportCounts
  <2>4. CASE ObserveDenied(g, n, p)
    <3>1. /\ GroupLookup(g) /\ pc = "read" /\ pc' = "read"
          /\ UNCHANGED <<records, e_lifecycles, age>>
      BY <2>4 DEF ObserveDenied
    <3>2. \A d \in Elements : Live(d)' =>
             Live(d) /\ e_lifecycles'[d] = e_lifecycles[d] /\ age'[d] = age[d]
      BY <3>1 DEF Live, records
    <3> QED
      BY <3>1, <3>2, ReportCounts
  <2> QED
    BY <2>1, <2>2, <2>3, <2>4
<1>3. CASE ElementFree
  <2>1. IInv'
    BY <1>3, ElementFreeStep
  <2>2. PICK g, k, f : g \in Groups /\ k \in DOMAIN order[g] /\ f \in Elements /\ FreedAt(g, k, f)
    BY <1>3, FreeFacts
  <2> QED
    BY <2>1, <2>2, FreedCounts
<1>4. CASE Draw
  BY <1>4, SelectingCounts DEF Draw
<1>5. CASE UNCHANGED vars
  BY <1>5 DEF LInv, GroupsDistinct, Counted, DeadAtPlace, NoneOverdue, Since, Passed, PassedIn, Before,
              Here, Live, vars, records
<1> QED
  BY <1>1, <1>2, <1>3, <1>4, <1>5, StartReadCounts, EndReadCounts, CheckIfDeadCounts, NextGroupCounts
     DEF Next, Loop

\* What is known about lifetimes holds in every reachable state.
LEMMA LifetimeInvariance == Spec => [](IInv /\ LInv)
BY InitIInv, InitLInv, NextStep, LifetimeStep, PTL DEF Spec

\* Every handler keeps the lists in pre-order.
LEMMA BetweenStep == IInv /\ Between /\ [Next]_vars => Between'
<1> SUFFICES ASSUME IInv, Between, [Next]_vars PROVE Between'
  OBVIOUS
<1>1. CASE ElementFree
  BY <1>1, FreeFacts, FreedBetween
<1>2. CASE Observe
  <2>1. PICK g \in Groups, n \in Names, p \in Elements \cup {NoElement} :
          ObserveKnown(g, n, p) \/ ObserveNew(g, n, p) \/ ObserveDenied(g, n, p)
    BY <1>2 DEF Observe
  <2>2. CASE ObserveNew(g, n, p)
    BY <2>2, NewFacts, LinkedInBetween
  <2>3. CASE ObserveKnown(g, n, p) \/ ObserveDenied(g, n, p)
    BY <2>3 DEF ObserveKnown, ObserveDenied, Between, records
  <2> QED
    BY <2>1, <2>2, <2>3
<1>3. CASE UNCHANGED <<order, e_parent>>
  BY <1>3 DEF Between
<1> QED
  BY <1>1, <1>2, <1>3
     DEF Next, Keys, KeyDown, KeyUp, KeyGroupNext, KeyGroupPrev, Key, Loop, StartRead, EndRead,
         CheckIfDead, NextGroup, Draw, vars, records

\* In whatever order elements and children of elements appear and leave, the
\* list of a group stays a pre-order of its forest.
THEOREM AlwaysPreOrder == Spec => []PreOrder
<1>1. Init => Between
  BY DEF Init, NoElementYet, Between
<1>2. Spec => [](IInv /\ Between)
  BY <1>1, InitIInv, NextStep, BetweenStep, PTL DEF Spec
<1>3. IInv /\ Between => PreOrder
  <2> SUFFICES ASSUME IInv, Between, NEW g \in Groups, NEW i \in DOMAIN order[g],
                      NEW j \in DOMAIN order[g], e_parent[order[g][j]] = order[g][i]
               PROVE  /\ i < j
                      /\ \A k \in i + 1 .. j - 1 :
                            e_parent[order[g][k]] \in {order[g][m] : m \in i .. k - 1}
    BY DEF PreOrder
  <2>1. i < j
    BY DEF IInv, ParentBefore
  <2>2. \A k \in i + 1 .. j - 1 : \E m \in i .. k - 1 : e_parent[order[g][k]] = order[g][m]
    BY DEF Between
  <2> QED
    BY <2>1, <2>2
<1> QED
  BY <1>2, <1>3, PTL

\* Each reading counts every element's lifetime down by one, for every
\* lifetime, also one of 0 readings, from which the counter wraps around.
THEOREM AlwaysCountedOnce == Spec => []CountedOnce
<1>1. IInv /\ LInv => CountedOnce
  <2> SUFFICES ASSUME IInv, LInv, pc = "draw", NEW e \in Elements, Live(e), age[e] < AgeCap
               PROVE  e_lifecycles[e] = (Lifecycles - 1 - age[e]) % Wrap
    BY DEF CountedOnce
  <2>1. Passed(e)
    BY PlaceOf DEF LInv, Before
  <2>2. e_lifecycles[e] = (Lifecycles - (age[e] + 1)) % Wrap
    BY <2>1 DEF LInv, Counted, Since
  <2>3. Lifecycles - (age[e] + 1) = Lifecycles - 1 - age[e]
    BY LifecyclesAssumption DEF IInv, Lists, TypeOK
  <2> QED
    BY <2>2, <2>3
<1> QED
  BY <1>1, LifetimeInvariance, PTL

\* Nothing overdue is drawn, for every lifetime of at least one reading.
THEOREM AlwaysStaleIsDropped == ASSUME Lifecycles >= 1 PROVE Spec => []StaleIsDropped
<1>1. IInv /\ LInv => StaleIsDropped
  <2> SUFFICES ASSUME IInv, LInv, pc \in {"draw", "keys"}, NEW e \in Elements, Live(e)
               PROVE  age[e] + 1 < Lifecycles
    BY DEF StaleIsDropped
  <2>1. Passed(e)
    BY PlaceOf DEF LInv, Before
  <2>2. Since(e) < Lifecycles
    BY DEF LInv, NoneOverdue
  <2> QED
    BY <2>1, <2>2 DEF Since
<1> QED
  BY <1>1, LifetimeInvariance, PTL

\* The element the reaping walk stands on to free it has not been updated, and
\* its lifetime ends with this reading or has ended before.
LEMMA HereIsStale ==
  ASSUME IInv, LInv, Lifecycles # 1, pc = "free", IsPlace(walk)
  PROVE  /\ Here \in Elements /\ Live(Here)
         /\ age[Here] \in Nat /\ age[Here] >= 1 /\ age[Here] >= Lifecycles - 1
<1>1. Here \in Elements /\ e_group[Here] = group_list[walk.group] /\ Live(Here)
  <2> DEFINE g == group_list[walk.group]
  <2>1. walk.group \in DOMAIN group_list /\ walk.pos \in DOMAIN order[g] /\ Here = order[g][walk.pos]
    BY DEF IsPlace, Here
  <2>2. g \in Groups
    BY <2>1 DEF IInv, Lists, TypeOK
  <2>3. e_group[order[g][walk.pos]] = g /\ order[g][walk.pos] \in Elements
    BY <2>1, <2>2 DEF IInv, Lists, TypeOK, ListsExact
  <2> QED
    BY <2>1, <2>2, <2>3, NullAssumption DEF Live
<1>2. Passed(Here)
  <2>1. PassedIn(pc, walk, group_list, group_list[walk.group], order[group_list[walk.group]], Here)
    BY DEF PassedIn, Before, Here, IsPlace
  <2> QED
    BY <1>1, <2>1 DEF Passed
<1>3. /\ e_lifecycles[Here] = 0
      /\ age[Here] < AgeCap => e_lifecycles[Here] = (Lifecycles - (age[Here] + 1)) % Wrap
      /\ age[Here] \in Nat
  BY <1>1, <1>2 DEF LInv, DeadAtPlace, Counted, Since, IInv, Lists, TypeOK
<1> DEFINE a == age[Here]
<1>4. a \in Nat /\ (a < AgeCap => 0 = (Lifecycles - (a + 1)) % Wrap)
  BY <1>3
<1> HIDE DEF a
<1>5. a >= 1 /\ a >= Lifecycles - 1
  <2>1. CASE a >= AgeCap
    BY <1>4, <2>1, LifecyclesAssumption
  <2>2. CASE a < AgeCap /\ a + 1 < Lifecycles
    <3> DEFINE left == Lifecycles - (a + 1)
    <3>1. left \in 1 .. Wrap - 1 /\ Wrap \in Nat \ {0}
      BY <1>4, <2>2, LifecyclesAssumption
    <3>2. left % Wrap = 0
      BY <1>4, <2>2
    <3> HIDE DEF left
    <3>3. left = Wrap * 0 + left /\ left \in 0 .. Wrap - 1 /\ left \in Int
      BY <3>1
    <3> QED
      BY <3>1, <3>2, <3>3, ModUnique
  <2>3. CASE a < AgeCap /\ Lifecycles = 0 /\ a = 0
    <3>1. (-1) % Wrap = 0
      BY <1>4, <2>3
    <3>2. -1 = Wrap * (-1) + (Wrap - 1) /\ Wrap - 1 \in 0 .. Wrap - 1 /\ Wrap \in Nat \ {0}
      BY LifecyclesAssumption
    <3>3. (-1) % Wrap = Wrap - 1
      <4>1. \A x, q \in Int : \A r \in 0 .. Wrap - 1 : x = Wrap * q + r => x % Wrap = r
        BY <3>2, ModUnique
      <4> QED
        BY <3>2, <4>1
    <3> QED
      BY <3>1, <3>3, LifecyclesAssumption
  <2> QED
    BY <1>4, <2>1, <2>2, <2>3, LifecyclesAssumption
<1> QED
  BY <1>1, <1>4, <1>5 DEF a

-----------------------------------------------------------------------------
(***************************************************************************)
(* Up and Down.                                                             *)
(***************************************************************************)
\* PosIn, where nothing is listed twice.
LEMMA PosInUnique ==
  ASSUME NEW s, NEW i \in DOMAIN s, \A x, y \in DOMAIN s : s[x] = s[y] => x = y
  PROVE  PosIn(s, s[i]) = i
BY PosInFacts

\* The steps between groups undo each other.
LEMMA GroupRoundTrip ==
  ASSUME TypeOK, GroupsDistinct, NEW g \in Listed
  PROVE  /\ GroupSelectPrev(GroupSelectNext(g)) = g
         /\ GroupSelectNext(GroupSelectPrev(g)) = g
<1> DEFINE n == Len(group_list)
<1>1. PICK i \in DOMAIN group_list : g = group_list[i]
  BY DEF Listed
<1>2. /\ DOMAIN group_list = 1 .. n /\ n \in Nat /\ i \in 1 .. n
      /\ \A x \in 1 .. n : group_list[x] \in Groups /\ group_list[x] # NoGroup
  BY <1>1, LenProperties, NullAssumption DEF TypeOK
<1>3. FirstOf(group_list, NoGroup) = group_list[1] /\ LastOf(group_list, NoGroup) = group_list[n]
  BY <1>2, EmptySeq DEF FirstOf, LastOf
<1>4. \A x, y \in 1 .. n : group_list[x] = group_list[y] => x = y
  BY <1>2 DEF GroupsDistinct
<1>5. \A x \in 1 .. n : PosIn(group_list, group_list[x]) = x
  BY <1>2, <1>4, PosInUnique
<1> HIDE DEF n
<1>6. \A x \in 1 .. n :
         /\ GroupSelectNext(group_list[x]) = group_list[IF x = n THEN 1 ELSE x + 1]
         /\ GroupSelectPrev(group_list[x]) = group_list[IF x = 1 THEN n ELSE x - 1]
  BY <1>2, <1>3, <1>4, <1>5 DEF GroupSelectNext, GroupSelectPrev
<1> DEFINE a == IF i = n THEN 1 ELSE i + 1
           b == IF i = 1 THEN n ELSE i - 1
<1>7. /\ a \in 1 .. n /\ (IF a = 1 THEN n ELSE a - 1) = i
      /\ b \in 1 .. n /\ (IF b = n THEN 1 ELSE b + 1) = i
  BY <1>2
<1> HIDE DEF a, b
<1>8. GroupSelectNext(g) = group_list[a] /\ GroupSelectPrev(g) = group_list[b]
  BY <1>1, <1>2, <1>6 DEF a, b
<1>9. GroupSelectPrev(group_list[a]) = group_list[i] /\ GroupSelectNext(group_list[b]) = group_list[i]
  BY <1>6, <1>7
<1> QED
  BY <1>1, <1>8, <1>9

\* In a state without an empty group, what the two keys do to the selected element.
LEMMA SelectedSteps ==
  ASSUME Lists, GroupsDistinct, NEW s, SelOK(s), NEW g \in Listed, NEW i \in DOMAIN order[g],
         GroupCurrent(s.group) = g, s.cur[g] = order[g][i],
         \A h \in Listed : order[h] # <<>>
  PROVE  /\ i # Len(order[g]) => SelectNext(s) = Pick(s, g, order[g][i + 1])
         /\ i = Len(order[g]) =>
               SelectNext(s) = Pick(s, GroupSelectNext(g), order[GroupSelectNext(g)][1])
         /\ i # 1 => SelectPrev(s) = Pick(s, g, order[g][i - 1])
         /\ i = 1 => SelectPrev(s) =
               Pick(s, GroupSelectPrev(g), order[GroupSelectPrev(g)][Len(order[GroupSelectPrev(g)])])
<1> DEFINE o == order[g]
           up == GroupSelectPrev(g)
           down == GroupSelectNext(g)
<1>1. Listed \subseteq Groups /\ g \in Groups /\ TypeOK
  BY ListedIsGroup DEF Lists
<1>2. /\ DOMAIN o = 1 .. Len(o) /\ Len(o) \in Nat /\ o # <<>> /\ i \in 1 .. Len(o)
      /\ \A x, y \in DOMAIN o : o[x] = o[y] => x = y
  BY <1>1, LenProperties DEF Lists, TypeOK, ListsExact
<1>3. \A x \in 1 .. Len(o) : PosIn(o, o[x]) = x
  BY <1>2, PosInUnique
<1>4. o[i] # NoElement
  BY <1>1, InList
<1>5. group_list # <<>>
  BY EmptySeq DEF Listed
<1>6. down \in Listed /\ up \in Listed
  BY <1>1, <1>5, GroupSteps
<1>7. \A h \in Listed : FirstOf(order[h], NoElement) = order[h][1]
                        /\ LastOf(order[h], NoElement) = order[h][Len(order[h])]
  BY DEF FirstOf, LastOf
<1>8. \A h \in Listed : GroupCurrent(h) = h
  BY <1>1, NullAssumption DEF GroupCurrent
<1>9. \A h \in Listed : LET t == [s EXCEPT !.group = h]
                        IN  /\ SelectFirst(t) = Pick(s, h, order[h][1])
                            /\ SelectLast(t) = Pick(s, h, order[h][Len(order[h])])
  BY <1>7, <1>8 DEF SelectFirst, SelectLast, Pick, SelOK
<1> HIDE DEF up, down, o
<1>10. /\ LastOf(order[g], NoElement) = o[Len(o)] /\ FirstOf(order[g], NoElement) = o[1]
       /\ s.cur[g] = o[i] /\ order[g] = o
  BY <1>7 DEF o
<1>11. SelectNext(s) = IF o[i] # o[Len(o)] THEN Pick(s, g, o[i + 1])
                       ELSE Pick(s, down, order[down][1])
  <2>1. SelectFirst([s EXCEPT !.group = down]) = Pick(s, down, order[down][1])
    BY <1>6, <1>9
  <2> QED
    BY <1>2, <1>3, <1>4, <1>10, <2>1 DEF SelectNext, down
<1>12. SelectPrev(s) = IF o[i] # o[1] THEN Pick(s, g, o[i - 1])
                       ELSE Pick(s, up, order[up][Len(order[up])])
  <2>1. SelectLast([s EXCEPT !.group = up]) = Pick(s, up, order[up][Len(order[up])])
    BY <1>6, <1>9
  <2> QED
    BY <1>2, <1>3, <1>4, <1>10, <2>1 DEF SelectPrev, up
<1>13. o[i] = o[Len(o)] <=> i = Len(o)
  BY <1>2
<1>14. o[i] = o[1] <=> i = 1
  BY <1>2
<1> QED
  BY <1>11, <1>12, <1>13, <1>14 DEF o, up, down

\* Up undoes Down and Down undoes Up, within a group, from one group to the
\* next and around the ends of the list of groups.
THEOREM UpAlwaysUndoesDown == Spec => []UpUndoesDown
<1>1. IInv /\ LInv => UpUndoesDown
  <2> SUFFICES ASSUME IInv, LInv, NoEmptyGroup, Selected(Selection)[2] # NoElement
               PROVE  /\ Selected(SelectPrev(SelectNext(Selection))) = Selected(Selection)
                      /\ Selected(SelectNext(SelectPrev(Selection))) = Selected(Selection)
    BY DEF UpUndoesDown
  <2> DEFINE s == Selection
             g == GroupCurrent(s.group)
  <2>1. Lists /\ GroupsDistinct /\ TypeOK /\ SelOK(s) /\ group_list # <<>>
    BY SelectionOK DEF IInv, LInv, Lists, NoEmptyGroup
  <2>2. \A h \in Listed : order[h] # <<>> /\ h \in Groups
    BY <2>1, ListedIsGroup DEF NoEmptyGroup, Listed
  <2>3. g \in Listed
    BY <2>1, GroupSteps DEF SelOK
  <2>4. s.cur[g] # NoElement
    BY DEF Selected
  <2>5. PICK i \in DOMAIN order[g] : order[g][i] = s.cur[g]
    <3> HIDE DEF s, g
    <3>1. s.cur[g] \in Elements /\ e_group[s.cur[g]] = g /\ g \in Groups
      BY <2>1, <2>2, <2>3, <2>4 DEF SelOK
    <3> QED
      BY <2>1, <3>1, NullAssumption DEF Lists, ListsExact, Live
  <2> HIDE DEF s
  <2>6. g = GroupCurrent(s.group)
    OBVIOUS
  <2> HIDE DEF g
  <2>7. \A h \in Listed : GroupCurrent(h) = h
    BY <2>2, NullAssumption DEF GroupCurrent
  <2>8. \A h \in Listed : \A x \in DOMAIN order[h] :
          /\ SelOK(Pick(s, h, order[h][x]))
          /\ Pick(s, h, order[h][x]).group = h
          /\ Pick(s, h, order[h][x]).cur[h] = order[h][x]
          /\ Selected(Pick(s, h, order[h][x])) = <<h, order[h][x]>>
          /\ \A k \in Listed : \A y \in DOMAIN order[k] :
                Selected(Pick(Pick(s, h, order[h][x]), k, order[k][y])) = <<k, order[k][y]>>
    BY <2>1, <2>2, <2>7, InList, PickOK DEF SelOK, Pick, Selected
  <2>9. \A h \in Listed : /\ DOMAIN order[h] = 1 .. Len(order[h])
                          /\ Len(order[h]) \in Nat \ {0}
    <3> SUFFICES ASSUME NEW h \in Listed
                 PROVE  DOMAIN order[h] = 1 .. Len(order[h]) /\ Len(order[h]) \in Nat \ {0}
      OBVIOUS
    <3>1. order[h] \in Seq(Elements) /\ order[h] # <<>>
      BY <2>1, <2>2 DEF TypeOK
    <3> QED
      BY <3>1, LenProperties, EmptySeq
  <2>10. Selected(s) = <<g, order[g][i]>>
    BY <2>5, <2>6 DEF Selected
  <2> DEFINE down == GroupSelectNext(g)
             up == GroupSelectPrev(g)
             n == Len(order[g])
  <2>11. /\ down \in Listed /\ up \in Listed
         /\ GroupSelectPrev(down) = g /\ GroupSelectNext(up) = g
    BY <2>1, <2>3, GroupSteps, GroupRoundTrip
  <2> HIDE DEF down, up
  <2>12. Selected(SelectPrev(SelectNext(s))) = <<g, order[g][i]>>
    <3>1. CASE i # n
      <4>1. i + 1 \in DOMAIN order[g] /\ i + 1 # 1 /\ (i + 1) - 1 = i
        BY <2>3, <2>9, <3>1
      <4> DEFINE t == Pick(s, g, order[g][i + 1])
      <4>2. SelectNext(s) = t
        BY <2>1, <2>2, <2>3, <2>5, <2>6, <3>1, SelectedSteps
      <4>3. SelOK(t) /\ GroupCurrent(t.group) = g /\ t.cur[g] = order[g][i + 1]
        BY <2>3, <2>7, <2>8, <4>1
      <4>4. Selected(Pick(t, g, order[g][i])) = <<g, order[g][i]>>
        BY <2>3, <2>8, <4>1
      <4> HIDE DEF t
      <4>5. SelectPrev(t) = Pick(t, g, order[g][i])
        BY <2>1, <2>2, <2>3, <4>1, <4>3, SelectedSteps
      <4> QED
        BY <4>2, <4>4, <4>5
    <3>2. CASE i = n
      <4>1. 1 \in DOMAIN order[down]
        BY <2>9, <2>11
      <4> DEFINE t == Pick(s, down, order[down][1])
      <4>2. SelectNext(s) = t
        BY <2>1, <2>2, <2>3, <2>5, <2>6, <3>2, SelectedSteps DEF down
      <4>3. SelOK(t) /\ GroupCurrent(t.group) = down /\ t.cur[down] = order[down][1]
        BY <2>7, <2>8, <2>11, <4>1
      <4>4. Selected(Pick(t, g, order[g][i])) = <<g, order[g][i]>>
        BY <2>3, <2>8, <2>11, <4>1
      <4> HIDE DEF t
      <4>5. SelectPrev(t) = Pick(t, g, order[g][i])
        BY <2>1, <2>2, <2>11, <3>2, <4>1, <4>3, SelectedSteps
      <4> QED
        BY <4>2, <4>4, <4>5
    <3> QED
      BY <3>1, <3>2
  <2>13. Selected(SelectNext(SelectPrev(s))) = <<g, order[g][i]>>
    <3>1. CASE i # 1
      <4>1. i - 1 \in DOMAIN order[g] /\ i - 1 # n /\ (i - 1) + 1 = i
        BY <2>3, <2>9, <3>1
      <4> DEFINE t == Pick(s, g, order[g][i - 1])
      <4>2. SelectPrev(s) = t
        BY <2>1, <2>2, <2>3, <2>5, <2>6, <3>1, SelectedSteps
      <4>3. SelOK(t) /\ GroupCurrent(t.group) = g /\ t.cur[g] = order[g][i - 1]
        BY <2>3, <2>7, <2>8, <4>1
      <4>4. Selected(Pick(t, g, order[g][i])) = <<g, order[g][i]>>
        BY <2>3, <2>8, <4>1
      <4> HIDE DEF t
      <4>5. SelectNext(t) = Pick(t, g, order[g][i])
        BY <2>1, <2>2, <2>3, <4>1, <4>3, SelectedSteps
      <4> QED
        BY <4>2, <4>4, <4>5
    <3>2. CASE i = 1
      <4> DEFINE m == Len(order[up])
      <4>1. m \in DOMAIN order[up]
        BY <2>9, <2>11
      <4> DEFINE t == Pick(s, up, order[up][m])
      <4>2. SelectPrev(s) = t
        BY <2>1, <2>2, <2>3, <2>5, <2>6, <3>2, SelectedSteps DEF up
      <4>3. SelOK(t) /\ GroupCurrent(t.group) = up /\ t.cur[up] = order[up][m]
        BY <2>7, <2>8, <2>11, <4>1
      <4>4. Selected(Pick(t, g, order[g][i])) = <<g, order[g][i]>>
        BY <2>3, <2>8, <2>11, <4>1
      <4> HIDE DEF t
      <4>5. SelectNext(t) = Pick(t, g, order[g][i])
        BY <2>1, <2>2, <2>11, <3>2, <4>1, <4>3, SelectedSteps
      <4> QED
        BY <4>2, <4>4, <4>5
    <3> QED
      BY <3>1, <3>2
  <2> QED
    BY <2>10, <2>12, <2>13 DEF s
<1> QED
  BY <1>1, LifetimeInvariance, PTL

-----------------------------------------------------------------------------
(***************************************************************************)
(* Down all the way round.  The elements of all groups stand in one ring:    *)
(* the k-th group's at the places behind base[k - 1], the places of the      *)
(* groups before it.                                                        *)
(***************************************************************************)
Members(k) == order[group_list[k]]

\* base[k] is the number of elements of the first k groups.
IsBase(base) ==
    /\ base \in [0 .. Len(group_list) -> Nat]
    /\ base[0] = 0
    /\ \A k \in 1 .. Len(group_list) : base[k] = base[k - 1] + Len(Members(k))

\* The group that has the p-th element.
GroupAt(base, p) == Min({k \in 0 .. Len(group_list) : p <= base[k]})
ElementAt(base, p) == Members(GroupAt(base, p))[p - base[GroupAt(base, p) - 1]]

\* Where no group is empty.
LEMMA FullGroups ==
  ASSUME Lists, GroupsDistinct, NoEmptyGroup
  PROVE  /\ Len(group_list) \in Nat \ {0} /\ DOMAIN group_list = 1 .. Len(group_list)
         /\ \A k \in 1 .. Len(group_list) :
              /\ group_list[k] \in Listed /\ group_list[k] \in Groups
              /\ Members(k) \in Seq(Elements)
              /\ Len(Members(k)) \in Nat \ {0} /\ DOMAIN Members(k) = 1 .. Len(Members(k))
              /\ \A j \in 1 .. Len(group_list) : group_list[j] = group_list[k] => j = k
<1>1. Len(group_list) \in Nat \ {0} /\ DOMAIN group_list = 1 .. Len(group_list)
  BY LenProperties, EmptySeq DEF Lists, TypeOK, NoEmptyGroup
<1>2. ASSUME NEW k \in 1 .. Len(group_list)
      PROVE  /\ group_list[k] \in Listed /\ group_list[k] \in Groups
             /\ Members(k) \in Seq(Elements)
             /\ Len(Members(k)) \in Nat \ {0} /\ DOMAIN Members(k) = 1 .. Len(Members(k))
             /\ \A j \in 1 .. Len(group_list) : group_list[j] = group_list[k] => j = k
  <2>1. group_list[k] \in Listed /\ group_list[k] \in Groups
    <3>1. group_list \in Seq(Groups)
      BY DEF Lists, TypeOK
    <3>2. group_list[k] \in Groups
      BY <1>1, <3>1, ElementOfSeq
    <3> QED
      BY <1>1, <3>2 DEF Listed
  <2>2. Members(k) \in Seq(Elements) /\ Members(k) # <<>>
    BY <1>1, <2>1 DEF Lists, TypeOK, NoEmptyGroup, Members
  <2>3. Len(Members(k)) \in Nat \ {0} /\ DOMAIN Members(k) = 1 .. Len(Members(k))
    BY <2>2, LenProperties, EmptySeq
  <2> QED
    BY <1>1, <2>1, <2>2, <2>3 DEF GroupsDistinct
<1> QED
  BY <1>1, <1>2

\* There is a base, and it grows.
LEMMA BaseExists ==
  ASSUME Lists, GroupsDistinct, NoEmptyGroup
  PROVE  \E base : IsBase(base)
<1> DEFINE n == Len(group_list)
           St == [k \in 1 .. n |-> [t \in Nat |-> t + Len(Members(k))]]
           T == Nat
<1>1. n \in Nat /\ \A k \in 1 .. n : Len(Members(k)) \in Nat
  BY FullGroups
<1>2. St \in [1 .. n -> [T -> T]] /\ 0 \in T
  BY <1>1
<1> HIDE DEF St, T, n
<1>3. PICK f \in [0 .. n -> T] : Follows(f, 0, n, St)
  BY <1>1, <1>2, RecursionExists
<1>4. \A k \in 1 .. n : f[k] = f[k - 1] + Len(Members(k))
  <2> SUFFICES ASSUME NEW k \in 1 .. n PROVE f[k] = f[k - 1] + Len(Members(k))
    OBVIOUS
  <2>1. k - 1 \in 0 .. n
    BY <1>1
  <2>2. f[k - 1] \in Nat /\ f[k] = St[k][f[k - 1]]
    BY <1>3, <2>1 DEF Follows, T
  <2> QED
    BY <2>2 DEF St
<1> QED
  BY <1>3, <1>4 DEF IsBase, Follows, n, T

LEMMA BaseGrows ==
  ASSUME Lists, GroupsDistinct, NoEmptyGroup, NEW base, IsBase(base)
  PROVE  \A k \in 0 .. Len(group_list) : \A j \in 0 .. k : base[j] <= base[k]
<1> DEFINE n == Len(group_list)
           I == {m \in Nat : m <= n => \A j \in 0 .. m : base[j] <= base[m]}
<1>1. /\ n \in Nat /\ \A k \in 1 .. n : Len(Members(k)) \in Nat
      /\ base \in [0 .. n -> Nat]
      /\ \A k \in 1 .. n : base[k] = base[k - 1] + Len(Members(k))
  BY FullGroups DEF IsBase
<1> HIDE DEF n
<1>2. 0 \in I
  BY <1>1
<1>3. ASSUME NEW m \in Nat, m + 1 <= n, \A j \in 0 .. m : base[j] <= base[m]
      PROVE  \A j \in 0 .. m + 1 : base[j] <= base[m + 1]
  <2>1. m + 1 \in 1 .. n /\ (m + 1) - 1 = m /\ m \in 0 .. n /\ m + 1 \in 0 .. n
    BY <1>1, <1>3
  <2>2. base[m] <= base[m + 1] /\ base[m] \in Nat /\ base[m + 1] \in Nat
    BY <1>1, <2>1
  <2> SUFFICES ASSUME NEW j \in 0 .. m + 1 PROVE base[j] <= base[m + 1]
    OBVIOUS
  <2>3. CASE j = m + 1
    BY <2>2, <2>3
  <2>4. CASE j # m + 1
    <3>1. j \in 0 .. m /\ j \in 0 .. n
      BY <1>1, <1>3, <2>1, <2>4
    <3>2. base[j] <= base[m] /\ base[j] \in Nat
      BY <1>1, <1>3, <3>1
    <3> QED
      BY <2>2, <3>2
  <2> QED
    BY <2>3, <2>4
<1>4. \A m \in Nat : m \in I => m + 1 \in I
  <2> SUFFICES ASSUME NEW m \in Nat, m \in I, m + 1 <= n
               PROVE  \A j \in 0 .. m + 1 : base[j] <= base[m + 1]
    OBVIOUS
  <2>1. m <= n
    BY <1>1
  <2> QED
    BY <1>3, <2>1
<1>5. \A m \in Nat : m \in I
  <2> HIDE DEF I
  <2> QED
    BY <1>2, <1>4, NatSetInduction
<1> QED
  BY <1>1, <1>5 DEF n

\* A place behind base[k - 1] is the k-th group's.
LEMMA PlaceOfMember ==
  ASSUME Lists, GroupsDistinct, NoEmptyGroup, NEW base, IsBase(base),
         NEW k \in 1 .. Len(group_list), NEW i \in 1 .. Len(Members(k))
  PROVE  /\ base[k - 1] + i \in 1 .. base[Len(group_list)]
         /\ GroupAt(base, base[k - 1] + i) = k
         /\ ElementAt(base, base[k - 1] + i) = Members(k)[i]
<1> DEFINE n == Len(group_list)
           p == base[k - 1] + i
           T == {j \in 0 .. n : p <= base[j]}
<1>1. /\ n \in Nat /\ Len(Members(k)) \in Nat
      /\ base \in [0 .. n -> Nat]
      /\ base[k] = base[k - 1] + Len(Members(k))
      /\ k - 1 \in 0 .. n /\ k \in 0 .. n /\ n \in 0 .. n
  BY FullGroups DEF IsBase
<1>2. \A a \in 0 .. n : \A j \in 0 .. a : base[j] <= base[a]
  BY BaseGrows
<1>3. /\ base[k - 1] \in Nat /\ base[k] \in Nat /\ base[n] \in Nat
      /\ base[k] <= base[n]
  <2>1. k \in 0 .. n
    BY <1>1
  <2> QED
    BY <1>1, <1>2, <2>1
<1>4. p \in Nat /\ p <= base[k] /\ base[k - 1] < p /\ p \in 1 .. base[n]
  BY <1>1, <1>3
<1>5. k \in T /\ T \subseteq 0 .. n
  BY <1>1, <1>4
<1>6. \A j \in T : k <= j
  <2> SUFFICES ASSUME NEW j \in 0 .. n, p <= base[j], j < k PROVE FALSE
    BY <1>1
  <2>1. j \in 0 .. k - 1 /\ k - 1 \in 0 .. n
    BY <1>1
  <2>2. base[j] <= base[k - 1] /\ base[j] \in Nat
    BY <1>1, <1>2, <2>1
  <2> QED
    BY <1>3, <1>4, <2>2
<1>7. Min(T) \in T /\ \A y \in T : Min(T) <= y
  <2> HIDE DEF T
  <2>1. T # {}
    BY <1>5
  <2> QED
    BY <1>1, <1>5, <2>1, MinIsLeast
<1>8. Min(T) = k
  <2> DEFINE m == Min(T)
  <2>1. m \in T /\ m <= k
    BY <1>5, <1>7
  <2>2. k <= m /\ m \in 0 .. n
    BY <1>6, <2>1
  <2> HIDE DEF m
  <2>3. m = k
    BY <1>1, <2>1, <2>2
  <2> QED
    BY <2>3 DEF m
<1>9. GroupAt(base, p) = k
  BY <1>8 DEF GroupAt
<1>10. p - base[k - 1] = i
  BY <1>3
<1> QED
  BY <1>4, <1>9, <1>10 DEF ElementAt

\* Every place is some group's.
LEMMA MemberOfPlace ==
  ASSUME Lists, GroupsDistinct, NoEmptyGroup, NEW base, IsBase(base),
         NEW p \in 1 .. base[Len(group_list)]
  PROVE  \E k \in 1 .. Len(group_list) : \E i \in 1 .. Len(Members(k)) : p = base[k - 1] + i
<1> DEFINE n == Len(group_list)
           T == {j \in 0 .. n : p <= base[j]}
<1>1. /\ n \in Nat /\ \A k \in 1 .. n : Len(Members(k)) \in Nat
      /\ base \in [0 .. n -> Nat] /\ base[0] = 0
      /\ \A k \in 1 .. n : base[k] = base[k - 1] + Len(Members(k))
  BY FullGroups DEF IsBase
<1>2. n \in 0 .. n /\ base[n] \in Nat
  BY <1>1
<1>3. n \in T /\ T \subseteq 0 .. n
  BY <1>2
<1>4. Min(T) \in T /\ \A y \in T : Min(T) <= y
  <2> HIDE DEF T
  <2>1. T # {}
    BY <1>3
  <2> QED
    BY <1>1, <1>3, <2>1, MinIsLeast
<1>5. PICK k \in T : \A y \in T : k <= y
  BY <1>4
<1>6. k # 0 /\ k \in 1 .. n /\ k - 1 \in 0 .. n
  BY <1>1, <1>2, <1>5
<1>7. k - 1 \notin T
  BY <1>5, <1>6
<1>8. base[k - 1] < p /\ p <= base[k] /\ base[k - 1] \in Nat /\ p \in Nat
  BY <1>1, <1>2, <1>5, <1>6, <1>7
<1>9. p - base[k - 1] \in 1 .. Len(Members(k)) /\ p = base[k - 1] + (p - base[k - 1])
  BY <1>1, <1>6, <1>8
<1> QED
  BY <1>6, <1>9

\* The places are as many as the live elements, each at one of them.
LEMMA RingOfLive ==
  ASSUME Lists, GroupsDistinct, NoEmptyGroup, NEW base, IsBase(base)
  PROVE  /\ base[Len(group_list)] \in Nat \ {0}
         /\ Cardinality({e \in Elements : Live(e)}) = base[Len(group_list)]
         /\ {ElementAt(base, p) : p \in 1 .. base[Len(group_list)]} = {e \in Elements : Live(e)}
<1> DEFINE n == Len(group_list)
           N == base[n]
           live == {e \in Elements : Live(e)}
           f == [p \in 1 .. N |-> ElementAt(base, p)]
<1>1. /\ n \in Nat \ {0} /\ DOMAIN group_list = 1 .. n
      /\ base \in [0 .. n -> Nat] /\ base[0] = 0
      /\ \A k \in 1 .. n : base[k] = base[k - 1] + Len(Members(k))
      /\ \A k \in 1 .. n : /\ group_list[k] \in Groups
                           /\ DOMAIN Members(k) = 1 .. Len(Members(k))
                           /\ Len(Members(k)) \in Nat \ {0}
                           /\ \A j \in 1 .. n : group_list[j] = group_list[k] => j = k
  BY FullGroups DEF IsBase
<1>2. N \in Nat \ {0}
  <2>1. n \in 0 .. n /\ n \in 1 .. n /\ n - 1 \in 0 .. n
    BY <1>1
  <2>2. base[n] = base[n - 1] + Len(Members(n)) /\ base[n - 1] \in Nat /\ Len(Members(n)) \in Nat \ {0}
    BY <1>1, <2>1
  <2> QED
    BY <2>2
<1>3. \A p \in 1 .. N : \E k \in 1 .. n : \E i \in 1 .. Len(Members(k)) :
        p = base[k - 1] + i /\ ElementAt(base, p) = Members(k)[i]
  <2> SUFFICES ASSUME NEW p \in 1 .. N
               PROVE  \E k \in 1 .. n : \E i \in 1 .. Len(Members(k)) :
                        p = base[k - 1] + i /\ ElementAt(base, p) = Members(k)[i]
    OBVIOUS
  <2>1. PICK k \in 1 .. n : \E i \in 1 .. Len(Members(k)) : p = base[k - 1] + i
    BY MemberOfPlace
  <2>2. PICK i \in 1 .. Len(Members(k)) : p = base[k - 1] + i
    BY <2>1
  <2>3. ElementAt(base, p) = Members(k)[i]
    BY <2>2, PlaceOfMember
  <2> QED
    BY <2>2, <2>3
<1>4. \A k \in 1 .. n : \A i \in 1 .. Len(Members(k)) :
        Members(k)[i] \in live /\ e_group[Members(k)[i]] = group_list[k]
  <2> SUFFICES ASSUME NEW k \in 1 .. n, NEW i \in 1 .. Len(Members(k))
               PROVE  Members(k)[i] \in live /\ e_group[Members(k)[i]] = group_list[k]
    OBVIOUS
  <2> DEFINE g == group_list[k]
  <2>1. g \in Groups /\ i \in DOMAIN order[g] /\ Members(k)[i] = order[g][i]
    BY <1>1 DEF Members
  <2> HIDE DEF g
  <2>2. order[g][i] \in Elements /\ e_group[order[g][i]] = g
    BY <2>1, InList DEF Lists, ListsExact
  <2> QED
    BY <2>1, <2>2, NullAssumption DEF Live, g
<1>5. \A e \in live : \E p \in 1 .. N : ElementAt(base, p) = e
  <2> SUFFICES ASSUME NEW e \in live PROVE \E p \in 1 .. N : ElementAt(base, p) = e
    OBVIOUS
  <2>1. PICK k \in 1 .. n : group_list[k] = e_group[e]
    BY <1>1 DEF Lists, GroupsListed, Listed
  <2>2. PICK i \in DOMAIN Members(k) : Members(k)[i] = e
    BY <2>1 DEF Lists, ListsExact, Members
  <2>3. i \in 1 .. Len(Members(k))
    BY <1>1
  <2> QED
    BY <2>2, <2>3, PlaceOfMember
<1>6. f \in [1 .. N -> live]
  BY <1>3, <1>4
<1>7. ASSUME NEW p \in 1 .. N, NEW q \in 1 .. N, ElementAt(base, p) = ElementAt(base, q)
      PROVE  p = q
  <2>1. PICK k \in 1 .. n : \E i \in 1 .. Len(Members(k)) :
          p = base[k - 1] + i /\ ElementAt(base, p) = Members(k)[i]
    BY <1>3
  <2>2. PICK i \in 1 .. Len(Members(k)) : p = base[k - 1] + i /\ ElementAt(base, p) = Members(k)[i]
    BY <2>1
  <2>3. PICK l \in 1 .. n : \E j \in 1 .. Len(Members(l)) :
          q = base[l - 1] + j /\ ElementAt(base, q) = Members(l)[j]
    BY <1>3
  <2>4. PICK j \in 1 .. Len(Members(l)) : q = base[l - 1] + j /\ ElementAt(base, q) = Members(l)[j]
    BY <2>3
  <2>5. l = k
    <3>1. e_group[Members(k)[i]] = group_list[k] /\ e_group[Members(l)[j]] = group_list[l]
      BY <1>4
    <3>2. Members(k)[i] = Members(l)[j]
      BY <1>7, <2>2, <2>4
    <3>3. group_list[l] = group_list[k]
      BY <3>1, <3>2
    <3> QED
      BY <1>1, <3>3
  <2>6. i = j
    <3> DEFINE g == group_list[k]
    <3>1. g \in Groups /\ i \in DOMAIN order[g] /\ j \in DOMAIN order[g] /\ order[g][i] = order[g][j]
      BY <1>1, <1>7, <2>2, <2>4, <2>5 DEF Members
    <3> HIDE DEF g
    <3> QED
      BY <3>1 DEF Lists, ListsExact
  <2> QED
    BY <2>2, <2>4, <2>5, <2>6
<1>8. ExistsBijection(1 .. N, live)
  <2>1. \A p, q \in 1 .. N : f[p] = f[q] => p = q
    BY <1>7
  <2>2. \A e \in live : \E p \in 1 .. N : f[p] = e
    BY <1>5
  <2> HIDE DEF f
  <2>3. f \in Bijection(1 .. N, live)
    BY <1>6, <2>1, <2>2 DEF Bijection, Injection, Surjection, IsInjective
  <2> QED
    BY <2>3 DEF ExistsBijection
<1>9. Cardinality(live) = N
  <2> HIDE DEF live, N
  <2> QED
    BY <1>2, <1>8, FS_CountingElements
<1> QED
  BY <1>2, <1>3, <1>4, <1>5, <1>9

\* The selection is at the place p.
SelectedAt(base, s, p) ==
    /\ SelOK(s)
    /\ GroupCurrent(s.group) = group_list[GroupAt(base, p)]
    /\ s.cur[GroupCurrent(s.group)] = ElementAt(base, p)

\* Down goes to the next place.
LEMMA DownInRing ==
  ASSUME Lists, GroupsDistinct, NoEmptyGroup, NEW base, IsBase(base),
         NEW p \in 1 .. base[Len(group_list)], NEW s, SelectedAt(base, s, p)
  PROVE  SelectedAt(base, SelectNext(s), IF p = base[Len(group_list)] THEN 1 ELSE p + 1)
<1> DEFINE n == Len(group_list)
           N == base[n]
<1>1. /\ n \in Nat \ {0} /\ DOMAIN group_list = 1 .. n
      /\ base \in [0 .. n -> Nat] /\ base[0] = 0
      /\ \A k \in 1 .. n : base[k] = base[k - 1] + Len(Members(k))
      /\ \A k \in 1 .. n : /\ group_list[k] \in Groups /\ group_list[k] \in Listed
                           /\ DOMAIN Members(k) = 1 .. Len(Members(k))
                           /\ Len(Members(k)) \in Nat \ {0}
                           /\ \A j \in 1 .. n : group_list[j] = group_list[k] => j = k
  BY FullGroups DEF IsBase
<1>2. PICK k \in 1 .. n : \E i \in 1 .. Len(Members(k)) : p = base[k - 1] + i
  BY MemberOfPlace
<1>3. PICK i \in 1 .. Len(Members(k)) : p = base[k - 1] + i
  BY <1>2
<1>4. GroupAt(base, p) = k /\ ElementAt(base, p) = Members(k)[i]
  BY <1>3, PlaceOfMember
<1> DEFINE g == group_list[k]
<1>5. /\ g \in Listed /\ i \in DOMAIN order[g] /\ Members(k) = order[g]
      /\ SelOK(s) /\ GroupCurrent(s.group) = g /\ s.cur[g] = order[g][i]
      /\ \A h \in Listed : order[h] # <<>>
  BY <1>1, <1>4 DEF SelectedAt, Members, NoEmptyGroup, Listed
<1>6. ASSUME NEW l \in 1 .. n, NEW j \in 1 .. Len(Members(l))
      PROVE  SelectedAt(base, Pick(s, group_list[l], Members(l)[j]), base[l - 1] + j)
  <2> DEFINE h == group_list[l]
             t == Pick(s, h, order[h][j])
  <2>1. h \in Listed /\ h \in Groups /\ j \in DOMAIN order[h] /\ Members(l) = order[h] /\ h # NoGroup
    BY <1>1, NullAssumption DEF Members
  <2>2. GroupAt(base, base[l - 1] + j) = l /\ ElementAt(base, base[l - 1] + j) = Members(l)[j]
    BY PlaceOfMember
  <2> HIDE DEF h
  <2>3. SelOK(t)
    BY <1>5, <2>1, InList, PickOK
  <2>4. t.group = h /\ t.cur[h] = order[h][j]
    BY <1>5, <2>1 DEF Pick, SelOK
  <2>5. GroupCurrent(t.group) = h
    BY <2>1, <2>4 DEF GroupCurrent
  <2> QED
    BY <2>1, <2>2, <2>3, <2>4, <2>5 DEF SelectedAt, h
<1>7. /\ i # Len(order[g]) => SelectNext(s) = Pick(s, g, order[g][i + 1])
      /\ i = Len(order[g]) =>
            SelectNext(s) = Pick(s, GroupSelectNext(g), order[GroupSelectNext(g)][1])
  <2> HIDE DEF g
  <2> QED
    BY <1>5, SelectedSteps
<1>8. base[k] <= N /\ base[k - 1] \in Nat /\ base[k] \in Nat /\ N \in Nat
  <2>1. k \in 0 .. n /\ n \in 0 .. n /\ k \in 0 .. n /\ k - 1 \in 0 .. n
    BY <1>1
  <2>2. \A a \in 0 .. n : \A j \in 0 .. a : base[j] <= base[a]
    BY BaseGrows
  <2> QED
    BY <1>1, <2>1, <2>2
<1>9. CASE i # Len(Members(k))
  <2>1. i + 1 \in 1 .. Len(Members(k)) /\ p # N /\ base[k - 1] + (i + 1) = p + 1
    BY <1>1, <1>3, <1>8, <1>9
  <2>2. SelectNext(s) = Pick(s, g, Members(k)[i + 1])
    BY <1>5, <1>7, <1>9
  <2> QED
    BY <1>6, <2>1, <2>2
<1>10. CASE i = Len(Members(k))
  <2> DEFINE l == IF k = n THEN 1 ELSE k + 1
  <2>1. l \in 1 .. n /\ p = base[k]
    <3>1. l \in 1 .. n
      <4>1. n \in Nat \ {0} /\ k \in 1 .. n
        BY <1>1
      <4> HIDE DEF n
      <4> QED
        BY <4>1
    <3>2. base[k] = base[k - 1] + Len(Members(k))
      BY <1>1
    <3> QED
      BY <1>3, <1>10, <3>1, <3>2
  <2>2. GroupSelectNext(g) = group_list[l]
    <3>1. FirstOf(group_list, NoGroup) = group_list[1] /\ LastOf(group_list, NoGroup) = group_list[n]
      BY DEF FirstOf, LastOf, NoEmptyGroup
    <3>2. g # NoGroup
      BY <1>1, NullAssumption
    <3>3. PosIn(group_list, g) = k
      BY <1>1, PosInUnique DEF GroupsDistinct
    <3>4. g = group_list[n] => k = n
      <4>1. n \in 1 .. n
        BY <1>1
      <4> QED
        BY <1>1, <4>1
    <3> QED
      BY <3>1, <3>2, <3>3, <3>4 DEF GroupSelectNext
  <2>3. SelectNext(s) = Pick(s, group_list[l], Members(l)[1])
    BY <1>5, <1>7, <1>10, <2>2 DEF Members
  <2>4. 1 \in 1 .. Len(Members(l))
    <3>1. Len(Members(l)) \in Nat \ {0}
      BY <1>1, <2>1
    <3> QED
      BY <3>1
  <2> HIDE DEF l
  <2>5. SelectedAt(base, SelectNext(s), base[l - 1] + 1)
    BY <1>6, <2>1, <2>3, <2>4
  <2>6. base[l - 1] + 1 = IF p = N THEN 1 ELSE p + 1
    <3>1. CASE k = n
      <4>1. l = 1 /\ p = N
        BY <2>1, <3>1 DEF l
      <4> QED
        BY <1>1, <4>1
    <3>2. CASE k # n
      <4>1. l = k + 1 /\ l - 1 = k
        BY <3>2 DEF l
      <4>2. base[l] = base[l - 1] + Len(Members(l)) /\ Len(Members(l)) \in Nat \ {0}
        BY <1>1, <2>1
      <4>3. base[l] <= N /\ base[l] \in Nat
        <5>1. l \in 0 .. n /\ n \in 0 .. n
          BY <1>1, <2>1
        <5>2. \A a \in 0 .. n : \A j \in 0 .. a : base[j] <= base[a]
          BY BaseGrows
        <5> QED
          BY <1>1, <5>1, <5>2
      <4>4. p # N
        BY <1>8, <2>1, <4>1, <4>2, <4>3
      <4> QED
        BY <2>1, <4>1, <4>4
    <3> QED
      BY <3>1, <3>2
  <2> QED
    BY <2>5, <2>6
<1> QED
  BY <1>9, <1>10

\* The element the policy picks stands in the list.
LEMMA PickInList ==
  ASSUME Lists, NEW g \in Groups, order[g] # <<>>
  PROVE  PickFromPolicy(g) \in {order[g][i] : i \in DOMAIN order[g]}
<1> DEFINE matches(r) == {i \in DOMAIN order[g] : /\ e_parent[order[g][i]] = NoElement
                                                  /\ e_name[order[g][i]] \in Rules[r]}
           hits == {r \in DOMAIN Rules : matches(r) # {}}
<1>1. DOMAIN order[g] = 1 .. Len(order[g]) /\ Len(order[g]) \in Nat \ {0}
  <2>1. order[g] \in Seq(Elements)
    BY DEF Lists, TypeOK
  <2> QED
    BY <2>1, LenProperties, EmptySeq
<1>2. CASE hits = {}
  <2>1. PickFromPolicy(g) = FirstOf(order[g], NoElement)
    BY <1>2, SMTT(40) DEF PickFromPolicy
  <2>2. PickFromPolicy(g) = order[g][1] /\ 1 \in DOMAIN order[g]
    BY <1>1, <2>1 DEF FirstOf
  <2> QED
    BY <2>2
<1>3. CASE hits # {}
  <2>1. hits \subseteq 0 .. Len(Rules) /\ Len(Rules) \in Nat
    BY PolicyAssumption, LenProperties, SMTT(30)
  <2>2. Min(hits) \in hits
    BY <1>3, <2>1, MinIsLeast
  <2>3. matches(Min(hits)) # {} /\ matches(Min(hits)) \subseteq 0 .. Len(order[g])
    BY <1>1, <2>2
  <2>4. Min(matches(Min(hits))) \in DOMAIN order[g]
    BY <1>1, <2>3, MinIsLeast
  <2> QED
    BY <1>3, <2>4 DEF PickFromPolicy
<1> QED
  BY <1>2, <1>3

\* The place a round starts from is where it ends.
Onward(p, m, N) == IF p + m <= N THEN p + m ELSE p + m - N

LEMMA OnwardGoesRound ==
  ASSUME NEW N \in Nat \ {0}, NEW p \in 1 .. N
  PROVE  /\ Onward(p, 0, N) = p /\ Onward(p, N, N) = p
         /\ \A m \in 0 .. N : Onward(p, m, N) \in 1 .. N
         /\ \A m \in 1 .. N : Onward(p, m, N) = IF Onward(p, m - 1, N) = N THEN 1
                                               ELSE Onward(p, m - 1, N) + 1
         /\ \A q \in 1 .. N : \E m \in 1 .. N : Onward(p, m, N) = q
<1>1. \A q \in 1 .. N : \E m \in 1 .. N : Onward(p, m, N) = q
  <2> SUFFICES ASSUME NEW q \in 1 .. N PROVE \E m \in 1 .. N : Onward(p, m, N) = q
    OBVIOUS
  <2>1. CASE p < q
    <3>1. q - p \in 1 .. N /\ Onward(p, q - p, N) = q
      BY <2>1 DEF Onward
    <3> QED
      BY <3>1
  <2>2. CASE q <= p
    <3>1. q - p + N \in 1 .. N /\ Onward(p, q - p + N, N) = q
      BY <2>2 DEF Onward
    <3> QED
      BY <3>1
  <2> QED
    BY <2>1, <2>2
<1>2. /\ Onward(p, 0, N) = p /\ Onward(p, N, N) = p
      /\ \A m \in 0 .. N : Onward(p, m, N) \in 1 .. N
      /\ \A m \in 1 .. N : Onward(p, m, N) = IF Onward(p, m - 1, N) = N THEN 1
                                            ELSE Onward(p, m - 1, N) + 1
  BY DEF Onward
<1> QED
  BY <1>1, <1>2

\* element_current() leaves the selection at some place of the ring.
LEMMA RoundStarts ==
  ASSUME IInv, GroupsDistinct, NoEmptyGroup, NEW base, IsBase(base)
  PROVE  \E p \in 1 .. base[Len(group_list)] : SelectedAt(base, ElementCurrent(Selection), p)
<1> DEFINE s == Selection
           g == GroupCurrent(s.group)
           t == ElementCurrent(s)
<1>1. Lists /\ SelOK(s) /\ group_list # <<>> /\ SelOK(t)
  BY SelectionOK, ElementCurrentOK DEF IInv, NoEmptyGroup
<1>2. g \in Listed /\ g \in Groups /\ g # NoGroup /\ order[g] # <<>>
  <2>1. g \in Listed /\ g \in Groups
    BY <1>1, GroupSteps, ListedIsGroup DEF Lists, SelOK
  <2> QED
    BY <2>1, NullAssumption DEF Listed, NoEmptyGroup
<1>3. PickFromPolicy(g) \in {order[g][i] : i \in DOMAIN order[g]}
  <2> HIDE DEF g
  <2> QED
    BY <1>1, <1>2, PickInList
<1>4. t.cur[g] # NoElement /\ t.group = g
  <2>1. PickFromPolicy(g) # NoElement
    BY <1>1, <1>2, <1>3, InList
  <2>2. t = Pick(s, g, IF s.cur[g] = NoElement THEN PickFromPolicy(g) ELSE s.cur[g])
    BY DEF ElementCurrent
  <2> HIDE DEF g, s, t
  <2>3. t.group = g /\ t.cur[g] = IF s.cur[g] = NoElement THEN PickFromPolicy(g) ELSE s.cur[g]
    BY <1>1, <1>2, <2>2 DEF Pick, SelOK
  <2> QED
    BY <2>1, <2>3
<1>5. GroupCurrent(t.group) = g
  <2> HIDE DEF g, t
  <2> QED
    BY <1>2, <1>4 DEF GroupCurrent
<1>6. PICK i \in DOMAIN order[g] : order[g][i] = t.cur[g]
  <2> HIDE DEF g, t, s
  <2>1. t.cur[g] \in Elements /\ e_group[t.cur[g]] = g
    BY <1>1, <1>2, <1>4 DEF SelOK
  <2> QED
    BY <1>1, <1>2, <2>1 DEF Lists, ListsExact, Live
<1>7. PICK k \in DOMAIN group_list : group_list[k] = g
  BY <1>2 DEF Listed
<1>8. k \in 1 .. Len(group_list) /\ i \in 1 .. Len(Members(k)) /\ Members(k)[i] = t.cur[g]
  <2>1. k \in 1 .. Len(group_list) /\ DOMAIN Members(k) = 1 .. Len(Members(k))
    BY <1>1, <1>7, FullGroups
  <2>2. Members(k) = order[g]
    BY <1>7 DEF Members
  <2> HIDE DEF g, t
  <2> QED
    BY <1>6, <2>1, <2>2
<1> HIDE DEF t, s
<1>9. /\ base[k - 1] + i \in 1 .. base[Len(group_list)]
      /\ GroupAt(base, base[k - 1] + i) = k
      /\ ElementAt(base, base[k - 1] + i) = Members(k)[i]
  BY <1>1, <1>8, PlaceOfMember
<1>10. SelectedAt(base, t, base[k - 1] + i)
  BY <1>1, <1>5, <1>7, <1>8, <1>9 DEF SelectedAt
<1> QED
  BY <1>9, <1>10 DEF t, s

\* The selections that pressing Down again and again goes through.
Descent(after, x, N) == \A k \in 0 .. N : after[k] = IF k = 0 THEN x ELSE SelectNext(after[k - 1])

LEMMA DescentExists ==
  ASSUME Lists, group_list # <<>>, NEW x, SelOK(x), NEW N \in Nat
  PROVE  \E f : f = [k \in 0 .. N |-> IF k = 0 THEN x ELSE SelectNext(f[k - 1])]
<1> DEFINE T == {s \in [group : Listed \cup {NoGroup}, cur : [Groups -> Elements \cup {NoElement}]] : SelOK(s)}
           St == [k \in 1 .. N |-> [s \in T |-> SelectNext(s)]]
<1>1. \A s \in T : SelectNext(s) \in T
  <2> SUFFICES ASSUME NEW s \in T PROVE SelectNext(s) \in T
    OBVIOUS
  <2>1. SelOK(SelectNext(s))
    BY SelectStepsOK
  <2> QED
    BY <2>1 DEF SelOK
<1>2. St \in [1 .. N -> [T -> T]] /\ x \in T
  <2>1. x \in T
    BY DEF SelOK
  <2> HIDE DEF T
  <2> QED
    BY <1>1, <2>1
<1> HIDE DEF T, St
<1>3. PICK f \in [0 .. N -> T] : Follows(f, x, N, St)
  BY <1>2, RecursionExists
<1>4. ASSUME NEW k \in 0 .. N PROVE f[k] = IF k = 0 THEN x ELSE SelectNext(f[k - 1])
  <2>1. CASE k = 0
    BY <1>3, <2>1 DEF Follows
  <2>2. CASE k # 0
    <3>1. k \in 1 .. N /\ k - 1 \in 0 .. N
      BY <2>2
    <3>2. f[k - 1] \in T /\ f[k] = St[k][f[k - 1]]
      BY <1>3, <3>1 DEF Follows
    <3> QED
      BY <2>2, <3>1, <3>2 DEF St
  <2> QED
    BY <2>1, <2>2
<1>5. f = [k \in 0 .. N |-> IF k = 0 THEN x ELSE SelectNext(f[k - 1])]
  BY <1>4
<1> QED
  BY <1>5

\* The m-th Down reaches the m-th place onward.
LEMMA DescentInRing ==
  ASSUME Lists, GroupsDistinct, NoEmptyGroup, NEW base, IsBase(base),
         NEW p \in 1 .. base[Len(group_list)], NEW x, SelectedAt(base, x, p),
         NEW after, Descent(after, x, base[Len(group_list)])
  PROVE  \A m \in 0 .. base[Len(group_list)] :
            SelectedAt(base, after[m], Onward(p, m, base[Len(group_list)]))
<1> DEFINE N == base[Len(group_list)]
           I == {m \in Nat : m <= N => SelectedAt(base, after[m], Onward(p, m, N))}
<1>1. N \in Nat \ {0}
  BY RingOfLive
<1> HIDE DEF N
<1>2. /\ p \in 1 .. N /\ Descent(after, x, N)
      /\ \A q \in 1 .. N : \A s : SelectedAt(base, s, q) =>
            SelectedAt(base, SelectNext(s), IF q = N THEN 1 ELSE q + 1)
  BY DownInRing DEF N
<1>3. /\ Onward(p, 0, N) = p
      /\ \A m \in 0 .. N : Onward(p, m, N) \in 1 .. N
      /\ \A m \in 1 .. N : Onward(p, m, N) = IF Onward(p, m - 1, N) = N THEN 1
                                            ELSE Onward(p, m - 1, N) + 1
  BY <1>1, <1>2, OnwardGoesRound
<1>4. 0 \in I
  <2>1. 0 \in 0 .. N
    BY <1>1
  <2>2. after[0] = x
    BY <1>2, <2>1 DEF Descent
  <2> QED
    BY <1>3, <2>2
<1>5. \A m \in Nat : m \in I => m + 1 \in I
  <2> SUFFICES ASSUME NEW m \in Nat, m \in I, m + 1 <= N
               PROVE  SelectedAt(base, after[m + 1], Onward(p, m + 1, N))
    OBVIOUS
  <2>1. m + 1 \in 0 .. N /\ m + 1 \in 1 .. N /\ m + 1 # 0 /\ (m + 1) - 1 = m /\ m \in 0 .. N /\ m <= N
    BY <1>1
  <2>2. SelectedAt(base, after[m], Onward(p, m, N)) /\ Onward(p, m, N) \in 1 .. N
    BY <1>3, <2>1
  <2>3. after[m + 1] = SelectNext(after[m])
    <3>1. after[m + 1] = IF m + 1 = 0 THEN x ELSE SelectNext(after[(m + 1) - 1])
      BY <1>2, <2>1 DEF Descent
    <3> QED
      BY <2>1, <3>1
  <2>4. Onward(p, m + 1, N) = IF Onward(p, m, N) = N THEN 1 ELSE Onward(p, m, N) + 1
    <3>1. Onward(p, m + 1, N) = IF Onward(p, (m + 1) - 1, N) = N THEN 1
                                ELSE Onward(p, (m + 1) - 1, N) + 1
      BY <1>3, <2>1
    <3> QED
      BY <2>1, <3>1
  <2>5. SelectedAt(base, SelectNext(after[m]),
                   IF Onward(p, m, N) = N THEN 1 ELSE Onward(p, m, N) + 1)
    BY <1>2, <2>2
  <2> QED
    BY <2>3, <2>4, <2>5
<1>6. \A m \in Nat : m \in I
  <2> HIDE DEF I
  <2> QED
    BY <1>4, <1>5, NatSetInduction
<1> QED
  BY <1>1, <1>6 DEF N

\* Pressed as often as there are elements, Down selects each of them once, in
\* the order in which the groups and their lists have them, and is back.
THEOREM DownAlwaysVisits == Spec => []DownVisitsAll
<1>1. IInv /\ LInv => DownVisitsAll
  <2> SUFFICES ASSUME IInv, GroupsDistinct, NoEmptyGroup PROVE DownVisitsAll
    BY DEF LInv, DownVisitsAll
  <2> DEFINE live == {e \in Elements : Live(e)}
             N == Cardinality(live)
             x == ElementCurrent(Selection)
             G(f) == f = [n \in 0 .. N |-> IF n = 0 THEN x ELSE SelectNext(f[n - 1])]
             after == CHOOSE f : G(f)
             Visited == {Selected(after[n])[2] : n \in 1 .. N}
  <2>1. DownVisitsAll <=> (Visited = live /\ Selected(after[N]) = Selected(after[0]))
    BY DEF DownVisitsAll
  <2>2. Lists /\ group_list # <<>> /\ SelOK(x)
    BY SelectionOK, ElementCurrentOK DEF IInv, NoEmptyGroup
  <2>3. PICK base : IsBase(base)
    BY <2>2, BaseExists
  <2>4. N \in Nat \ {0} /\ N = base[Len(group_list)]
        /\ {ElementAt(base, p) : p \in 1 .. N} = live
    BY <2>2, <2>3, RingOfLive
  <2>5. PICK p \in 1 .. N : SelectedAt(base, x, p)
    BY <2>3, <2>4, RoundStarts
  <2> HIDE DEF x, N, live
  <2>6. G(after)
    <3>1. \E f : G(f)
      <4>1. \E f : f = [n \in 0 .. N |-> IF n = 0 THEN x ELSE SelectNext(f[n - 1])]
        <5>1. Lists /\ group_list # <<>> /\ SelOK(x) /\ N \in Nat
          BY <2>2, <2>4
        <5> QED
          BY ONLY <5>1, DescentExists
      <4> QED
        BY ONLY <4>1
    <3> HIDE DEF G
    <3> QED
      BY <3>1
  <2> HIDE DEF after
  <2>7. Descent(after, x, N)
    BY <2>6 DEF Descent
  <2> HIDE DEF G
  <2>8. \A m \in 0 .. N : SelectedAt(base, after[m], Onward(p, m, N))
    BY <2>2, <2>3, <2>4, <2>5, <2>7, DescentInRing
  <2>9. \A m \in 0 .. N : Selected(after[m]) =
            <<group_list[GroupAt(base, Onward(p, m, N))], ElementAt(base, Onward(p, m, N))>>
    BY <2>8 DEF SelectedAt, Selected
  <2>10. /\ Onward(p, 0, N) = p /\ Onward(p, N, N) = p
         /\ \A m \in 0 .. N : Onward(p, m, N) \in 1 .. N
         /\ \A q \in 1 .. N : \E m \in 1 .. N : Onward(p, m, N) = q
    <3>1. N \in Nat \ {0} /\ p \in 1 .. N
      BY <2>4, <2>5
    <3> QED
      <4>1. /\ Onward(p, 0, N) = p /\ Onward(p, N, N) = p
            /\ \A m \in 0 .. N : Onward(p, m, N) \in 1 .. N
            /\ \A m \in 1 .. N : Onward(p, m, N) = IF Onward(p, m - 1, N) = N THEN 1
                                                  ELSE Onward(p, m - 1, N) + 1
            /\ \A q \in 1 .. N : \E m \in 1 .. N : Onward(p, m, N) = q
        BY ONLY <3>1, OnwardGoesRound
      <4> QED
        BY ONLY <4>1
  <2>11. Selected(after[N]) = Selected(after[0])
    <3>1. 0 \in 0 .. N /\ N \in 0 .. N
      BY <2>4
    <3> QED
      BY <2>9, <2>10, <3>1
  <2>12. \A m \in 1 .. N : /\ Selected(after[m])[2] = ElementAt(base, Onward(p, m, N))
                           /\ Onward(p, m, N) \in 1 .. N
    <3>1. \A m \in 1 .. N : m \in 0 .. N
      BY <2>4
    <3> QED
      BY <2>9, <2>10, <3>1
  <2>13. Visited \subseteq live
    BY <2>4, <2>12
  <2>14. ASSUME NEW e \in live PROVE e \in Visited
    <3>1. PICK q \in 1 .. N : e = ElementAt(base, q)
      BY <2>4
    <3>2. PICK m \in 1 .. N : Onward(p, m, N) = q
      BY <2>10
    <3> QED
      BY <2>12, <3>1, <3>2
  <2>15. Visited = live
    BY <2>13, <2>14
  <2> QED
    BY <2>1, <2>11, <2>15
<1> QED
  BY <1>1, LifetimeInvariance, PTL

-----------------------------------------------------------------------------
(***************************************************************************)
(* The readings of Netlink, whose steps are steps of Elements.              *)
(***************************************************************************)
\* What Elements leaves open, whatever reports: a group has no two elements
\* of one name under one parent, nothing is left of a freed element, and the
\* policy has let every element in.
NoTwins ==
    \A e, f \in Elements :
        Live(e) /\ Live(f) /\ e_group[e] = e_group[f] /\ e_parent[e] = e_parent[f]
        /\ e_name[e] = e_name[f] => e = f
DeadBlank == \A e \in Elements : ~Live(e) => e_name[e] = NoName /\ ~e_updated[e]
LiveAdmitted == \A e \in Elements : Live(e) => e_name[e] \in Admitted

Registered == NoTwins /\ DeadBlank /\ LiveAdmitted

\* Steps that leave the records alone, and update live elements only.
LEMMA RecordsKept ==
  ASSUME Registered, UNCHANGED records, \A e \in Elements : e_updated'[e] => e_updated[e] \/ Live(e)
  PROVE  Registered'
BY DEF Registered, NoTwins, DeadBlank, LiveAdmitted, records, Live

\* A new element has a name that its parent did not have below it.
LEMMA NewRegistered ==
  ASSUME IInv, Registered, NEW g \in Groups, NEW n \in Names, NEW p \in Elements \cup {NoElement},
         ObserveNew(g, n, p)
  PROVE  Registered'
<1>1. PICK e \in Elements :
        /\ ~Live(e)
        /\ e_group' = [e_group EXCEPT ![e] = g]
        /\ e_parent' = [e_parent EXCEPT ![e] = p]
        /\ e_name' = [e_name EXCEPT ![e] = n]
        /\ Lifesign(e)
  BY DEF ObserveNew
<1>2. /\ e_group \in [Elements -> Groups \cup {NoGroup}]
      /\ e_parent \in [Elements -> Elements \cup {NoElement}]
      /\ e_name \in [Elements -> Names \cup {NoName}]
      /\ e_updated \in [Elements -> BOOLEAN]
      /\ g # NoGroup
  BY NullAssumption DEF IInv, Lists, TypeOK
<1>3. /\ \A f \in Elements : ~(e_group[f] = g /\ e_parent[f] = p /\ e_name[f] = n)
      /\ n \in Admitted
  BY DEF ObserveNew, Lookup
<1>4. /\ e_group'[e] = g /\ e_parent'[e] = p /\ e_name'[e] = n
      /\ \A f \in Elements : f # e => /\ e_group'[f] = e_group[f] /\ e_parent'[f] = e_parent[f]
                                      /\ e_name'[f] = e_name[f] /\ e_updated'[f] = e_updated[f]
  BY <1>1, <1>2 DEF Lifesign
<1>5. NoTwins'
  BY <1>3, <1>4 DEF NoTwins, Registered, Live
<1>6. DeadBlank' /\ LiveAdmitted'
  BY <1>2, <1>3, <1>4 DEF DeadBlank, LiveAdmitted, Registered, Live
<1> QED
  BY <1>5, <1>6 DEF Registered

\* A freed element takes its record with it.
LEMMA FreedRegistered ==
  ASSUME IInv, Registered, ElementFree
  PROVE  Registered'
<1> DEFINE e == Victim(order[group_list[walk.group]], walk.pos)
<1>1. /\ e_group' = [e_group EXCEPT ![e] = NoGroup]
      /\ e_parent' = [e_parent EXCEPT ![e] = NoElement]
      /\ e_name' = [e_name EXCEPT ![e] = NoName]
      /\ e_updated' = [e_updated EXCEPT ![e] = FALSE]
  BY DEF ElementFree
<1>2. /\ e_group \in [Elements -> Groups \cup {NoGroup}]
      /\ e_parent \in [Elements -> Elements \cup {NoElement}]
      /\ e_name \in [Elements -> Names \cup {NoName}]
      /\ e_updated \in [Elements -> BOOLEAN]
  BY DEF IInv, Lists, TypeOK
<1> HIDE DEF e
<1>3. \A f \in Elements :
        \/ /\ e_group'[f] = NoGroup /\ e_name'[f] = NoName /\ ~e_updated'[f]
        \/ /\ e_group'[f] = e_group[f] /\ e_parent'[f] = e_parent[f]
           /\ e_name'[f] = e_name[f] /\ e_updated'[f] = e_updated[f]
  BY <1>1, <1>2
<1> QED
  BY <1>3 DEF Registered, NoTwins, DeadBlank, LiveAdmitted, Live

\* Every handler keeps the register.
LEMMA RegisteredStep == IInv /\ Registered /\ [Next]_vars => Registered'
<1> SUFFICES ASSUME IInv, Registered, [Next]_vars PROVE Registered'
  OBVIOUS
<1>1. CASE ElementFree
  BY <1>1, FreedRegistered
<1>2. CASE Observe
  <2>1. PICK g \in Groups, n \in Names, p \in Elements \cup {NoElement} :
          ObserveKnown(g, n, p) \/ ObserveNew(g, n, p) \/ ObserveDenied(g, n, p)
    BY <1>2 DEF Observe
  <2>2. CASE ObserveKnown(g, n, p)
    <3>1. PICK e \in Lookup(g, n, p) : Lifesign(e)
      BY <2>2 DEF ObserveKnown
    <3>2. e \in Elements /\ Live(e)
      BY <2>1, <3>1, NullAssumption DEF Lookup, Live
    <3>3. \A f \in Elements : f # e => e_updated'[f] = e_updated[f]
      BY <3>1 DEF Lifesign, IInv, Lists, TypeOK
    <3> QED
      BY <2>2, <3>2, <3>3, RecordsKept DEF ObserveKnown
  <2>3. CASE ObserveDenied(g, n, p)
    BY <2>3, RecordsKept DEF ObserveDenied
  <2> QED
    BY <2>1, <2>2, <2>3, NewRegistered
<1>3. CASE UNCHANGED <<records, e_updated>>
  BY <1>3, RecordsKept
<1>4. CASE StartRead
  <2>1. \A e \in Elements : ~e_updated'[e]
    BY <1>4 DEF StartRead
  <2> QED
    BY <1>4, <2>1, RecordsKept DEF StartRead
<1> QED
  BY <1>1, <1>2, <1>3, <1>4 DEF Next, Loop, EndRead, CheckIfDead, NextGroup, Draw, vars,
     Keys, KeyDown, KeyUp, KeyGroupNext, KeyGroupPrev, Key

\* What the kernel has, and what of it an input should report.
Has == {kernel.links[i] : i \in DOMAIN kernel.links} \cup {kernel.tc[i] : i \in DOMAIN kernel.tc}
Wanted(n) == n \in Has \cap Admitted /\ (n \in Links => IsSeen(n))

\* The caches are what KernelAssumption says.
LEMMA KernelFacts ==
  ASSUME kernel \in Kernels
  PROVE  /\ kernel.links \in Seq(Links) /\ kernel.tc \in Seq(Tc)
         /\ \A i, j \in DOMAIN kernel.links : kernel.links[i] = kernel.links[j] => i = j
         /\ \A i, j \in DOMAIN kernel.tc : kernel.tc[i] = kernel.tc[j] => i = j
         /\ Has \subseteq Names
         /\ \A n \in Links : n \in Has <=> \E i \in DOMAIN kernel.links : kernel.links[i] = n
         /\ \A t \in Tc : t \in Has <=> \E i \in DOMAIN kernel.tc : kernel.tc[i] = t
<1>1. /\ kernel.links \in Seq(Links) /\ kernel.tc \in Seq(Tc)
      /\ IsInjective(kernel.links) /\ IsInjective(kernel.tc)
      /\ Names = Links \cup Tc /\ Links \cap Tc = {}
  BY KernelAssumption
<1>2. /\ \A i \in DOMAIN kernel.links : kernel.links[i] \in Links
      /\ \A i \in DOMAIN kernel.tc : kernel.tc[i] \in Tc
  BY <1>1, LenProperties
<1> QED
  BY <1>1, <1>2 DEF IsInjective, Has

\* The walk finds all of the traffic control below n, and nothing else, once.
LEMMA TcBelowFacts ==
  ASSUME kernel \in Kernels, NEW n
  PROVE  /\ TcBelow(n) \in Seq(Tc)
         /\ \A i, j \in DOMAIN TcBelow(n) : TcBelow(n)[i] = TcBelow(n)[j] => i = j
         /\ \A i \in DOMAIN TcBelow(n) : TcBelow(n)[i] \in Has /\ TcParent[TcBelow(n)[i]] = n
         /\ \A t \in Tc \cap Has : TcParent[t] = n => \E i \in DOMAIN TcBelow(n) : TcBelow(n)[i] = t
<1> DEFINE a == kernel.tc
           N == Len(a)
           T == Seq(Tc)
           Hangs(k) == TcParent[a[k]] = n
           St == [k \in 1 .. N |-> [t \in T |-> IF Hangs(k) THEN Append(t, a[k]) ELSE t]]
           G(f) == f = [k \in 0 .. N |-> IF k = 0 THEN <<>>
                                         ELSE IF Hangs(k) THEN Append(f[k - 1], a[k]) ELSE f[k - 1]]
<1>1. /\ a \in Seq(Tc) /\ N \in Nat /\ DOMAIN a = 1 .. N /\ \A k \in 1 .. N : a[k] \in Tc
      /\ \A i, j \in DOMAIN a : a[i] = a[j] => i = j
      /\ \A t \in Tc : t \in Has <=> \E i \in DOMAIN a : a[i] = t
  BY KernelFacts, LenProperties, ElementOfSeq
<1>2. TcBelow(n) = (CHOOSE f : G(f))[N]
  BY DEF TcBelow
<1> HIDE DEF N, a, Hangs
<1>3. \E f : G(f)
  <2> DEFINE x == <<>>
  <2>1. St \in [1 .. N -> [T -> T]] /\ x \in T
    BY <1>1, EmptySeq, AppendProperties
  <2> HIDE DEF St, T, x
  <2>2. PICK f \in [0 .. N -> T] : Follows(f, x, N, St)
    BY <1>1, <2>1, RecursionExists
  <2>3. ASSUME NEW k \in 0 .. N
        PROVE  f[k] = IF k = 0 THEN <<>> ELSE IF Hangs(k) THEN Append(f[k - 1], a[k]) ELSE f[k - 1]
    <3>1. CASE k = 0
      BY <2>2, <3>1 DEF Follows, x
    <3>2. CASE k # 0
      <4>1. k \in 1 .. N /\ k - 1 \in 0 .. N
        BY <1>1, <3>2
      <4>2. f[k - 1] \in T /\ f[k] = St[k][f[k - 1]]
        BY <2>2, <4>1 DEF Follows
      <4> QED
        BY <3>2, <4>1, <4>2 DEF St
    <3> QED
      BY <3>1, <3>2
  <2>4. G(f)
    BY <2>3
  <2> QED
    BY <2>4
<1> DEFINE f == CHOOSE f : G(f)
<1>4. G(f)
  <2> HIDE DEF G
  <2> QED
    BY <1>3
<1>5. \A k \in 0 .. N : f[k] = IF k = 0 THEN <<>>
                               ELSE IF Hangs(k) THEN Append(f[k - 1], a[k]) ELSE f[k - 1]
  BY <1>4
<1> HIDE DEF f, G
<1> DEFINE P(m) == /\ f[m] \in Seq(Tc)
                   /\ \A i, j \in DOMAIN f[m] : f[m][i] = f[m][j] => i = j
                   /\ \A i \in DOMAIN f[m] : \E k \in 1 .. m : f[m][i] = a[k] /\ Hangs(k)
                   /\ \A k \in 1 .. m : Hangs(k) => \E i \in DOMAIN f[m] : f[m][i] = a[k]
           I == {m \in Nat : m <= N => P(m)}
<1>6. P(0)
  <2>1. f[0] = <<>>
    <3>1. 0 \in 0 .. N
      BY <1>1
    <3> QED
      BY <1>5, <3>1, Zenon
  <2>2. DOMAIN f[0] = {} /\ f[0] \in Seq(Tc)
    BY <2>1, EmptySeq, LenProperties
  <2> QED
    BY <2>2
<1>7. ASSUME NEW m \in Nat, m + 1 <= N, P(m) PROVE P(m + 1)
  <2> DEFINE s == f[m]
             x == a[m + 1]
  <2>1. m + 1 \in 1 .. N /\ m \in 0 .. N /\ (m + 1) - 1 = m /\ m + 1 \in 0 .. N /\ m + 1 # 0
    BY <1>1, <1>7
  <2>2. f[m + 1] = IF Hangs(m + 1) THEN Append(s, x) ELSE s
    <3>1. f[m + 1] = IF m + 1 = 0 THEN <<>>
                     ELSE IF Hangs(m + 1) THEN Append(f[(m + 1) - 1], a[m + 1]) ELSE f[(m + 1) - 1]
      BY <1>5, <2>1
    <3> QED
      BY <2>1, <3>1
  <2>3. /\ s \in Seq(Tc) /\ x \in Tc
        /\ \A i, j \in DOMAIN s : s[i] = s[j] => i = j
        /\ \A i \in DOMAIN s : \E k \in 1 .. m : s[i] = a[k] /\ Hangs(k)
        /\ \A k \in 1 .. m : Hangs(k) => \E i \in DOMAIN s : s[i] = a[k]
    BY <1>1, <1>7, <2>1
  <2>4. \A k \in 1 .. m : k \in 1 .. m + 1 /\ k # m + 1 /\ a[k] # x
    BY <1>1, <2>1
  <2>5. CASE ~Hangs(m + 1)
    <3>1. f[m + 1] = s
      BY <2>2, <2>5
    <3>2. \A k \in 1 .. m + 1 : Hangs(k) => k \in 1 .. m
      BY <2>5
    <3> HIDE DEF s
    <3> QED
      BY <2>3, <2>4, <3>1, <3>2
  <2>6. CASE Hangs(m + 1)
    <3> DEFINE r == Append(s, x)
               l == Len(s)
    <3>1. f[m + 1] = r
      BY <2>2, <2>6
    <3> HIDE DEF s, x
    <3>2. r \in Seq(Tc) /\ Len(r) = l + 1 /\ l \in Nat /\ r[l + 1] = x
          /\ \A i \in 1 .. l : r[i] = s[i]
      BY <2>3, AppendProperties, LenProperties
    <3>3. DOMAIN r = 1 .. l + 1 /\ DOMAIN s = 1 .. l
      BY <2>3, <3>2, LenProperties
    <3>4. \A i \in 1 .. l : s[i] # x
      BY <2>3, <2>4, <3>3
    <3> HIDE DEF r, l
    <3>5. \A i, j \in DOMAIN r : r[i] = r[j] => i = j
      <4> SUFFICES ASSUME NEW i \in 1 .. l + 1, NEW j \in 1 .. l + 1, r[i] = r[j] PROVE i = j
        BY <3>3
      <4>1. CASE i = l + 1 \/ j = l + 1
        <5>1. i # l + 1 => i \in 1 .. l
          BY <3>2
        <5>2. j # l + 1 => j \in 1 .. l
          BY <3>2
        <5> QED
          BY <3>2, <3>4, <4>1, <5>1, <5>2
      <4>2. CASE i # l + 1 /\ j # l + 1
        <5>1. i \in 1 .. l /\ j \in 1 .. l
          BY <3>2, <4>2
        <5> QED
          <6>1. r[i] = s[i] /\ r[j] = s[j] /\ i \in DOMAIN s /\ j \in DOMAIN s
            BY ONLY <3>2, <3>3, <5>1
          <6>2. \A p, q \in DOMAIN s : s[p] = s[q] => p = q
            BY <2>3
          <6> QED
            BY ONLY <6>1, <6>2, r[i] = r[j]
      <4> QED
        BY <4>1, <4>2
    <3>6. \A i \in DOMAIN r : \E k \in 1 .. m + 1 : r[i] = a[k] /\ Hangs(k)
      <4> SUFFICES ASSUME NEW i \in 1 .. l + 1 PROVE \E k \in 1 .. m + 1 : r[i] = a[k] /\ Hangs(k)
        BY <3>3
      <4>1. CASE i = l + 1
        <5>1. m + 1 \in 1 .. m + 1 /\ r[i] = a[m + 1]
          BY <3>2, <4>1 DEF x
        <5> QED
          BY <2>6, <5>1
      <4>2. CASE i # l + 1
        <5>1. i \in 1 .. l
          BY <3>2, <4>2
        <5>2. PICK k \in 1 .. m : s[i] = a[k] /\ Hangs(k)
          BY <2>3, <3>3, <5>1
        <5> QED
          BY <2>4, <3>2, <5>1, <5>2
      <4> QED
        BY <4>1, <4>2
    <3>7. \A k \in 1 .. m + 1 : Hangs(k) => \E i \in DOMAIN r : r[i] = a[k]
      <4> SUFFICES ASSUME NEW k \in 1 .. m + 1, Hangs(k) PROVE \E i \in 1 .. l + 1 : r[i] = a[k]
        BY <3>3
      <4>1. CASE k = m + 1
        <5>1. l + 1 \in 1 .. l + 1 /\ r[l + 1] = a[k]
          BY <3>2, <4>1 DEF x
        <5> QED
          BY <5>1
      <4>2. CASE k # m + 1
        <5>1. k \in 1 .. m
          BY <4>2
        <5>2. PICK i \in 1 .. l : s[i] = a[k]
          BY <2>3, <3>3, <5>1
        <5>3. i \in 1 .. l + 1
          BY <3>2
        <5> QED
          BY <3>2, <5>2, <5>3
      <4> QED
        BY <4>1, <4>2
    <3> QED
      BY <3>1, <3>2, <3>5, <3>6, <3>7
  <2> QED
    BY <2>5, <2>6
<1>8. P(N)
  <2>1. 0 \in I
    BY <1>6
  <2>2. \A m \in Nat : m \in I => m + 1 \in I
    <3> HIDE DEF P
    <3> QED
      BY <1>1, <1>7
  <2>3. N \in I
    <3> HIDE DEF I
    <3> QED
      BY <1>1, <2>1, <2>2, NatSetInduction
  <2> HIDE DEF P
  <2> QED
    BY <1>1, <2>3
<1> DEFINE b == f[N]
<1>9. /\ b \in Seq(Tc)
      /\ \A i, j \in DOMAIN b : b[i] = b[j] => i = j
      /\ \A i \in DOMAIN b : \E k \in 1 .. N : b[i] = a[k] /\ Hangs(k)
      /\ \A k \in 1 .. N : Hangs(k) => \E i \in DOMAIN b : b[i] = a[k]
  BY <1>8
<1>10. TcBelow(n) = b
  BY <1>2 DEF f
<1> HIDE DEF b, P
<1>11. \A i \in DOMAIN b : b[i] \in Has /\ TcParent[b[i]] = n
  <2> SUFFICES ASSUME NEW i \in DOMAIN b PROVE b[i] \in Has /\ TcParent[b[i]] = n
    OBVIOUS
  <2>1. PICK k \in 1 .. N : b[i] = a[k] /\ Hangs(k)
    BY <1>9
  <2> QED
    BY <1>1, <2>1 DEF Hangs
<1>12. \A t \in Tc \cap Has : TcParent[t] = n => \E i \in DOMAIN b : b[i] = t
  BY <1>1, <1>9 DEF Hangs
<1> QED
  BY <1>9, <1>10, <1>11, <1>12

\* What is known of the walks in the middle of a reading: what they have still
\* to visit has not been updated, and below a link or an object that has been
\* updated, everything has been updated or is still to be visited.
Pending == {todo[i].name : i \in DOMAIN todo}

TodoOK == /\ todo \in Seq([name : Names, parent : Elements \cup {NoElement}])
          /\ kernel \in Kernels
          /\ pc # "read" \/ ~reading => todo = <<>>
TodoDistinct == \A i, j \in DOMAIN todo : todo[i].name = todo[j].name => i = j
TodoFresh == \A i \in DOMAIN todo :
    /\ todo[i].name \in Has /\ Updated(todo[i].name) = {}
    /\ todo[i].name \in Tc => todo[i].parent \in Updated(TcParent[todo[i].name])
UpdatedOnce == \A n \in Names : \A e, f \in Updated(n) : e = f
UpdatedRightly == \A n \in Names : \A e \in Updated(n) :
    Wanted(n) /\ (n \in Tc => e_parent[e] \in Updated(TcParent[n]))
NoneMissed == \A n \in Names :
    Wanted(n) /\ (n \in Tc => Updated(TcParent[n]) # {}) => Updated(n) # {} \/ n \in Pending

Underway == TodoDistinct /\ TodoFresh /\ UpdatedOnce /\ UpdatedRightly /\ NoneMissed
ReadInv == TodoOK /\ (pc = "read" /\ reading => Underway)

\* A reading begins with every link to visit and nothing updated.
LEMMA ResyncStep ==
  ASSUME Resync
  PROVE  ReadInv'
<1>1. /\ kernel' \in Kernels /\ pc' = "read" /\ reading'
      /\ todo' = [i \in DOMAIN kernel'.links |-> [name |-> kernel'.links[i], parent |-> NoElement]]
      /\ e_updated' = [e \in Elements |-> FALSE]
  BY DEF Resync, Below, StartRead
<1>2. /\ kernel'.links \in Seq(Links)
      /\ \A i, j \in DOMAIN kernel'.links : kernel'.links[i] = kernel'.links[j] => i = j
      /\ Names = Links \cup Tc /\ Links \cap Tc = {}
  BY <1>1, KernelAssumption DEF IsInjective
<1> DEFINE l == kernel'.links
<1>3. Len(l) \in Nat /\ DOMAIN l = 1 .. Len(l) /\ \A i \in DOMAIN l : l[i] \in Links
  BY <1>2, LenProperties
<1> HIDE DEF l
<1>4. /\ todo' = [i \in 1 .. Len(l) |-> [name |-> l[i], parent |-> NoElement]]
      /\ DOMAIN todo' = 1 .. Len(l)
      /\ \A i \in DOMAIN todo' : todo'[i].name = l[i] /\ l[i] \in Links
  BY <1>1, <1>3 DEF l
<1>5. todo' \in Seq([name : Names, parent : Elements \cup {NoElement}])
  <2> DEFINE R == [name : Names, parent : Elements \cup {NoElement}]
  <2>1. \A i \in 1 .. Len(l) : [name |-> l[i], parent |-> NoElement] \in R
    BY <1>2, <1>3
  <2> HIDE DEF R
  <2>2. [i \in 1 .. Len(l) |-> [name |-> l[i], parent |-> NoElement]] \in Seq(R)
    BY <1>3, <2>1
  <2> QED
    BY <1>4, <2>2 DEF R
<1>6. \A n : Updated(n)' = {}
  BY <1>1 DEF Updated
<1>7. TodoOK'
  BY <1>1, <1>5 DEF TodoOK
<1>8. Has' = {l[i] : i \in DOMAIN l} \cup {kernel'.tc[i] : i \in DOMAIN kernel'.tc}
  BY DEF Has, l
<1>9. TodoDistinct'
  BY <1>2, <1>3, <1>4 DEF TodoDistinct, l
<1>10. TodoFresh'
  BY <1>2, <1>3, <1>4, <1>6, <1>8 DEF TodoFresh
<1>11. UpdatedOnce' /\ UpdatedRightly'
  BY <1>6 DEF UpdatedOnce, UpdatedRightly
<1>12. NoneMissed'
  <2> SUFFICES ASSUME NEW n \in Names, n \in Has', ~(n \in Tc) PROVE n \in Pending'
    BY <1>6 DEF NoneMissed, Wanted
  <2>1. kernel'.tc \in Seq(Tc)
    BY <1>1, KernelAssumption
  <2>2. \A i \in DOMAIN kernel'.tc : kernel'.tc[i] \in Tc
    BY <2>1, LenProperties
  <2>3. PICK i \in DOMAIN l : l[i] = n
    BY <1>8, <2>2
  <2> QED
    BY <1>3, <1>4, <2>3 DEF Pending
<1> QED
  BY <1>7, <1>9, <1>10, <1>11, <1>12 DEF ReadInv, Underway

\* A report updates one element, which is the one Descend() finds.
LEMMA ReportUpdates ==
  ASSUME IInv, Registered, Registered', NEW n \in Names, NEW p \in Elements \cup {NoElement},
         ObserveKnown(Grp, n, p) \/ ObserveNew(Grp, n, p), Updated(n) = {}
  PROVE  \E e \in Elements :
           /\ n \in Admitted /\ pc' = pc
           /\ Updated(n)' = {e} /\ e_parent'[e] = p
           /\ \A m \in Names : m # n => /\ Updated(m)' = Updated(m)
                                        /\ \A f \in Updated(m) : e_parent'[f] = e_parent[f]
           /\ e = CHOOSE f \in Elements : e_group'[f] = Grp /\ e_parent'[f] = p /\ e_name'[f] = n
<1>1. /\ e_group \in [Elements -> Groups \cup {NoGroup}]
      /\ e_parent \in [Elements -> Elements \cup {NoElement}]
      /\ e_name \in [Elements -> Names \cup {NoName}]
      /\ e_updated \in [Elements -> BOOLEAN]
      /\ Grp \in Groups /\ Grp # NoGroup /\ NoName \notin Names
  BY NullAssumption, KernelAssumption DEF IInv, Lists, TypeOK
<1>2. \E e \in Elements :
        /\ n \in Admitted /\ pc' = pc
        /\ e_group'[e] = Grp /\ e_parent'[e] = p /\ e_name'[e] = n
        /\ e_updated' = [e_updated EXCEPT ![e] = TRUE]
        /\ e_name[e] \in {n, NoName}
        /\ \A f \in Elements : f # e => e_name'[f] = e_name[f] /\ e_parent'[f] = e_parent[f]
  <2>1. CASE ObserveKnown(Grp, n, p)
    <3>1. PICK e \in Lookup(Grp, n, p) : Lifesign(e)
      BY <2>1 DEF ObserveKnown
    <3>2. e \in Elements /\ e_group[e] = Grp /\ e_parent[e] = p /\ e_name[e] = n
      BY <3>1 DEF Lookup
    <3>3. n \in Admitted
      BY <1>1, <3>2 DEF Registered, LiveAdmitted, Live
    <3>4. UNCHANGED records /\ pc' = pc
      BY <2>1 DEF ObserveKnown
    <3> QED
      BY <3>1, <3>2, <3>3, <3>4 DEF Lifesign, records
  <2>2. CASE ObserveNew(Grp, n, p)
    <3>1. PICK e \in Elements :
            /\ ~Live(e)
            /\ e_group' = [e_group EXCEPT ![e] = Grp]
            /\ e_parent' = [e_parent EXCEPT ![e] = p]
            /\ e_name' = [e_name EXCEPT ![e] = n]
            /\ Lifesign(e)
      BY <2>2 DEF ObserveNew
    <3>2. n \in Admitted /\ pc' = pc
      BY <2>2 DEF ObserveNew
    <3>3. e_name[e] = NoName
      BY <3>1 DEF Registered, DeadBlank
    <3> QED
      BY <1>1, <3>1, <3>2, <3>3 DEF Lifesign
  <2> QED
    BY <2>1, <2>2
<1>3. PICK e \in Elements :
        /\ n \in Admitted /\ pc' = pc
        /\ e_group'[e] = Grp /\ e_parent'[e] = p /\ e_name'[e] = n
        /\ e_updated' = [e_updated EXCEPT ![e] = TRUE]
        /\ e_name[e] \in {n, NoName}
        /\ \A f \in Elements : f # e => e_name'[f] = e_name[f] /\ e_parent'[f] = e_parent[f]
  BY <1>2
<1>4. Updated(n)' = {e}
  BY <1>1, <1>3 DEF Updated
<1>5. ASSUME NEW m \in Names, m # n
      PROVE  Updated(m)' = Updated(m) /\ \A f \in Updated(m) : e_parent'[f] = e_parent[f]
  <2>1. e \notin Updated(m) /\ e \notin Updated(m)'
    BY <1>1, <1>3, <1>5 DEF Updated
  <2>2. \A f \in Elements : f # e => e_updated'[f] = e_updated[f]
    BY <1>1, <1>3
  <2> QED
    BY <1>3, <2>1, <2>2 DEF Updated
<1>6. e = CHOOSE f \in Elements : e_group'[f] = Grp /\ e_parent'[f] = p /\ e_name'[f] = n
  <2>1. \A f \in Elements : e_group'[f] = Grp /\ e_parent'[f] = p /\ e_name'[f] = n => f = e
    BY <1>1, <1>3 DEF Registered, NoTwins, Live
  <2> QED
    BY <1>3, <2>1
<1> QED
  BY <1>3, <1>4, <1>5, <1>6

\* What is left to visit after the first.
LEMMA TailFacts ==
  ASSUME NEW S, NEW s \in Seq(S), s # <<>>
  PROVE  /\ Tail(s) \in Seq(S) /\ Head(s) = s[1] /\ 1 \in DOMAIN s
         /\ \A i \in DOMAIN Tail(s) : i + 1 \in DOMAIN s /\ i + 1 # 1 /\ Tail(s)[i] = s[i + 1]
         /\ \A i \in DOMAIN s : i # 1 => i - 1 \in DOMAIN Tail(s) /\ Tail(s)[i - 1] = s[i]
<1>1. Len(s) \in Nat \ {0} /\ DOMAIN s = 1 .. Len(s)
  BY EmptySeq, LenProperties
<1>2. /\ Head(s) = s[1] /\ Tail(s) \in Seq(S) /\ Len(Tail(s)) = Len(s) - 1
      /\ \A i \in 1 .. Len(Tail(s)) : Tail(s)[i] = s[i + 1]
  BY HeadTailProperties
<1>3. DOMAIN Tail(s) = 1 .. Len(s) - 1
  BY <1>2, LenProperties
<1> QED
  BY <1>1, <1>2, <1>3

\* A walk that passes over the first.
LEMMA PassedOver ==
  ASSUME TodoOK, Underway, pc = "read", todo # <<>>, UNCHANGED <<kernel, pc, reading>>, todo' = Tail(todo),
         \A n : Updated(n)' = Updated(n), \A n \in Names : \A e \in Updated(n) : e_parent'[e] = e_parent[e],
         ~Wanted(Head(todo).name)
  PROVE  TodoOK' /\ Underway'
<1> DEFINE R == [name : Names, parent : Elements \cup {NoElement}]
<1>1. /\ todo' \in Seq(R) /\ Head(todo) = todo[1] /\ 1 \in DOMAIN todo
      /\ \A i \in DOMAIN todo' : i + 1 \in DOMAIN todo /\ i + 1 # 1 /\ todo'[i] = todo[i + 1]
      /\ \A i \in DOMAIN todo : i # 1 => i - 1 \in DOMAIN todo' /\ todo'[i - 1] = todo[i]
  <2>1. todo \in Seq(R)
    BY DEF TodoOK
  <2> HIDE DEF R
  <2> QED
    BY <2>1, TailFacts
<1>2. TodoOK'
  BY <1>1 DEF TodoOK
<1>3. Has' = Has /\ \A n : Wanted(n)' <=> Wanted(n)
  BY DEF Has, Wanted, IsSeen
<1>4. TodoDistinct'
  <2> SUFFICES ASSUME NEW i \in DOMAIN todo', NEW j \in DOMAIN todo', todo'[i].name = todo'[j].name
               PROVE  i = j
    BY DEF TodoDistinct
  <2>1. i + 1 = j + 1
    BY <1>1 DEF Underway, TodoDistinct
  <2>2. i \in Nat /\ j \in Nat
    BY <1>1, LenProperties
  <2> QED
    BY <2>1, <2>2
<1>5. TodoFresh'
  <2> DEFINE Fresh(r) == /\ r.name \in Has /\ Updated(r.name) = {}
                         /\ r.name \in Tc => r.parent \in Updated(TcParent[r.name])
  <2>1. \A r : Fresh(r)' <=> Fresh(r)
    BY <1>3
  <2>2. \A i \in DOMAIN todo : Fresh(todo[i])
    BY DEF Underway, TodoFresh
  <2>3. TodoFresh' <=> \A i \in DOMAIN todo' : Fresh(todo[i])'
    BY DEF TodoFresh
  <2> HIDE DEF Fresh
  <2> QED
    BY <1>1, <2>1, <2>2, <2>3
<1>6. UpdatedOnce' /\ UpdatedRightly'
  BY <1>3 DEF Underway, UpdatedOnce, UpdatedRightly
<1>7. NoneMissed'
  <2> SUFFICES ASSUME NEW n \in Names, Wanted(n), n \in Pending PROVE n \in Pending'
    BY <1>3 DEF NoneMissed, Underway
  <2>1. PICK i \in DOMAIN todo : todo[i].name = n
    BY DEF Pending
  <2>2. i # 1
    BY <1>1, <2>1
  <2> QED
    BY <1>1, <2>1, <2>2 DEF Pending
<1> QED
  BY <1>2, <1>4, <1>5, <1>6, <1>7 DEF Underway

\* What is to visit once the children of the first have been put in front.
LEMMA FollowedBy ==
  ASSUME NEW S, NEW c \in Seq(S), NEW t \in Seq(S), NEW s, s = c \o t
  PROVE  /\ s \in Seq(S)
         /\ \A i \in DOMAIN s : \/ i \in DOMAIN c /\ s[i] = c[i]
                                \/ \E j \in DOMAIN t : i = Len(c) + j /\ s[i] = t[j]
         /\ \A i \in DOMAIN c : i \in DOMAIN s /\ s[i] = c[i]
         /\ \A j \in DOMAIN t : Len(c) + j \in DOMAIN s /\ s[Len(c) + j] = t[j]
<1>1. /\ s \in Seq(S) /\ Len(s) = Len(c) + Len(t)
      /\ \A i \in 1 .. Len(c) + Len(t) : s[i] = IF i <= Len(c) THEN c[i] ELSE t[i - Len(c)]
  BY ConcatProperties
<1>2. /\ DOMAIN s = 1 .. Len(c) + Len(t) /\ DOMAIN c = 1 .. Len(c) /\ DOMAIN t = 1 .. Len(t)
      /\ Len(c) \in Nat /\ Len(t) \in Nat
  BY <1>1, LenProperties
<1>3. ASSUME NEW i \in DOMAIN s, i \notin DOMAIN c
      PROVE  \E j \in DOMAIN t : i = Len(c) + j /\ s[i] = t[j]
  <2>1. i - Len(c) \in DOMAIN t /\ i = Len(c) + (i - Len(c)) /\ ~(i <= Len(c))
    BY <1>2, <1>3
  <2> QED
    BY <1>1, <1>2, <2>1
<1>4. ASSUME NEW j \in DOMAIN t
      PROVE  Len(c) + j \in DOMAIN s /\ s[Len(c) + j] = t[j]
  <2>1. Len(c) + j \in 1 .. Len(c) + Len(t) /\ (Len(c) + j) - Len(c) = j /\ ~(Len(c) + j <= Len(c))
    BY <1>2
  <2> QED
    BY <1>1, <1>2, <2>1
<1>5. \A i \in DOMAIN c : i \in DOMAIN s /\ s[i] = c[i]
  BY <1>1, <1>2
<1>6. \A i \in DOMAIN s : i \in DOMAIN c => s[i] = c[i]
  BY <1>5
<1> QED
  BY <1>1, <1>3, <1>4, <1>5, <1>6

\* A walk that reports the first, and goes on below it.
LEMMA Reported ==
  ASSUME TodoOK, Underway, pc = "read", todo # <<>>, UNCHANGED <<kernel, pc, reading>>,
         NEW n \in Names, n = Head(todo).name, NEW p, n \in Tc => p = Head(todo).parent,
         n \in Admitted, n \in Links => IsSeen(n),
         NEW e \in Elements, Updated(n)' = {e}, e_parent'[e] = p,
         \A m \in Names : m # n => /\ Updated(m)' = Updated(m)
                                   /\ \A f \in Updated(m) : e_parent'[f] = e_parent[f],
         todo' = Below(TcBelow(n), e) \o Tail(todo)
  PROVE  TodoOK' /\ Underway'
<1> DEFINE R == [name : Names, parent : Elements \cup {NoElement}]
           b == TcBelow(n)
           c == Below(b, e)
           t == Tail(todo)
<1> USE DEF Underway
<1>1. /\ todo \in Seq(R)
      /\ TodoDistinct /\ TodoFresh /\ UpdatedOnce /\ UpdatedRightly /\ NoneMissed
  BY DEF TodoOK
<1>2. /\ t \in Seq(R) /\ Head(todo) = todo[1] /\ 1 \in DOMAIN todo
      /\ \A i \in DOMAIN t : i + 1 \in DOMAIN todo /\ i + 1 # 1 /\ t[i] = todo[i + 1]
      /\ \A i \in DOMAIN todo : i # 1 => i - 1 \in DOMAIN t /\ t[i - 1] = todo[i]
  <2> HIDE DEF R
  <2> QED
    BY ONLY <1>1, todo # <<>>, TailFacts
<1>3. /\ \A i, j \in DOMAIN t : t[i].name = t[j].name => i = j
      /\ \A i \in DOMAIN t :
            /\ t[i].name \in Has /\ Updated(t[i].name) = {} /\ t[i].name # n
            /\ t[i].name \in Tc => t[i].parent \in Updated(TcParent[t[i].name])
      /\ \A i \in DOMAIN todo : todo[i].name # n => \E j \in DOMAIN t : t[j].name = todo[i].name
  <2> HIDE DEF t
  <2>1. n = todo[1].name
    BY <1>2
  <2>2. \A i, j \in DOMAIN t : t[i].name = t[j].name => i = j
    <3>1. \A i \in DOMAIN t : i \in Nat
      BY ONLY <1>2, LenProperties
    <3> SUFFICES ASSUME NEW i \in DOMAIN t, NEW j \in DOMAIN t, t[i].name = t[j].name PROVE i = j
      OBVIOUS
    <3>2. i + 1 = j + 1
      <4>1. /\ i + 1 \in DOMAIN todo /\ j + 1 \in DOMAIN todo
            /\ todo[i + 1].name = todo[j + 1].name
        BY ONLY <1>2, i \in DOMAIN t, j \in DOMAIN t, t[i].name = t[j].name
      <4> QED
        BY ONLY <1>1, <4>1 DEF TodoDistinct
    <3> QED
      BY <3>1, <3>2
  <2>3. \A i \in DOMAIN t : /\ t[i].name \in Has /\ Updated(t[i].name) = {}
                            /\ t[i].name \in Tc => t[i].parent \in Updated(TcParent[t[i].name])
    BY ONLY <1>1, <1>2 DEF TodoFresh
  <2>4. \A i \in DOMAIN t : t[i].name # n
    BY ONLY <1>1, <1>2, <2>1 DEF TodoDistinct
  <2>5. \A i \in DOMAIN todo : todo[i].name # n => \E j \in DOMAIN t : t[j].name = todo[i].name
    BY ONLY <1>2, <2>1
  <2> QED
    BY ONLY <2>2, <2>3, <2>4, <2>5
<1>4. /\ b \in Seq(Tc) /\ \A i, j \in DOMAIN b : b[i] = b[j] => i = j
      /\ \A i \in DOMAIN b : b[i] \in Tc \cap Has /\ TcParent[b[i]] = n
      /\ \A x \in Tc \cap Has : TcParent[x] = n => \E i \in DOMAIN b : b[i] = x
  <2>1. /\ b \in Seq(Tc) /\ \A i, j \in DOMAIN b : b[i] = b[j] => i = j
        /\ \A i \in DOMAIN b : b[i] \in Has /\ TcParent[b[i]] = n
        /\ \A x \in Tc \cap Has : TcParent[x] = n => \E i \in DOMAIN b : b[i] = x
    BY TcBelowFacts DEF TodoOK
  <2>2. \A i \in DOMAIN b : b[i] \in Tc
    BY <2>1, LenProperties
  <2> QED
    BY <2>1, <2>2
<1> HIDE DEF b
<1>5. /\ c \in Seq(R) /\ DOMAIN c = DOMAIN b
      /\ \A i \in DOMAIN b : c[i].name = b[i] /\ c[i].parent = e
  <2>1. Len(b) \in Nat /\ DOMAIN b = 1 .. Len(b)
    BY <1>4, LenProperties
  <2>2. c = [i \in 1 .. Len(b) |-> [name |-> b[i], parent |-> e]]
    BY <2>1 DEF Below
  <2>3. \A i \in 1 .. Len(b) : [name |-> b[i], parent |-> e] \in R
    BY <1>4, <2>1, KernelAssumption
  <2>4. [i \in 1 .. Len(b) |-> [name |-> b[i], parent |-> e]] \in Seq(R)
    <3> HIDE DEF R
    <3> QED
      BY <2>1, <2>3
  <2> QED
    BY <2>1, <2>2, <2>4
<1>6. /\ todo' \in Seq(R)
      /\ \A i \in DOMAIN todo' : \/ i \in DOMAIN c /\ todo'[i] = c[i]
                                 \/ \E j \in DOMAIN t : i = Len(c) + j /\ todo'[i] = t[j]
      /\ \A i \in DOMAIN c : i \in DOMAIN todo' /\ todo'[i] = c[i]
      /\ \A j \in DOMAIN t : Len(c) + j \in DOMAIN todo' /\ todo'[Len(c) + j] = t[j]
  <2>1. todo' = c \o t
    BY DEF b
  <2> HIDE DEF R, c, t
  <2> QED
    BY ONLY <1>2, <1>5, <2>1, FollowedBy
<1> HIDE DEF c, t
<1>7. /\ Has' = Has /\ \A m : Wanted(m)' <=> Wanted(m)
      /\ Names = Links \cup Tc /\ Links \cap Tc = {} /\ \A x \in Tc : TcParent[x] \in Names
      /\ Has \subseteq Names
  <2>1. Has \subseteq Names
    BY KernelFacts DEF TodoOK
  <2> QED
    BY <2>1, KernelAssumption DEF Has, Wanted, IsSeen
<1>8. /\ n \in Has /\ Updated(n) = {} /\ (n \in Tc => p \in Updated(TcParent[n]))
  <2>1. n = todo[1].name /\ (n \in Tc => p = todo[1].parent) /\ 1 \in DOMAIN todo
    BY <1>2
  <2> QED
    BY <1>1, <2>1 DEF TodoFresh
<1>9. \A x \in Tc : TcParent[x] = n => Updated(x) = {} /\ x # n
  BY ONLY <1>1, <1>7, <1>8 DEF UpdatedRightly
<1>10. \A m \in Names : m # n => Updated(m)' = Updated(m)
  OBVIOUS
<1>11. TodoOK'
  BY <1>6 DEF TodoOK, R
<1>12. TodoDistinct'
  <2> SUFFICES ASSUME NEW i \in DOMAIN todo', NEW j \in DOMAIN todo', todo'[i].name = todo'[j].name
               PROVE  i = j
    BY DEF TodoDistinct
  <2>1. \A k \in DOMAIN c : \A h \in DOMAIN t : c[k].name # t[h].name
    BY ONLY <1>3, <1>4, <1>5, <1>8
  <2>2. \A k, h \in DOMAIN c : c[k].name = c[h].name => k = h
    BY ONLY <1>4, <1>5
  <2> QED
    BY ONLY <1>3, <1>6, <2>1, <2>2, i \in DOMAIN todo', j \in DOMAIN todo', todo'[i].name = todo'[j].name
<1>13. TodoFresh'
  <2> DEFINE U(m) == {f \in Elements : e_name'[f] = m /\ e_updated'[f]}
  <2>1. \A m : Updated(m)' = U(m)
    BY DEF Updated
  <2> HIDE DEF U
  <2>3. U(n) = {e} /\ \A m \in Names : m # n => U(m) = Updated(m)
    BY <1>10, <2>1
  <2>4. \A k \in DOMAIN c : /\ c[k].name \in Has /\ U(c[k].name) = {}
                            /\ c[k].name \in Tc => c[k].parent \in U(TcParent[c[k].name])
    <3> SUFFICES ASSUME NEW k \in DOMAIN c
                 PROVE  c[k].name \in Has /\ U(c[k].name) = {} /\ c[k].parent \in U(TcParent[c[k].name])
      OBVIOUS
    <3>1. c[k].name = b[k] /\ c[k].parent = e /\ b[k] \in Tc \cap Has /\ TcParent[b[k]] = n
      BY ONLY <1>4, <1>5, k \in DOMAIN c
    <3>2. U(b[k]) = {}
      BY ONLY <1>7, <1>9, <2>3, <3>1
    <3> QED
      BY ONLY <2>3, <3>1, <3>2
  <2>5. \A h \in DOMAIN t : /\ t[h].name \in Has /\ U(t[h].name) = {}
                            /\ t[h].name \in Tc => t[h].parent \in U(TcParent[t[h].name])
    <3> SUFFICES ASSUME NEW h \in DOMAIN t
                 PROVE  /\ t[h].name \in Has /\ U(t[h].name) = {}
                        /\ t[h].name \in Tc => t[h].parent \in U(TcParent[t[h].name])
      OBVIOUS
    <3>1. U(t[h].name) = {} /\ t[h].name \in Has
      BY ONLY <1>3, <1>7, <2>3, h \in DOMAIN t
    <3>2. ASSUME t[h].name \in Tc
          PROVE  t[h].parent \in U(TcParent[t[h].name])
      <4>1. t[h].parent \in Updated(TcParent[t[h].name]) /\ TcParent[t[h].name] \in Names
        BY ONLY <1>3, <1>7, <3>2, h \in DOMAIN t
      <4>2. TcParent[t[h].name] # n
        BY ONLY <1>8, <4>1
      <4> QED
        BY ONLY <2>3, <4>1, <4>2
    <3> QED
      BY <3>1, <3>2
  <2>6. \A i \in DOMAIN todo' : /\ todo'[i].name \in Has /\ U(todo'[i].name) = {}
                                /\ todo'[i].name \in Tc => todo'[i].parent \in U(TcParent[todo'[i].name])
    <3> SUFFICES ASSUME NEW i \in DOMAIN todo'
                 PROVE  /\ todo'[i].name \in Has /\ U(todo'[i].name) = {}
                        /\ todo'[i].name \in Tc => todo'[i].parent \in U(TcParent[todo'[i].name])
      OBVIOUS
    <3>1. (\E k \in DOMAIN c : todo'[i] = c[k]) \/ (\E h \in DOMAIN t : todo'[i] = t[h])
      BY ONLY <1>6, i \in DOMAIN todo'
    <3> QED
      BY ONLY <2>4, <2>5, <3>1
  <2> QED
    BY ONLY <1>7, <2>6 DEF TodoFresh, Updated, U
<1>14. UpdatedOnce'
  BY ONLY <1>1, <1>10, Updated(n)' = {e} DEF UpdatedOnce
<1>15. UpdatedRightly'
  <2> SUFFICES ASSUME NEW m \in Names, NEW f \in Updated(m)'
               PROVE  Wanted(m) /\ (m \in Tc => e_parent'[f] \in Updated(TcParent[m])')
    BY <1>7 DEF UpdatedRightly
  <2>1. CASE m = n
    <3>1. Wanted(n) /\ f = e
      BY <1>8, <2>1 DEF Wanted
    <3>2. n \in Tc => TcParent[n] # n /\ TcParent[n] \in Names
      BY ONLY <1>7, <1>9
    <3> QED
      BY <1>8, <1>10, <2>1, <3>1, <3>2
  <2>2. CASE m # n
    <3>1. f \in Updated(m) /\ e_parent'[f] = e_parent[f]
      BY <2>2
    <3>2. Wanted(m) /\ (m \in Tc => e_parent[f] \in Updated(TcParent[m]))
      BY <1>1, <3>1 DEF UpdatedRightly
    <3>3. m \in Tc => TcParent[m] # n /\ TcParent[m] \in Names
      BY ONLY <1>7, <1>8, <3>2
    <3> QED
      BY ONLY <1>10, <3>1, <3>2, <3>3
  <2> QED
    BY <2>1, <2>2
<1>16. NoneMissed'
  <2> SUFFICES ASSUME NEW m \in Names, Wanted(m), m \in Tc => Updated(TcParent[m])' # {},
                      Updated(m)' = {}
               PROVE  m \in Pending'
    BY <1>7 DEF NoneMissed
  <2>1. m # n /\ Updated(m) = {} /\ m \in Has
    BY DEF Wanted
  <2>2. CASE m \in Tc /\ TcParent[m] = n
    <3>1. PICK i \in DOMAIN b : b[i] = m
      BY <1>4, <2>1, <2>2
    <3>2. i \in DOMAIN todo' /\ todo'[i].name = m
      BY <1>5, <1>6, <3>1
    <3> QED
      BY ONLY <3>2 DEF Pending
  <2>3. CASE ~(m \in Tc /\ TcParent[m] = n)
    <3>1. m \in Tc => Updated(TcParent[m]) # {}
      BY <1>7, <1>10, <2>3
    <3>2. PICK i \in DOMAIN todo : todo[i].name = m
      BY <1>1, <2>1, <3>1 DEF NoneMissed, Pending
    <3>3. PICK j \in DOMAIN t : t[j].name = m
      BY <1>3, <2>1, <3>2
    <3>4. Len(c) + j \in DOMAIN todo' /\ todo'[Len(c) + j].name = m
      BY <1>6, <3>3
    <3> QED
      BY ONLY <3>4 DEF Pending
  <2> QED
    BY <2>2, <2>3
<1> QED
  BY <1>11, <1>12, <1>13, <1>14, <1>15, <1>16

\* What an input reports for a name that is due is in order.
LEMMA ReportStep ==
  ASSUME IInv, Registered, Registered', TodoOK, Underway, pc = "read", todo # <<>>, UNCHANGED <<kernel, reading>>,
         NEW n \in Names, n = Head(todo).name, n \in Links => IsSeen(n),
         NEW p \in Elements \cup {NoElement}, n \in Tc => p = Head(todo).parent, Report(n, p)
  PROVE  TodoOK' /\ Underway'
<1>1. Updated(n) = {}
  <2> DEFINE R == [name : Names, parent : Elements \cup {NoElement}]
  <2>1. todo \in Seq(R)
    BY DEF TodoOK
  <2> HIDE DEF R
  <2>2. Head(todo) = todo[1] /\ 1 \in DOMAIN todo
    BY <2>1, TailFacts
  <2> QED
    BY <2>2 DEF Underway, TodoFresh
<1>2. CASE ObserveDenied(Grp, n, p) /\ todo' = Skip
  <2>1. UNCHANGED <<pc, e_name, e_updated, e_parent>> /\ n \notin Admitted
    BY <1>2 DEF ObserveDenied, records
  <2>2. ~Wanted(Head(todo).name)
    BY <2>1 DEF Wanted
  <2>3. \A m : Updated(m)' = Updated(m)
    BY <2>1 DEF Updated
  <2>4. \A m \in Names : \A e \in Updated(m) : e_parent'[e] = e_parent[e]
    BY <2>1
  <2> QED
    BY <1>2, <2>1, <2>2, <2>3, <2>4, PassedOver DEF Skip
<1>3. CASE (ObserveKnown(Grp, n, p) \/ ObserveNew(Grp, n, p)) /\ todo' = Descend(n, p) \o Tail(todo)
  <2>1. PICK e \in Elements :
           /\ n \in Admitted /\ pc' = pc
           /\ Updated(n)' = {e} /\ e_parent'[e] = p
           /\ \A m \in Names : m # n => /\ Updated(m)' = Updated(m)
                                        /\ \A f \in Updated(m) : e_parent'[f] = e_parent[f]
           /\ e = CHOOSE f \in Elements : e_group'[f] = Grp /\ e_parent'[f] = p /\ e_name'[f] = n
    BY <1>1, <1>3, ReportUpdates
  <2>2. todo' = Below(TcBelow(n), e) \o Tail(todo)
    BY <1>3, <2>1 DEF Descend
  <2>3. UNCHANGED <<kernel, pc, reading>>
    BY <2>1
  <2> QED
    BY <2>1, <2>2, <2>3, Reported
<1> QED
  BY <1>2, <1>3 DEF Report

\* The element that a master has is an element.
LEMMA ParentsAreElements == ASSUME NEW l PROVE Parents(l) \subseteq Elements \cup {NoElement}
<1> DEFINE m == Lookup(Grp, kernel.master[l], NoElement)
<1>1. m \subseteq Elements
  BY DEF Lookup
<1> HIDE DEF m
<1>2. Parents(l) = {NoElement} \/ Parents(l) = m \/ Parents(l) = m \cup {NoElement}
  BY DEF Parents, m
<1> QED
  BY <1>1, <1>2

\* What is due is a name.
LEMMA HeadIsName ==
  ASSUME TodoOK, todo # <<>>
  PROVE  Head(todo).name \in Names /\ Head(todo).parent \in Elements \cup {NoElement}
<1> DEFINE R == [name : Names, parent : Elements \cup {NoElement}]
<1>1. todo \in Seq(R)
  BY DEF TodoOK
<1>2. Head(todo) \in R
  <2> HIDE DEF R
  <2> QED
    BY <1>1, TailFacts, ElementOfSeq
<1> QED
  BY <1>2

\* The steps of the netlink input are steps of Elements.
LEMMA IsElementsStep ==
  ASSUME ReadInv, [NetlinkNext]_<<vars, caches>>
  PROVE  [Next]_vars
<1>1. Grp \in Groups /\ Names = Links \cup Tc
  BY KernelAssumption
<1>2. ASSUME NEW n \in Names, NEW p \in Elements \cup {NoElement}, Report(n, p)
      PROVE  Next
  BY <1>1, <1>2 DEF Report, Next, Observe
<1>3. CASE DoLink
  <2>1. TodoOK /\ todo # <<>>
    BY <1>3 DEF DoLink, ReadInv
  <2>2. PICK n \in Names : n = Head(todo).name
    BY <2>1, HeadIsName
  <2>3. CASE IsSeen(n)
    <3>1. PICK p \in Parents(n) : Report(n, p)
      BY <1>3, <2>2, <2>3 DEF DoLink
    <3> QED
      BY <1>2, <3>1, ParentsAreElements
  <2>4. CASE ~IsSeen(n)
    BY <1>3, <2>2, <2>4 DEF DoLink
  <2> QED
    BY <2>3, <2>4
<1>4. CASE HandleTc
  <2>1. TodoOK /\ todo # <<>> /\ Report(Head(todo).name, Head(todo).parent)
    BY <1>4 DEF HandleTc, ReadInv
  <2>2. PICK n \in Names, p \in Elements \cup {NoElement} : n = Head(todo).name /\ p = Head(todo).parent
    BY <2>1, HeadIsName
  <2> QED
    BY <1>2, <2>1, <2>2
<1>5. CASE Resync \/ ResyncFails \/ EndReading \/ Reap \/ DrawScreen
  BY <1>5 DEF Resync, ResyncFails, EndReading, Reap, DrawScreen, Next, Loop
<1> QED
  BY <1>3, <1>4, <1>5 DEF NetlinkNext

\* Every step of the netlink input keeps the walks in order.
LEMMA NetlinkStep == IInv /\ Registered /\ ReadInv /\ [NetlinkNext]_<<vars, caches>> => (IInv /\ Registered /\ ReadInv)'
<1> SUFFICES ASSUME IInv, Registered, ReadInv, [NetlinkNext]_<<vars, caches>> PROVE (IInv /\ Registered /\ ReadInv)'
  OBVIOUS
<1>1. IInv' /\ Registered'
  BY IsElementsStep, NextStep, RegisteredStep
<1>2. TodoOK
  BY DEF ReadInv
<1>3. ASSUME pc = "read", todo # <<>>
      PROVE  Underway /\ reading
  BY <1>2, <1>3 DEF ReadInv, TodoOK
<1>4. CASE Resync
  BY <1>1, <1>4, ResyncStep
<1>5. CASE DoLink
  <2>1. Underway /\ reading /\ pc = "read" /\ todo # <<>> /\ UNCHANGED <<kernel, reading>>
    BY <1>3, <1>5 DEF DoLink
  <2>2. PICK n \in Names : n = Head(todo).name
    BY <1>2, <2>1, HeadIsName
  <2>3. n \notin Tc
    BY <1>5, <2>2, KernelAssumption DEF DoLink
  <2>4. CASE IsSeen(n)
    <3>1. PICK p \in Elements \cup {NoElement} : Report(n, p)
      BY <1>5, <2>2, <2>4, ParentsAreElements DEF DoLink
    <3>2. TodoOK' /\ Underway'
      BY <1>1, <1>2, <2>1, <2>2, <2>3, <2>4, <3>1, ReportStep
    <3> QED
      BY <1>1, <3>2 DEF ReadInv
  <2>5. CASE ~IsSeen(n)
    <3>1. todo' = Tail(todo) /\ UNCHANGED vars
      BY <1>5, <2>2, <2>5 DEF DoLink
    <3>2. UNCHANGED <<kernel, pc, reading>> /\ UNCHANGED <<e_name, e_updated, e_parent>>
      BY <2>1, <3>1 DEF vars, records
    <3>3. ~Wanted(Head(todo).name)
      BY <1>5, <2>2, <2>5 DEF Wanted, DoLink
    <3>4. \A m : Updated(m)' = Updated(m)
      BY <3>2 DEF Updated
    <3>5. \A m \in Names : \A e \in Updated(m) : e_parent'[e] = e_parent[e]
      BY <3>2
    <3>6. TodoOK' /\ Underway'
      BY <1>2, <2>1, <3>1, <3>2, <3>3, <3>4, <3>5, PassedOver
    <3> QED
      BY <1>1, <3>6 DEF ReadInv
  <2> QED
    BY <2>4, <2>5
<1>6. CASE HandleTc
  <2>1. /\ Underway /\ reading /\ pc = "read" /\ todo # <<>> /\ UNCHANGED <<kernel, reading>>
        /\ Head(todo).name \in Tc
    BY <1>3, <1>6 DEF HandleTc
  <2>2. PICK n \in Names, p \in Elements \cup {NoElement} : n = Head(todo).name /\ p = Head(todo).parent
    BY <1>2, <2>1, HeadIsName
  <2>3. n \notin Links /\ Report(n, p)
    BY <1>6, <2>1, <2>2, KernelAssumption DEF HandleTc
  <2>4. TodoOK' /\ Underway'
    BY <1>1, <1>2, <2>1, <2>2, <2>3, ReportStep
  <2> QED
    BY <1>1, <2>4 DEF ReadInv
<1>7. ASSUME UNCHANGED <<kernel, todo>>, pc' # "read" \/ ~reading', todo = <<>>
      PROVE  ReadInv'
  BY <1>2, <1>7 DEF ReadInv, TodoOK
<1>8. CASE ResyncFails \/ EndReading \/ Reap \/ DrawScreen
  <2>1. pc' # "read" \/ ~reading'
    BY <1>8 DEF ResyncFails, EndReading, Reap, DrawScreen, EndRead, CheckIfDead, NextGroup, ElementFree, Draw
  <2>2. todo = <<>> /\ UNCHANGED <<kernel, todo>>
    BY <1>2, <1>8 DEF TodoOK, ResyncFails, EndReading, Reap, DrawScreen, StartRead, CheckIfDead, NextGroup,
       ElementFree, Draw, caches
  <2> QED
    BY <1>1, <1>7, <2>1, <2>2
<1>9. CASE UNCHANGED <<vars, caches>>
  <2>1. UNCHANGED <<kernel, todo, reading, pc, e_name, e_updated, e_parent>>
    BY <1>9 DEF vars, caches, records
  <2>2. \A m : Updated(m)' = Updated(m)
    BY <2>1 DEF Updated
  <2>3. TodoOK'
    BY <1>2, <2>1 DEF TodoOK
  <2>4. Underway => Underway'
    BY <2>1, <2>2 DEF Underway, TodoDistinct, TodoFresh, UpdatedOnce, UpdatedRightly, NoneMissed, Pending,
       Wanted, Has, IsSeen, Updated
  <2> QED
    BY <1>1, <2>1, <2>3, <2>4 DEF ReadInv
<1> QED
  BY <1>1, <1>4, <1>5, <1>6, <1>8, <1>9 DEF NetlinkNext

\* Nothing is registered or due before the first reading.
LEMMA NetlinkBegins == NetlinkInit => IInv /\ Registered /\ ReadInv
<1> SUFFICES ASSUME NetlinkInit PROVE IInv /\ Registered /\ ReadInv
  OBVIOUS
<1> USE NullAssumption, LifecyclesAssumption DEF NetlinkInit, NoElementYet
<1>1. TypeOK
  BY EmptySeq, KernelAssumption DEF TypeOK
<1>2. ListsExact /\ SelectedInGroup /\ CountExact /\ NoOrphans
  BY DEF ListsExact, SelectedInGroup, CountExact, NoOrphans, Live
<1>3. GroupsListed /\ DeadClean /\ ParentBefore /\ FreeAtPlace
  BY DEF GroupsListed, DeadClean, ParentBefore, FreeAtPlace, Live
<1>4. Registered
  BY DEF Registered, NoTwins, DeadBlank, LiveAdmitted, Live
<1>5. ReadInv
  BY EmptySeq DEF ReadInv, TodoOK
<1> QED
  BY <1>1, <1>2, <1>3, <1>4, <1>5 DEF IInv, Lists

\* The walks are in order in every reachable state.
LEMMA NetlinkInvariance == NetlinkSpec => [](IInv /\ Registered /\ ReadInv)
BY NetlinkBegins, NetlinkStep, PTL DEF NetlinkSpec

\* One step up from m, which ends at a link.
Above(m) == IF m \in Tc THEN TcParent[m] ELSE m
IsChain(f, n) == /\ f \in [0 .. Cardinality(Tc) -> Names] /\ f[0] = n
                 /\ \A k \in 1 .. Cardinality(Tc) : f[k] = Above(f[k - 1])

\* What n hangs below, up to a link.
LEMMA ChainFacts ==
  ASSUME NEW n \in Names
  PROVE  \E f : /\ IsChain(f, n) /\ f[Cardinality(Tc)] \notin Tc
                /\ IsReported(n) <=> \A k \in 0 .. Cardinality(Tc) : Wanted(f[k])
<1> DEFINE C == Cardinality(Tc)
           St == [k \in 1 .. C |-> [m \in Names |-> Above(m)]]
           G(f) == f = [k \in 0 .. C |-> IF k = 0 THEN n
                                         ELSE IF f[k - 1] \in Tc THEN TcParent[f[k - 1]] ELSE f[k - 1]]
<1>1. C \in Nat /\ \A m \in Names : Above(m) \in Names
  BY TcAssumption, KernelAssumption, FS_CardinalityType DEF Above
<1>2. PICK depth \in [Names -> 0 .. C] : \A t \in Tc : depth[TcParent[t]] < depth[t]
  BY TcAssumption
<1>3. /\ Tc \subseteq Names /\ \A t \in Tc : TcParent[t] \in Names
  BY KernelAssumption
<1>4. IsReported(n) = \A k \in DOMAIN (CHOOSE f : G(f)) :
          /\ (CHOOSE f : G(f))[k] \in Has \cap Admitted
          /\ (CHOOSE f : G(f))[k] \in Links => IsSeen((CHOOSE f : G(f))[k])
  BY Zenon DEF IsReported, Has
<1> HIDE DEF C
<1>5. \E f : G(f)
  <2>1. St \in [1 .. C -> [Names -> Names]]
    BY <1>1
  <2> HIDE DEF St
  <2>2. PICK f \in [0 .. C -> Names] : Follows(f, n, C, St)
    BY <1>1, <2>1, RecursionExists
  <2>3. ASSUME NEW k \in 0 .. C
        PROVE  f[k] = IF k = 0 THEN n ELSE IF f[k - 1] \in Tc THEN TcParent[f[k - 1]] ELSE f[k - 1]
    <3>1. CASE k = 0
      BY <2>2, <3>1 DEF Follows
    <3>2. CASE k # 0
      <4>1. k \in 1 .. C /\ k - 1 \in 0 .. C
        BY <1>1, <3>2
      <4>2. f[k - 1] \in Names /\ f[k] = St[k][f[k - 1]]
        BY <2>2, <4>1 DEF Follows
      <4> QED
        BY <3>2, <4>1, <4>2 DEF St, Above
    <3> QED
      BY <3>1, <3>2
  <2>4. G(f)
    BY <2>3
  <2> QED
    BY <2>4
<1> DEFINE f == CHOOSE f : G(f)
<1>6. G(f)
  <2> HIDE DEF G
  <2> QED
    BY <1>5
<1>7. /\ DOMAIN f = 0 .. C
      /\ \A k \in 0 .. C : f[k] = IF k = 0 THEN n
                                  ELSE IF f[k - 1] \in Tc THEN TcParent[f[k - 1]] ELSE f[k - 1]
  BY <1>6
<1>8. f = [k \in DOMAIN f |-> f[k]]
  BY <1>6
<1>9. IsReported(n) = \A k \in 0 .. C : Wanted(f[k])
  BY <1>4, <1>7 DEF Wanted
<1> HIDE DEF f, G
<1>10. f[0] = n /\ \A k \in 1 .. C : f[k] = Above(f[k - 1])
  BY <1>1, <1>7 DEF Above
<1> DEFINE P(m) == f[m] \in Names /\ (f[m] \in Tc => depth[f[m]] + m <= C)
           I == {m \in Nat : m <= C => P(m)}
<1>11. P(0)
  BY <1>1, <1>2, <1>10
<1>12. ASSUME NEW m \in Nat, m + 1 <= C, P(m) PROVE P(m + 1)
  <2>1. m + 1 \in 1 .. C /\ (m + 1) - 1 = m
    BY <1>1, <1>12
  <2>2. f[m + 1] = Above(f[m])
    BY <1>10, <2>1
  <2>3. f[m + 1] \in Names
    BY <1>1, <1>12, <2>2
  <2>4. ASSUME f[m + 1] \in Tc PROVE depth[f[m + 1]] + (m + 1) <= C
    <3>1. f[m] \in Tc /\ f[m + 1] = TcParent[f[m]]
      BY <2>2, <2>4 DEF Above
    <3>2. depth[f[m + 1]] < depth[f[m]] /\ depth[f[m]] + m <= C
      BY <1>2, <1>12, <3>1
    <3>3. depth[f[m + 1]] \in 0 .. C /\ depth[f[m]] \in 0 .. C
      BY <1>2, <1>12, <2>3
    <3> QED
      BY <1>1, <3>2, <3>3
  <2> QED
    BY <2>3, <2>4
<1>13. \A m \in 0 .. C : P(m)
  <2>1. 0 \in I
    BY <1>11
  <2>2. \A m \in Nat : m \in I => m + 1 \in I
    <3> HIDE DEF P
    <3> QED
      BY <1>1, <1>12
  <2> HIDE DEF P
  <2>3. I = Nat
    <3> HIDE DEF I
    <3>1. \A m \in Nat : m \in I
      BY <2>1, <2>2, NatSetInduction
    <3> QED
      BY <3>1 DEF I
  <2> QED
    BY <1>1, <2>3
<1>14. f[C] \notin Tc
  <2> SUFFICES ASSUME f[C] \in Tc PROVE FALSE
    OBVIOUS
  <2>1. depth[f[C]] + C <= C /\ depth[f[C]] \in 0 .. C /\ depth[TcParent[f[C]]] \in 0 .. C
    BY <1>1, <1>2, <1>3, <1>13
  <2> QED
    BY <1>1, <1>2, <2>1
<1>15. IsChain(f, n)
  <2>1. f \in [0 .. C -> Names]
    BY <1>7, <1>8, <1>13
  <2> QED
    BY <1>10, <2>1 DEF IsChain, C
<1> QED
  BY <1>9, <1>14, <1>15 DEF C

\* Nothing is left to do for a walk that has come to its end: what has been
\* updated is what is to be reported.
LEMMA OnlyWhatIsReported ==
  ASSUME Underway, NEW n \in Names, Updated(n) # {}
  PROVE  IsReported(n)
<1> DEFINE C == Cardinality(Tc)
           U(m) == Updated(m) # {}
<1>1. PICK f : /\ IsChain(f, n) /\ f[C] \notin Tc
               /\ IsReported(n) <=> \A k \in 0 .. C : Wanted(f[k])
  BY ChainFacts
<1>2. /\ C \in Nat /\ f[0] = n
      /\ \A k \in 0 .. C : f[k] \in Names
      /\ \A k \in 1 .. C : f[k] = Above(f[k - 1])
  BY <1>1, TcAssumption, FS_CardinalityType DEF IsChain
<1>3. \A m \in Names : U(m) => Wanted(m) /\ (m \in Tc => U(TcParent[m]))
  BY DEF Underway, UpdatedRightly
<1> HIDE DEF C
<1> DEFINE I == {k \in Nat : k <= C => U(f[k])}
<1>4. 0 \in I
  BY <1>2
<1> HIDE DEF U
<1>5. ASSUME NEW k \in Nat, k \in I PROVE k + 1 \in I
  <2> SUFFICES ASSUME k + 1 <= C PROVE U(f[k + 1])
    OBVIOUS
  <2>1. k + 1 \in 1 .. C /\ (k + 1) - 1 = k /\ k \in 0 .. C /\ k <= C
    BY <1>2
  <2>2. U(f[k]) /\ f[k + 1] = Above(f[k]) /\ f[k] \in Names
    BY <1>2, <1>5, <2>1
  <2> QED
    BY <1>3, <2>2 DEF Above
<1>6. \A k \in Nat : k \in I
  <2> HIDE DEF I
  <2> QED
    BY <1>4, <1>5, NatSetInduction
<1>7. \A k \in 0 .. C : Wanted(f[k])
  BY <1>2, <1>3, <1>6
<1> QED
  BY <1>1, <1>7 DEF C

\* When nothing is left to visit, what is updated is what should be reported.
LEMMA UpdatedIsReported ==
  ASSUME Underway, todo = <<>>, NEW n \in Names
  PROVE  Updated(n) # {} <=> IsReported(n)
<1> DEFINE C == Cardinality(Tc)
           U(m) == Updated(m) # {}
<1>1. PICK f : /\ IsChain(f, n) /\ f[C] \notin Tc
               /\ IsReported(n) <=> \A k \in 0 .. C : Wanted(f[k])
  BY ChainFacts
<1>2. /\ C \in Nat /\ f[0] = n
      /\ \A k \in 0 .. C : f[k] \in Names
      /\ \A k \in 1 .. C : f[k] = Above(f[k - 1])
  BY <1>1, TcAssumption, FS_CardinalityType DEF IsChain
<1>3. \A m \in Names : Wanted(m) /\ (m \in Tc => U(TcParent[m])) => U(m)
  BY DEF Underway, NoneMissed, Pending
<1> HIDE DEF C, U
<1>4. ASSUME \A k \in 0 .. C : Wanted(f[k]) PROVE U(n)
  <2> DEFINE I == {j \in Nat : j <= C => U(f[C - j])}
  <2>1. 0 \in I
    <3>1. C - 0 = C /\ C \in 0 .. C
      BY <1>2
    <3>2. U(f[C])
      BY <1>1, <1>2, <1>3, <1>4, <3>1 DEF C
    <3> QED
      BY <3>1, <3>2
  <2>2. ASSUME NEW j \in Nat, j \in I PROVE j + 1 \in I
    <3> SUFFICES ASSUME j + 1 <= C PROVE U(f[C - (j + 1)])
      OBVIOUS
    <3> DEFINE k == C - (j + 1)
    <3>1. k \in 0 .. C /\ k + 1 \in 1 .. C /\ (k + 1) - 1 = k /\ k + 1 = C - j /\ j <= C
      BY <1>2
    <3> HIDE DEF k
    <3>2. U(f[k + 1]) /\ f[k + 1] = Above(f[k]) /\ f[k] \in Names /\ Wanted(f[k])
      BY <1>2, <1>4, <2>2, <3>1
    <3>3. U(f[k])
      BY <1>3, <3>2 DEF Above
    <3> QED
      BY <3>3 DEF k
  <2>3. \A j \in Nat : j \in I
    <3> HIDE DEF I
    <3> QED
      BY <2>1, <2>2, NatSetInduction
  <2>4. C - C = 0 /\ C \in Nat /\ C <= C
    BY <1>2
  <2> QED
    BY <1>2, <2>3, <2>4
<1> QED
  BY <1>1, <1>4, OnlyWhatIsReported DEF C, U

\* Whatever the kernel had at the readings before, in which order, below which
\* masters and with which twins left of them, a reading takes the whole tree of
\* links and traffic control to elements, each once and below its parent.
THEOREM ReadsAlwaysWhole == NetlinkSpec => []ReadsWhole
<1>1. ReadInv => ReadsWhole
  <2> SUFFICES ASSUME Underway, todo = <<>>, NEW n \in Names
               PROVE  /\ Cardinality(Updated(n)) = IF IsReported(n) THEN 1 ELSE 0
                      /\ n \in Tc => \A e \in Updated(n) : e_parent[e] \in Updated(TcParent[n])
    BY DEF ReadInv, ReadsWhole
  <2>1. n \in Tc => \A e \in Updated(n) : e_parent[e] \in Updated(TcParent[n])
    BY DEF Underway, UpdatedRightly
  <2>2. CASE Updated(n) = {}
    <3>1. ~IsReported(n)
      BY <2>2, UpdatedIsReported
    <3> QED
      BY <2>1, <2>2, <3>1, FS_EmptySet
  <2>3. CASE Updated(n) # {}
    <3>1. IsReported(n)
      BY <2>3, UpdatedIsReported
    <3>2. PICK e \in Updated(n) : Updated(n) = {e}
      BY <2>3 DEF Underway, UpdatedOnce
    <3>3. Cardinality(Updated(n)) = 1
      BY <3>2, FS_Singleton
    <3> QED
      BY <2>1, <3>1, <3>3
  <2> QED
    BY <2>2, <2>3
<1> QED
  BY <1>1, NetlinkInvariance, PTL

\* The netlink input does to elements what Elements allows any input to do, and
\* nothing else, so that what holds of every reading there holds of its readings.
THEOREM NetlinkIsObserving == NetlinkSpec => [][Next]_vars
<1>1. ReadInv /\ [NetlinkNext]_<<vars, caches>> => [Next]_vars
  BY IsElementsStep
<1> QED
  BY <1>1, NetlinkInvariance, PTL DEF NetlinkSpec

-----------------------------------------------------------------------------
(***************************************************************************)
(* Settles.  Where a link belongs follows from where its master does, from  *)
(* the links without a master up; of a pair, the one that is there first    *)
(* belongs at top level.                                                    *)
(***************************************************************************)
Master(l) == kernel.master[l]
Tops(l) == Lookup(Grp, l, NoElement)

Ranks(depth) ==
    /\ depth \in [Links -> 0 .. Cardinality(Links) - 1]
    /\ \A l \in Links : \/ Master(l) = NoName
                        \/ depth[Master(l)] < depth[l]
                        \/ (Master(l) # l /\ Master(Master(l)) = l /\ depth[l] > 0)
Depth == CHOOSE depth : Ranks(depth)

\* The ends of a pair that are both to be reported.
Paired(l) ==
    /\ Wanted(l) /\ Wanted(Master(l))
    /\ Master(l) \in Links /\ Master(l) # l /\ Master(Master(l)) = l

Winners == {l \in Links : Paired(l) /\ Tops(l) # {}}
Belongs(k) ==
    /\ k \in [Links -> BOOLEAN]
    /\ \A l \in Links : k[l] <=> /\ Wanted(l)
                                 /\ IF Paired(l) THEN l \in Winners ELSE Master(l) = NoName \/ ~k[Master(l)]
AtTop == CHOOSE k : Belongs(k)

\* A link stands higher than its master, unless they are a pair.
LEMMA DepthFacts ==
  ASSUME kernel \in Kernels
  PROVE  /\ Cardinality(Links) \in Nat
         /\ Depth \in [Links -> 0 .. Cardinality(Links) - 1]
         /\ \A l \in Links :
               /\ Depth[l] \in Nat /\ Depth[l] < Cardinality(Links) /\ l # NoName
               /\ Master(l) # NoName => Master(l) \in Links /\ Depth[l] > 0
               /\ \/ Master(l) = NoName \/ Depth[Master(l)] < Depth[l]
                  \/ (Master(l) # l /\ Master(Master(l)) = l)
<1>1. /\ Cardinality(Links) \in Nat /\ kernel.master \in [Links -> Links \cup {NoName}]
      /\ \A l \in Links : l # NoName
  BY MasterAssumption, KernelAssumption, NullAssumption, FS_CardinalityType
<1>2. \E depth : Ranks(depth)
  <2>1. PICK depth \in [Links -> 0 .. Cardinality(Links) - 1] :
           \A l \in Links : LET m == kernel.master[l]
                            IN  \/ m = NoName
                                \/ depth[m] < depth[l]
                                \/ (m # l /\ kernel.master[m] = l /\ depth[l] > 0)
    BY MasterAssumption
  <2>2. Ranks(depth)
    BY <2>1 DEF Ranks, Master
  <2> QED
    BY <2>2
<1>3. Ranks(Depth)
  BY <1>2 DEF Depth
<1> QED
  <2>1. Depth \in [Links -> 0 .. Cardinality(Links) - 1]
    BY <1>3 DEF Ranks
  <2> SUFFICES ASSUME NEW l \in Links
               PROVE  /\ Depth[l] \in Nat /\ Depth[l] < Cardinality(Links) /\ l # NoName
                      /\ Master(l) # NoName => Master(l) \in Links /\ Depth[l] > 0
                      /\ \/ Master(l) = NoName \/ Depth[Master(l)] < Depth[l]
                         \/ (Master(l) # l /\ Master(Master(l)) = l)
    BY <1>1, <2>1
  <2>2. Depth[l] \in 0 .. Cardinality(Links) - 1
    BY <2>1
  <2>3. Master(l) # NoName => Master(l) \in Links
    BY <1>1 DEF Master
  <2>4. \/ Master(l) = NoName
        \/ Depth[Master(l)] < Depth[l]
        \/ (Master(l) # l /\ Master(Master(l)) = l /\ Depth[l] > 0)
    BY <1>3 DEF Ranks
  <2>5. Master(l) \in Links => Depth[Master(l)] \in 0 .. Cardinality(Links) - 1
    BY <2>1
  <2> QED
    BY <1>1, <2>2, <2>3, <2>4, <2>5

\* Of a pair, both are, and one is the master of the other.
LEMMA PairFacts ==
  ASSUME kernel \in Kernels, NEW l \in Links, Paired(l)
  PROVE  /\ Master(l) \in Links /\ Master(l) # l /\ Master(Master(l)) = l /\ Paired(Master(l))
         /\ Wanted(l) /\ Wanted(Master(l)) /\ Depth[l] > 0
<1>1. /\ Master(l) \in Links /\ Master(l) # l /\ Master(Master(l)) = l
      /\ Wanted(l) /\ Wanted(Master(l)) /\ Master(l) # NoName
  BY DepthFacts DEF Paired
<1> QED
  BY <1>1, DepthFacts DEF Paired

\* There is a place for every link.
LEMMA PlacesExist ==
  ASSUME kernel \in Kernels
  PROVE  Belongs(AtTop)
<1> DEFINE N == Cardinality(Links)
           X == [Links -> BOOLEAN]
           Next1(x) == [l \in Links |-> /\ Wanted(l)
                                        /\ IF Paired(l) THEN l \in Winners ELSE Master(l) = NoName \/ ~x[Master(l)]]
           F == [k \in 1 .. N + 1 |-> [x \in X |-> Next1(x)]]
           start == [l \in Links |-> FALSE]
<1>1. N \in Nat /\ N + 1 \in Nat
  BY DepthFacts
<1>2. start \in X /\ F \in [1 .. N + 1 -> [X -> X]]
  <2>1. ASSUME NEW x \in X PROVE Next1(x) \in X
    <3>1. \A l \in Links : (/\ Wanted(l)
                            /\ IF Paired(l) THEN l \in Winners ELSE Master(l) = NoName \/ ~x[Master(l)]) \in BOOLEAN
      OBVIOUS
    <3> QED
      BY <3>1
  <2> HIDE DEF Next1, X
  <2>2. [x \in X |-> Next1(x)] \in [X -> X]
    BY <2>1
  <2>3. F \in [1 .. N + 1 -> [X -> X]]
    BY <2>2
  <2> QED
    BY <2>3 DEF X
<1>3. PICK f \in [0 .. N + 1 -> X] : Follows(f, start, N + 1, F)
  <2> HIDE DEF F, X, start, N
  <2> QED
    BY <1>1, <1>2, RecursionExists
<1>4. ASSUME NEW k \in Nat, k <= N
      PROVE  /\ f[k] \in X /\ f[k + 1] \in X
             /\ \A l \in Links : f[k + 1][l] <=>
                   /\ Wanted(l)
                   /\ IF Paired(l) THEN l \in Winners ELSE Master(l) = NoName \/ ~f[k][Master(l)]
  <2>1. k \in 0 .. N + 1 /\ k + 1 \in 1 .. N + 1 /\ k + 1 \in 0 .. N + 1 /\ (k + 1) - 1 = k
    BY <1>1, <1>4
  <2>2. f[k] \in X /\ f[k + 1] \in X
    BY <1>3, <2>1
  <2>3. f[k + 1] = F[k + 1][f[k]]
    BY <1>3, <2>1 DEF Follows
  <2>4. F[k + 1][f[k]] = Next1(f[k])
    <3> HIDE DEF X, Next1
    <3> QED
      BY <2>1, <2>2
  <2>5. f[k + 1] = Next1(f[k])
    BY <2>3, <2>4, Zenon
  <2> HIDE DEF F, X
  <2> QED
    BY <2>2, <2>5
<1> DEFINE P(k) == \A l \in Links : Depth[l] < k => (f[k + 1][l] <=> f[k][l])
           I == {k \in Nat : k <= N => P(k)}
<1> HIDE DEF X, F, start
<1>5. 0 \in I
  BY DepthFacts
<1>6. ASSUME NEW k \in Nat, k \in I PROVE k + 1 \in I
  <2> SUFFICES ASSUME k + 1 <= N, NEW l \in Links, Depth[l] < k + 1
               PROVE  f[k + 2][l] <=> f[k + 1][l]
    BY <1>1
  <2>1. P(k) /\ k <= N /\ (k + 1) + 1 = k + 2 /\ k + 1 \in Nat
    BY <1>1, <1>6
  <2>2. /\ f[k + 2][l] <=> /\ Wanted(l)
                           /\ IF Paired(l) THEN l \in Winners ELSE Master(l) = NoName \/ ~f[k + 1][Master(l)]
        /\ f[k + 1][l] <=> /\ Wanted(l)
                           /\ IF Paired(l) THEN l \in Winners ELSE Master(l) = NoName \/ ~f[k][Master(l)]
    <3>1. \A j \in Nat : j <= N => (f[j + 1][l] <=>
              /\ Wanted(l)
              /\ IF Paired(l) THEN l \in Winners ELSE Master(l) = NoName \/ ~f[j][Master(l)])
      BY <1>4
    <3> QED
      BY <2>1, <3>1
  <2>3. CASE Wanted(l) /\ ~Paired(l) /\ Master(l) # NoName
    <3> DEFINE m == Master(l)
    <3>1. m \in Links /\ (Depth[m] < Depth[l] \/ (m # l /\ Master(m) = l)) /\ Depth[l] > 0 /\ Depth[l] \in Nat
      BY <2>3, DepthFacts
    <3>2. CASE Depth[m] < Depth[l]
      <4>1. Depth[m] < k
        BY <3>1, <3>2, DepthFacts
      <4> QED
        BY <2>1, <2>2, <3>1, <4>1
    <3>3. CASE m # l /\ Master(m) = l
      <4>1. ~Wanted(m)
        BY <2>3, <3>1, <3>3 DEF Paired
      <4>2. k - 1 \in Nat /\ k - 1 <= N /\ (k - 1) + 1 = k
        BY <1>1, <2>1, <3>1
      <4>3. ~f[k + 1][m] /\ ~f[(k - 1) + 1][m]
        <5>1. \A j \in Nat : j <= N => ~f[j + 1][m]
          BY <1>4, <3>1, <4>1
        <5> QED
          BY <2>1, <4>2, <5>1
      <4> QED
        BY <2>2, <4>2, <4>3
    <3> QED
      BY <3>1, <3>2, <3>3
  <2> QED
    BY <2>2, <2>3
<1>7. P(N)
  <2>1. \A k \in Nat : k \in I
    <3> HIDE DEF I
    <3> QED
      BY <1>5, <1>6, NatSetInduction
  <2> QED
    BY <1>1, <2>1
<1>8. Belongs(f[N])
  <2>1. /\ f[N] \in X
        /\ \A l \in Links : f[N + 1][l] <=>
              /\ Wanted(l)
              /\ IF Paired(l) THEN l \in Winners ELSE Master(l) = NoName \/ ~f[N][Master(l)]
    BY <1>1, <1>4
  <2>2. \A l \in Links : f[N + 1][l] <=> f[N][l]
    BY <1>7, DepthFacts
  <2> QED
    BY <2>1, <2>2 DEF Belongs, X
<1> QED
  BY <1>8 DEF AtTop

\* Where a link belongs, and where its master does.
LEMMA PlaceFacts ==
  ASSUME kernel \in Kernels, NEW l \in Links
  PROVE  /\ AtTop[l] \in BOOLEAN
         /\ AtTop[l] => Wanted(l)
         /\ Paired(l) => (AtTop[l] <=> Tops(l) # {})
         /\ ~Paired(l) /\ AtTop[l] /\ Master(l) # NoName => Master(l) \in Links /\ ~AtTop[Master(l)]
         /\ ~Paired(l) /\ ~AtTop[l] /\ Wanted(l) => Master(l) \in Links /\ AtTop[Master(l)]
<1>1. Belongs(AtTop)
  BY PlacesExist
<1>2. Master(l) # NoName => Master(l) \in Links
  BY DepthFacts
<1>3. AtTop \in [Links -> BOOLEAN] /\ (AtTop[l] <=>
        /\ Wanted(l)
        /\ IF Paired(l) THEN l \in Winners ELSE Master(l) = NoName \/ ~AtTop[Master(l)])
  BY <1>1 DEF Belongs
<1>4. Paired(l) => (l \in Winners <=> Tops(l) # {})
  BY DEF Winners
<1>5. AtTop[l] \in BOOLEAN
  BY <1>3
<1>6. AtTop[l] => Wanted(l)
  BY <1>3
<1>7. Paired(l) => (AtTop[l] <=> Tops(l) # {})
  BY <1>3, <1>4 DEF Paired
<1>8. ~Paired(l) => (AtTop[l] <=> Wanted(l) /\ (Master(l) = NoName \/ ~AtTop[Master(l)]))
  BY <1>3
<1> QED
  BY <1>2, <1>5, <1>6, <1>7, <1>8

\* Of links low down that are no pair this only depends on what the kernel has.
LEMMA LowFacts ==
  ASSUME kernel \in Kernels, NEW l \in Links, ~Paired(l), Depth[l] < 2
  PROVE  AtTop[l] <=> Wanted(l) /\ (Master(l) = NoName \/ ~Wanted(Master(l)))
<1> DEFINE m == Master(l)
<1>1. SUFFICES ASSUME Wanted(l), m # NoName PROVE AtTop[l] <=> ~Wanted(m)
  <2>1. NoName \notin Links
    BY DepthFacts
  <2> QED
    BY <1>1, <2>1, PlaceFacts
<1>2. m \in Links /\ Depth[l] \in Nat /\ Depth[m] \in Nat
  BY <1>1, DepthFacts
<1>3. AtTop[l] <=> ~AtTop[m]
  BY <1>1, <1>2, PlaceFacts
<1>4. AtTop[m] => Wanted(m)
  BY <1>2, PlaceFacts
<1>5. CASE Depth[m] < Depth[l]
  <2>1. Depth[m] = 0
    BY <1>2, <1>5
  <2>2. Master(m) = NoName
    BY <1>2, <2>1, DepthFacts
  <2>3. ~Paired(m)
    BY <1>2, <2>2, PairFacts, DepthFacts
  <2>4. Wanted(m) => AtTop[m]
    BY <1>2, <2>2, <2>3, PlaceFacts, DepthFacts
  <2> QED
    BY <1>3, <1>4, <2>4
<1>6. CASE m # l /\ Master(m) = l
  <2>1. ~Wanted(m)
    BY <1>1, <1>2, <1>6 DEF Paired
  <2> QED
    BY <1>3, <1>4, <2>1
<1> QED
  BY <1>1, <1>5, <1>6, DepthFacts

(***************************************************************************)
(* From which calm reading on a link is put right: one at top level is, as   *)
(* soon as the elements its master had there have been dropped; one below   *)
(* its master, as soon as that has been put right.                          *)
(***************************************************************************)
Up(h) == Lifecycles * ((h + 1) \div 2) - (h % 2)
Down(h) == Lifecycles * (h \div 2) + (h % 2)
From(l) == IF Paired(l) THEN Lifecycles - 1 ELSE IF AtTop[l] THEN Up(Depth[l]) ELSE Down(Depth[l])

\* After which calm reading no element of a link that belongs below another is
\* put at top level.
Lost(l) == IF Wanted(l) THEN Down(Depth[l]) ELSE 0

Halved(h, k) == \/ h = 2 * k /\ Up(h) = Lifecycles * k /\ Down(h) = Lifecycles * k
                \/ /\ h = 2 * k + 1 /\ Up(h) = Lifecycles * k + Lifecycles - 1
                   /\ Down(h) = Lifecycles * k + 1

\* Times by halves.
LEMMA HalfTimes ==
  ASSUME NEW h \in Nat, Lifecycles > 1
  PROVE  /\ Up(h) \in Nat /\ Down(h) \in Nat
         /\ \E k \in Nat : Halved(h, k)
<1> DEFINE k == h \div 2
           r == h % 2
<1>1. h = 2 * k + r /\ k \in Int /\ r \in 0 .. 1
  BY DivMod
<1>2. k \in Nat /\ Lifecycles \in Nat /\ Lifecycles * k \in Nat /\ Lifecycles * (k + 1) = Lifecycles * k + Lifecycles
  <2>1. k \in Nat /\ Lifecycles \in Nat
    BY <1>1, LifecyclesAssumption
  <2> HIDE DEF k
  <2>2. \A x, y \in Nat : x * y \in Nat /\ x * (y + 1) = x * y + x
    OBVIOUS
  <2> QED
    BY <2>1, <2>2
<1>3. Down(h) = Lifecycles * k + r
  BY DEF Down
<1>4. (h + 1) \div 2 = k + r
  BY <1>1
<1>5. Up(h) = Lifecycles * (k + r) - r
  BY <1>4 DEF Up
<1> HIDE DEF k, r
<1>6. CASE r = 0
  <2>1. h = 2 * k /\ Up(h) = Lifecycles * k /\ Down(h) = Lifecycles * k
    BY <1>1, <1>2, <1>3, <1>5, <1>6
  <2> QED
    BY <1>2, <2>1 DEF Halved
<1>7. CASE r = 1
  <2>1. /\ h = 2 * k + 1 /\ Up(h) = Lifecycles * k + Lifecycles - 1
        /\ Down(h) = Lifecycles * k + 1
    BY <1>1, <1>2, <1>3, <1>5, <1>7
  <2> QED
    BY <1>2, <2>1 DEF Halved
<1> QED
  BY <1>1, <1>6, <1>7

\* Each step up takes its time, and all of them no more than SettleTime.
LEMMA TimeFacts ==
  ASSUME NEW g \in Nat, NEW h \in Nat, g < h, Lifecycles > 1
  PROVE  /\ Up(h) >= Down(g) + Lifecycles - 1
         /\ Down(h) >= Up(g) + 1
         /\ Up(h) >= Lifecycles - 1
         /\ h > 1 => Up(h) >= Lifecycles /\ Down(h) >= Lifecycles
         /\ Lifecycles * ((h + 1) \div 2) >= Up(g) + 1
         /\ Lifecycles * ((h + 1) \div 2) >= Down(g) + Lifecycles - 1
         /\ Lifecycles * ((h + 1) \div 2) >= Lifecycles
<1>2. PICK k \in Nat : Halved(g, k)
  BY HalfTimes
<1>3. PICK m \in Nat : Halved(h, m)
  BY HalfTimes
<1> DEFINE L == Lifecycles
<1>1. L \in Nat /\ L > 1
  BY LifecyclesAssumption
<1>4. L * ((h + 1) \div 2) = IF h = 2 * m THEN L * m ELSE L * m + L
  <2>1. (h + 1) \div 2 = IF h = 2 * m THEN m ELSE m + 1
    <3>1. h = 2 * m \/ h = 2 * m + 1
      BY <1>3 DEF Halved
    <3> QED
      BY <3>1
  <2>2. \A x, y \in Nat : x * (y + 1) = x * y + x
    OBVIOUS
  <2>3. L * (m + 1) = L * m + L
    BY <1>1, <2>2
  <2> HIDE DEF L
  <2> QED
    BY <2>1, <2>3
<1> HIDE DEF L
<1> DEFINE T(x) == L * x
<1>5. /\ \A x \in Nat : T(x) \in Nat
      /\ \A x, y \in Nat : x < y => T(y) >= T(x) + L
      /\ \A x, y \in Nat : x = y => T(y) = T(x)
      /\ T(0) = 0
  <2>1. ASSUME NEW x \in Nat, NEW y \in Nat, x < y PROVE T(y) >= T(x) + L
    <3>1. PICK z \in Nat : y = (x + 1) + z
      <4>1. y - (x + 1) \in Nat /\ y = (x + 1) + (y - (x + 1))
        BY <2>1
      <4> QED
        BY <4>1
    <3>2. \A u, v, w \in Nat : w * ((u + 1) + v) = w * u + w + w * v /\ w * v \in Nat
      OBVIOUS
    <3>3. T(y) = T(x) + L + L * z /\ L * z \in Nat /\ T(x) \in Nat
      BY <1>1, <3>1, <3>2
    <3> HIDE DEF T
    <3> QED
      BY <1>1, <3>3
  <2>2. \A u, w \in Nat : w * u \in Nat /\ w * 0 = 0
    OBVIOUS
  <2> QED
    BY <1>1, <2>1, <2>2
<1>6. /\ \/ g = 2 * k /\ Up(g) = T(k) /\ Down(g) = T(k)
         \/ g = 2 * k + 1 /\ Up(g) = T(k) + L - 1 /\ Down(g) = T(k) + 1
      /\ \/ h = 2 * m /\ Up(h) = T(m) /\ Down(h) = T(m)
         \/ h = 2 * m + 1 /\ Up(h) = T(m) + L - 1 /\ Down(h) = T(m) + 1
      /\ L * ((h + 1) \div 2) = IF h = 2 * m THEN T(m) ELSE T(m) + L
  BY <1>2, <1>3, <1>4 DEF Halved, T, L
<1> DEFINE S == L * ((h + 1) \div 2)
<1>7. S = IF h = 2 * m THEN T(m) ELSE T(m) + L
  BY <1>6
<1> HIDE DEF T, S
<1>8. /\ T(k) \in Nat /\ T(m) \in Nat
      /\ k < m => T(m) >= T(k) + L
      /\ k = m => T(m) = T(k)
      /\ m > 0 => T(m) >= L
  <2>1. 0 \in Nat /\ T(0) \in Nat
    BY <1>5
  <2>2. m > 0 => T(m) >= T(0) + L
    BY <1>5, <2>1
  <2> QED
    BY <1>1, <1>5, <2>1, <2>2
<1>9. CASE g = 2 * k /\ h = 2 * m
  <2>1. k < m
    BY <1>9
  <2> QED
    BY <1>1, <1>6, <1>7, <1>8, <1>9, <2>1 DEF S, L
<1>10. CASE g = 2 * k + 1 /\ h = 2 * m
  <2>1. k < m
    BY <1>10
  <2> QED
    BY <1>1, <1>6, <1>7, <1>8, <1>10, <2>1 DEF S, L
<1>11. CASE g = 2 * k /\ h = 2 * m + 1
  <2>1. k < m \/ k = m
    BY <1>11
  <2> QED
    BY <1>1, <1>6, <1>7, <1>8, <1>11, <2>1 DEF S, L
<1>12. CASE g = 2 * k + 1 /\ h = 2 * m + 1
  <2>1. k < m
    BY <1>12
  <2> QED
    BY <1>1, <1>6, <1>7, <1>8, <1>12, <2>1 DEF S, L
<1> QED
  BY <1>6, <1>9, <1>10, <1>11, <1>12

\* Each link is put right after the one it depends on, all of them in SettleTime.
InTime(l) ==
    /\ From(l) \in Nat /\ Lost(l) \in Nat
    /\ From(l) + 1 <= SettleTime /\ Lifecycles <= SettleTime
    /\ Lost(l) + Lifecycles - 1 <= SettleTime
    /\ ~Paired(l) /\ AtTop[l] /\ Master(l) # NoName => From(l) >= Lost(Master(l)) + Lifecycles - 1
    /\ ~Paired(l) /\ Wanted(l) /\ ~AtTop[l] => From(l) >= From(Master(l)) + 1
    /\ ~Paired(l) /\ Depth[l] > 1 => From(l) >= Lifecycles /\ (Wanted(l) => Lost(l) >= Lifecycles)

\* Where a link belongs.
InOrder(l) ==
    /\ AtTop[l] \in BOOLEAN /\ l # NoName
    /\ Master(l) # NoName => Master(l) \in Links
    /\ AtTop[l] => Wanted(l)
    /\ Paired(l) => /\ AtTop[l] <=> Tops(l) # {}
                    /\ Master(l) \in Links /\ Master(l) # l /\ Master(Master(l)) = l /\ Paired(Master(l))
                    /\ Wanted(l) /\ Wanted(Master(l)) /\ From(l) = Lifecycles - 1
    /\ ~Paired(l) /\ AtTop[l] /\ Master(l) # NoName => ~AtTop[Master(l)]
    /\ ~Paired(l) /\ ~AtTop[l] /\ Wanted(l) => Master(l) \in Links /\ AtTop[Master(l)]
    /\ ~Paired(l) /\ ~(Depth[l] > 1) => (AtTop[l] <=> Wanted(l) /\ (Master(l) = NoName \/ ~Wanted(Master(l))))

\* Links are in order, in time.
LEMMA LinkFacts == kernel \in Kernels /\ Lifecycles > 1 => \A l \in Links : InOrder(l) /\ InTime(l)
<1> SUFFICES ASSUME kernel \in Kernels, Lifecycles > 1, NEW l \in Links PROVE InOrder(l) /\ InTime(l)
  OBVIOUS
<1> DEFINE N == Cardinality(Links)
           d == Depth[l]
           m == Master(l)
<1>1. /\ N \in Nat /\ d \in Nat /\ d < N /\ l # NoName
      /\ m # NoName => m \in Links /\ d > 0 /\ Depth[m] \in Nat
      /\ m = NoName \/ Depth[m] < d \/ (m # l /\ Master(m) = l)
      /\ Lifecycles \in Nat
  BY DepthFacts, LifecyclesAssumption
<1>2. /\ AtTop[l] \in BOOLEAN
      /\ AtTop[l] => Wanted(l)
      /\ Paired(l) => (AtTop[l] <=> Tops(l) # {})
      /\ ~Paired(l) /\ AtTop[l] /\ m # NoName => m \in Links /\ ~AtTop[m]
      /\ ~Paired(l) /\ ~AtTop[l] /\ Wanted(l) => m \in Links /\ AtTop[m]
  BY PlaceFacts
<1>3. Paired(l) => /\ m \in Links /\ m # l /\ Master(m) = l /\ Paired(m)
                   /\ Wanted(l) /\ Wanted(m) /\ d > 0
  BY PairFacts
<1>4. Paired(l) => From(l) = Lifecycles - 1
  BY DEF From
<1>5. ~Paired(l) /\ ~(d > 1) => (AtTop[l] <=> Wanted(l) /\ (m = NoName \/ ~Wanted(m)))
  <2>1. ~(d > 1) => d < 2
    BY <1>1
  <2> QED
    BY <2>1, LowFacts
<1>6. InOrder(l)
  BY <1>1, <1>2, <1>3, <1>4, <1>5 DEF InOrder
<1>7. /\ SettleTime >= Up(d) + 1 /\ SettleTime >= Down(d) + Lifecycles - 1 /\ SettleTime >= Lifecycles
      /\ Up(d) \in Nat /\ Down(d) \in Nat /\ SettleTime \in Int
  <2>1. Up(d) \in Nat /\ Down(d) \in Nat
    BY <1>1, HalfTimes
  <2>2. /\ Lifecycles * ((N + 1) \div 2) >= Up(d) + 1
        /\ Lifecycles * ((N + 1) \div 2) >= Down(d) + Lifecycles - 1
        /\ Lifecycles * ((N + 1) \div 2) >= Lifecycles
    BY <1>1, TimeFacts
  <2>3. Lifecycles * ((N + 1) \div 2) \in Int
    BY <1>1
  <2> QED
    BY <2>1, <2>2, <2>3 DEF SettleTime
<1>8. /\ From(l) \in Nat /\ Lost(l) \in Nat
      /\ From(l) + 1 <= SettleTime /\ Lifecycles <= SettleTime
      /\ Lost(l) + Lifecycles - 1 <= SettleTime
  BY <1>1, <1>7 DEF From, Lost
<1>9. ASSUME ~Paired(l), AtTop[l], m # NoName PROVE From(l) >= Lost(m) + Lifecycles - 1
  <2>1. From(l) = Up(d) /\ Wanted(l) /\ m \in Links /\ Depth[m] \in Nat /\ d > 0
    BY <1>1, <1>2, <1>9 DEF From
  <2>2. CASE ~Wanted(m)
    <3>1. Up(d) >= Lifecycles - 1
      BY <1>1, <2>1, TimeFacts
    <3> QED
      BY <1>1, <1>7, <2>1, <2>2, <3>1 DEF Lost
  <2>3. CASE Wanted(m)
    <3>1. Depth[m] < d
      BY <1>1, <1>9, <2>1, <2>3 DEF Paired
    <3>2. Up(d) >= Down(Depth[m]) + Lifecycles - 1
      BY <1>1, <2>1, <3>1, TimeFacts
    <3> QED
      BY <2>1, <2>3, <3>2 DEF Lost
  <2> QED
    BY <2>2, <2>3
<1>10. ASSUME ~Paired(l), Wanted(l), ~AtTop[l] PROVE From(l) >= From(m) + 1
  <2>1. From(l) = Down(d) /\ m \in Links /\ AtTop[m] /\ m # NoName
    BY <1>1, <1>2, <1>10, DepthFacts DEF From
  <2>2. Wanted(m)
    BY <2>1, PlaceFacts
  <2>3. Depth[m] < d /\ Depth[m] \in Nat
    BY <1>1, <1>10, <2>1, <2>2 DEF Paired
  <2>4. CASE Paired(m)
    <3>1. Depth[m] > 0 /\ From(m) = Lifecycles - 1
      BY <2>1, <2>4, PairFacts DEF From
    <3>2. d > 1
      BY <1>1, <2>3, <3>1
    <3>3. Down(d) >= Lifecycles
      BY <1>1, <2>3, <3>2, TimeFacts
    <3> QED
      BY <1>1, <2>1, <3>1, <3>3
  <2>5. CASE ~Paired(m)
    <3>1. From(m) = Up(Depth[m])
      BY <2>1, <2>5 DEF From
    <3>2. Down(d) >= Up(Depth[m]) + 1
      BY <1>1, <2>3, TimeFacts
    <3> QED
      BY <2>1, <3>1, <3>2
  <2> QED
    BY <2>4, <2>5
<1>11. ASSUME ~Paired(l), d > 1 PROVE From(l) >= Lifecycles /\ (Wanted(l) => Lost(l) >= Lifecycles)
  <2>1. Up(d) >= Lifecycles /\ Down(d) >= Lifecycles
    <3>1. 0 \in Nat /\ 0 < d
      BY <1>1, <1>11
    <3> QED
      BY <1>1, <1>11, <3>1, TimeFacts
  <2> QED
    BY <1>11, <2>1 DEF From, Lost
<1>12. InTime(l)
  BY <1>8, <1>9, <1>10, <1>11 DEF InTime
<1> QED
  BY <1>6, <1>12

\* So they are after a step.
LEMMA LinkFactsLater == (kernel \in Kernels)' /\ Lifecycles > 1 => \A l \in Links : InOrder(l)' /\ InTime(l)'
<1>1. (kernel \in Kernels /\ Lifecycles > 1 => \A l \in Links : InOrder(l) /\ InTime(l))'
  BY LinkFacts, PTL
<1> QED
  BY <1>1

(***************************************************************************)
(* The inductive invariant.  Wherever the last kernel put an element, its    *)
(* age tells for how long nothing has been reported there, as long as that   *)
(* is not where it belongs; what has been put right stays so.                *)
(***************************************************************************)
OneGroup == \A e \in Elements : Live(e) => e_group[e] = Grp
TcPlaced == \A e \in Elements : e_name[e] \in Tc => /\ e_parent[e] # NoElement
                                                    /\ e_name[e_parent[e]] = TcParent[e_name[e]]
Fresh == \A e \in Elements : e_updated[e] => age[e] = 0

TcRightly == \A t \in Tc : \A e \in Updated(t) : e_parent[e] \in Updated(TcParent[t])
OnlyReported == \A n \in Names : Updated(n) # {} => IsReported(n)
Rightly == UpdatedOnce /\ OnlyReported /\ TcRightly

OnTop == \A l \in Links : ~AtTop[l] => \A e \in Tops(l) : age[e] >= calm - Lost(l)
Unreported == \A e \in Elements : e_name[e] \in Names /\ ~IsReported(e_name[e]) => age[e] >= calm
OffPlace == \A e \in Elements : e_name[e] \in Links /\ e_parent[e] \notin {NoElement} \cup Tops(Master(e_name[e]))
                                  => age[e] >= calm
Twins == \A l \in Links : Paired(l) /\ Tops(Master(l)) # {} => \A e \in Tops(l) : age[e] >= calm
Put == \A l \in Links : calm > From(l) =>
          \A e \in Updated(l) : IF AtTop[l] THEN e_parent[e] = NoElement ELSE e_parent[e] \in Tops(Master(l))
Stay == \A l \in Links : AtTop[l] =>
          /\ pc = "read" /\ calm > From(l) + 1 => Tops(l) # {}
          /\ pc # "read" /\ calm > From(l) => \E e \in Tops(l) : e_updated[e]
OneOfPair == \A l \in Links : Paired(l) /\ (IF pc = "read" THEN calm > Lifecycles ELSE calm >= Lifecycles) =>
                (AtTop[l] <=> ~AtTop[Master(l)])
Kept == pc \in {"reap", "free", "draw"} /\ calm >= SettleTime =>
          \A n \in Names : IsReported(n) => Updated(n) # {}

Settling == OnTop /\ Unreported /\ OffPlace /\ Twins /\ Put /\ Stay /\ OneOfPair /\ Kept
SInv == /\ calm \in Nat /\ OneGroup /\ TcPlaced /\ Fresh
        /\ reading /\ pc # "read" => Rightly
        /\ reading /\ calm > 0 => Settling

\* How old elements get.
LEMMA AgeBound ==
  ASSUME IInv, LInv, Lifecycles > 1, NEW e \in Elements, Live(e)
  PROVE  /\ age[e] \in Nat
         /\ pc \in {"keys", "draw"} => age[e] + 1 < Lifecycles
         /\ pc = "read" => age[e] < Lifecycles
<1>1. age[e] \in Nat /\ Lifecycles \in Nat
  BY LifecyclesAssumption DEF IInv, Lists, TypeOK
<1>2. PICK h \in DOMAIN group_list, i \in DOMAIN order[e_group[e]] : Passed(e) <=> Before(pc, walk, h, i)
  BY PlaceOf DEF LInv
<1>3. Since(e) < Lifecycles \/ pc = "free"
  BY <1>1 DEF LInv, NoneOverdue
<1> QED
  BY <1>1, <1>2, <1>3 DEF Since, Before

\* From the element the walk stands on down to the one that is freed first, each
\* is the parent of the next.
LEMMA VictimChain ==
  ASSUME IInv, Between, NEW g \in Groups, NEW i \in DOMAIN order[g], NEW k \in DOMAIN order[g],
         Victim(order[g], i) = order[g][k], NEW j \in i + 1 .. k
  PROVE  j - 1 \in DOMAIN order[g] /\ e_parent[order[g][j]] = order[g][j - 1]
<1> DEFINE s == order[g]
           childless == {x \in i .. Len(s) : Children(s[x]) = {}}
<1>1. DOMAIN s = 1 .. Len(s) /\ Len(s) \in Nat
  BY LenProperties DEF IInv, Lists, TypeOK
<1>2. k = Min(childless) /\ childless \subseteq Nat /\ childless # {}
  <2>1. Len(s) \in childless
    <3>1. s # <<>> /\ Len(s) \in i .. Len(s)
      BY <1>1, EmptySeq
    <3> QED
      BY <3>1, LastIsChildless
  <2>2. childless \subseteq 0 .. Len(s)
    BY <1>1
  <2>3. Min(childless) \in childless
    BY <1>1, <2>1, <2>2, MinIsLeast
  <2>4. Victim(s, i) = s[Min(childless)]
    BY DEF Victim
  <2>5. Min(childless) \in DOMAIN s
    BY <1>1, <2>2, <2>3
  <2> HIDE DEF childless
  <2>6. k = Min(childless)
    <3> DEFINE c == Min(childless)
    <3>1. c \in DOMAIN s /\ s[k] = s[c]
      BY <2>4, <2>5
    <3> HIDE DEF c
    <3>2. \A m, x \in DOMAIN s : s[m] = s[x] => m = x
      BY DEF IInv, Lists, ListsExact
    <3>3. k = c
      BY ONLY <3>1, <3>2, k \in DOMAIN s
    <3> QED
      BY <3>3 DEF c
  <2> QED
    BY <1>1, <2>1, <2>2, <2>6
<1>3. j - 1 \in DOMAIN s /\ j \in DOMAIN s /\ j - 1 \in i .. Len(s) /\ j - 1 < k /\ i \in Nat
  BY <1>1
<1>4. j - 1 \notin childless
  <2>1. \A x \in childless : k <= x
    <3>1. childless \subseteq 0 .. Len(s)
      BY <1>1
    <3> QED
      BY <1>1, <1>2, <3>1, MinIsLeast
  <2> HIDE DEF childless
  <2> QED
    BY <1>1, <1>3, <2>1
<1>5. PICK c \in Elements : e_parent[c] = s[j - 1]
  BY <1>3, <1>4 DEF Children
<1>6. /\ s[j - 1] \in Elements /\ s[j - 1] # NoElement /\ e_group[s[j - 1]] = g
  <2>1. s[j - 1] \in Elements /\ s[j - 1] # NoElement
    BY <1>3, InList DEF IInv
  <2>2. e_group[s[j - 1]] = g
    BY <1>3 DEF IInv, Lists, ListsExact
  <2> QED
    BY <2>1, <2>2
<1>7. Live(c) /\ e_group[c] = g
  BY <1>5, <1>6 DEF IInv, DeadClean, NoOrphans
<1>8. PICK x \in DOMAIN s : s[x] = c
  BY <1>7 DEF IInv, Lists, ListsExact
<1>9. j - 1 < x
  BY <1>3, <1>5, <1>8 DEF IInv, ParentBefore
<1>10. CASE x = j
  BY <1>3, <1>5, <1>8, <1>10
<1>11. CASE x # j
  <2>1. j \in (j - 1) + 1 .. x - 1
    BY <1>1, <1>3, <1>9, <1>11
  <2>2. PICK m \in j - 1 .. j - 1 : e_parent[s[j]] = s[m]
    BY <1>3, <1>5, <1>8, <2>1 DEF Between
  <2> QED
    BY <1>3, <2>2
<1> QED
  BY <1>10, <1>11

\* What element_free() frees has no children; at top level it has not been
\* updated, nor below what has not been.
LEMMA Freed ==
  ASSUME IInv, LInv, Between, Fresh, Lifecycles > 1, ElementFree
  PROVE  \E v \in Elements :
           /\ Live(v) /\ Children(v) = {}
           /\ e_group' = [e_group EXCEPT ![v] = NoGroup]
           /\ e_parent' = [e_parent EXCEPT ![v] = NoElement]
           /\ e_name' = [e_name EXCEPT ![v] = NoName]
           /\ e_updated' = [e_updated EXCEPT ![v] = FALSE]
           /\ age' = [age EXCEPT ![v] = 0]
           /\ pc = "free" /\ pc' \in {"reap", "free"}
           /\ e_parent[v] = NoElement => ~e_updated[v]
           /\ (\A e \in Elements : e_updated[e] /\ e_parent[e] # NoElement => e_updated[e_parent[e]])
                 => ~e_updated[v]
<1> DEFINE g == group_list[walk.group]
           i == walk.pos
           v == Victim(order[g], i)
<1>1. /\ g \in Groups /\ walk.group \in DOMAIN group_list /\ i \in DOMAIN order[g] /\ IsPlace(walk) /\ pc = "free"
  BY DEF ElementFree, IInv, Lists, FreeAtPlace, IsPlace, TypeOK
<1>2. PICK k \in DOMAIN order[g] : i <= k /\ v = order[g][k] /\ Children(v) = {}
  BY <1>1, VictimFacts
<1>3. /\ e_group' = [e_group EXCEPT ![v] = NoGroup]
      /\ e_parent' = [e_parent EXCEPT ![v] = NoElement]
      /\ e_name' = [e_name EXCEPT ![v] = NoName]
      /\ e_updated' = [e_updated EXCEPT ![v] = FALSE]
      /\ age' = [age EXCEPT ![v] = 0]
      /\ pc' \in {"reap", "free"}
  BY DEF ElementFree
<1>4. /\ Here = order[g][i] /\ Here \in Elements /\ Live(Here) /\ ~e_updated[Here]
  <2>1. Here \in Elements /\ Live(Here) /\ age[Here] >= 1 /\ age[Here] \in Nat
    BY <1>1, HereIsStale
  <2>2. ~e_updated[Here]
    BY <2>1 DEF Fresh
  <2> QED
    BY <2>1, <2>2 DEF Here
<1>5. \A j \in i + 1 .. k : j - 1 \in DOMAIN order[g] /\ e_parent[order[g][j]] = order[g][j - 1]
  BY <1>1, <1>2, VictimChain
<1>6. \A j \in DOMAIN order[g] : order[g][j] \in Elements /\ order[g][j] # NoElement /\ e_group[order[g][j]] = g
  BY <1>1, NullAssumption DEF IInv, Lists, ListsExact, TypeOK
<1>7. i \in Nat /\ k \in Nat /\ k \in i .. k
  <2>1. DOMAIN order[g] = 1 .. Len(order[g])
    BY <1>1, LenProperties DEF IInv, Lists, TypeOK
  <2> QED
    BY <1>1, <1>2, <2>1
<1> HIDE DEF g, i, v
<1>8. v \in Elements /\ Live(v)
  BY <1>1, <1>2, <1>6, NullAssumption DEF Live
<1>9. ASSUME e_parent[v] = NoElement PROVE ~e_updated[v]
  <2>1. CASE k = i
    BY <1>2, <1>4, <2>1
  <2>2. CASE k # i
    <3>1. k \in i + 1 .. k
      BY <1>2, <1>7, <2>2
    <3>2. k - 1 \in DOMAIN order[g] /\ e_parent[v] = order[g][k - 1]
      BY <1>2, <1>5, <3>1
    <3> QED
      BY <1>6, <1>9, <3>2
  <2> QED
    BY <2>1, <2>2
<1>10. ASSUME \A e \in Elements : e_updated[e] /\ e_parent[e] # NoElement => e_updated[e_parent[e]],
              e_updated[v]
       PROVE  FALSE
  <2> DEFINE U == {n \in Nat : n <= k - i => e_updated[order[g][k - n]]}
  <2>1. 0 \in U
    BY <1>2, <1>7, <1>10
  <2>2. ASSUME NEW n \in Nat, n \in U PROVE n + 1 \in U
    <3> SUFFICES ASSUME n + 1 <= k - i PROVE e_updated[order[g][k - (n + 1)]]
      OBVIOUS
    <3>1. k - n \in i + 1 .. k /\ (k - n) - 1 = k - (n + 1) /\ n <= k - i
      BY <1>7
    <3>2. e_updated[order[g][k - n]]
      BY <2>2, <3>1
    <3>3. k - (n + 1) \in DOMAIN order[g] /\ e_parent[order[g][k - n]] = order[g][k - (n + 1)]
      BY <1>5, <3>1
    <3>4. k - n \in DOMAIN order[g]
      <4>1. DOMAIN order[g] = 1 .. Len(order[g]) /\ Len(order[g]) \in Nat
        BY <1>1, LenProperties DEF IInv, Lists, TypeOK
      <4>2. k \in 1 .. Len(order[g]) /\ i \in 1 .. Len(order[g])
        BY <1>1, <1>2, <4>1
      <4> QED
        BY <1>7, <3>1, <4>1, <4>2
    <3> QED
      BY <1>6, <1>10, <3>2, <3>3, <3>4
  <2>3. k - i \in U
    <3>1. \A n \in Nat : n \in U
      <4> HIDE DEF U
      <4> QED
        BY <2>1, <2>2, NatSetInduction
    <3>2. k - i \in Nat
      BY <1>2, <1>7
    <3> QED
      BY <3>1, <3>2
  <2>4. e_updated[order[g][i]]
    <3>1. k - (k - i) = i /\ k - i <= k - i
      BY <1>7
    <3> QED
      BY <2>3, <3>1
  <2> QED
    BY <1>4, <2>4
<1> QED
  BY <1>1, <1>2, <1>3, <1>8, <1>9, <1>10

\* A link is to be reported if it is wanted.
LEMMA LinkIsReported ==
  ASSUME NEW l \in Links
  PROVE  /\ IsReported(l) <=> Wanted(l)
         /\ l \in Names
<1> DEFINE C == Cardinality(Tc)
<1>1. l \in Names /\ l \notin Tc
  BY KernelAssumption
<1>2. PICK f : IsChain(f, l) /\ (IsReported(l) <=> \A k \in 0 .. C : Wanted(f[k]))
  BY <1>1, ChainFacts
<1>3. C \in Nat
  BY TcAssumption, FS_CardinalityType
<1>4. f[0] = l /\ \A k \in 1 .. C : f[k] = Above(f[k - 1])
  BY <1>2 DEF IsChain
<1> HIDE DEF C
<1> DEFINE I == {k \in Nat : k <= C => f[k] = l}
<1>5. 0 \in I
  BY <1>4
<1>6. ASSUME NEW k \in Nat, k \in I PROVE k + 1 \in I
  <2> SUFFICES ASSUME k + 1 <= C PROVE f[k + 1] = l
    OBVIOUS
  <2>1. k + 1 \in 1 .. C /\ (k + 1) - 1 = k /\ k <= C
    BY <1>3
  <2> QED
    BY <1>1, <1>4, <1>6, <2>1 DEF Above
<1>7. \A k \in Nat : k \in I
  <2> HIDE DEF I
  <2> QED
    BY <1>5, <1>6, NatSetInduction
<1>8. \A k \in 0 .. C : f[k] = l
  BY <1>3, <1>7
<1>9. 0 \in 0 .. C
  BY <1>3
<1> QED
  BY <1>1, <1>2, <1>8, <1>9

\* So it is while the walks go on.
LEMMA UnderwayRightly == TodoOK /\ Underway => Rightly
<1> SUFFICES ASSUME TodoOK, Underway PROVE Rightly
  OBVIOUS
<1>1. UpdatedOnce /\ TcRightly
  BY KernelAssumption DEF Underway, UpdatedRightly, TcRightly
<1> QED
  BY <1>1, OnlyWhatIsReported DEF Rightly, OnlyReported

\* And after a step of theirs.
LEMMA UnderwayRightlyLater == (TodoOK /\ Underway)' => Rightly'
<1>1. (TodoOK /\ Underway => Rightly)'
  BY UnderwayRightly, PTL
<1> QED
  BY <1>1

\* What a step that leaves the kernel alone leaves alone.
LEMMA SameKernel ==
  ASSUME UNCHANGED kernel
  PROVE  /\ Depth' = Depth
         /\ \A n : Wanted(n)' <=> Wanted(n)
         /\ \A n : Master(n)' = Master(n)
         /\ \A l : Paired(l)' <=> Paired(l)
         /\ \A l : Lost(l)' = Lost(l)
         /\ \A n : IsReported(n)' <=> IsReported(n)
<1>1. Depth' = Depth
  BY DEF Depth, Ranks, Master
<1>2. \A n : Wanted(n)' <=> Wanted(n)
  BY DEF Wanted, Has, IsSeen
<1>3. \A n : Master(n)' = Master(n)
  BY DEF Master
<1>4. \A l : Paired(l)' <=> Paired(l)
  BY <1>2, <1>3 DEF Paired
<1>5. \A l : Lost(l)' = Lost(l)
  BY <1>1, <1>2 DEF Lost, Down
<1>6. \A n : IsReported(n)' <=> IsReported(n)
  BY DEF IsReported, IsSeen
<1> QED
  BY <1>1, <1>2, <1>3, <1>4, <1>5, <1>6

\* As long as each pair keeps its first, every link belongs where it did.
LEMMA SameChoice ==
  ASSUME UNCHANGED kernel, UNCHANGED Winners
  PROVE  AtTop' = AtTop /\ \A l : From(l)' = From(l)
<1>1. AtTop' = AtTop
  BY DEF AtTop, Belongs, Wanted, Paired, Has, IsSeen, Master
<1>2. \A l : From(l)' = From(l)
  BY <1>1, SameKernel DEF From, Up, Down
<1> QED
  BY <1>1, <1>2

\* If a pair has another first, the links that stand on it are not due yet.
LEMMA Rechosen ==
  ASSUME UNCHANGED kernel, kernel \in Kernels, Lifecycles > 1, NEW l \in Links
  PROVE  \/ Paired(l) /\ From(l)' = Lifecycles - 1 /\ From(l) = Lifecycles - 1
         \/ ~Paired(l) /\ (AtTop'[l] <=> AtTop[l]) /\ From(l)' = From(l)
         \/ ~Paired(l) /\ Wanted(l) /\ From(l)' >= Lifecycles /\ Lost(l) >= Lifecycles
<1>1. InOrder(l) /\ InTime(l) /\ InOrder(l)' /\ InTime(l)'
  BY LinkFacts, LinkFactsLater
<1>2. /\ Paired(l)' <=> Paired(l)
      /\ Depth'[l] = Depth[l] /\ Master(l)' = Master(l)
      /\ Wanted(l)' <=> Wanted(l)
      /\ Wanted(Master(l))' <=> Wanted(Master(l))
      /\ Lost(l)' = Lost(l)
  BY SameKernel
<1>3. CASE Paired(l)
  BY <1>1, <1>2, <1>3 DEF InOrder
<1>4. CASE ~Paired(l) /\ ~(Depth[l] > 1)
  <2>1. AtTop'[l] <=> AtTop[l]
    BY <1>1, <1>2, <1>4 DEF InOrder
  <2>2. From(l)' = From(l)
    BY <1>2, <1>4, <2>1, SameKernel DEF From, Up, Down
  <2> QED
    BY <1>4, <2>1, <2>2
<1>5. CASE ~Paired(l) /\ Depth[l] > 1 /\ Wanted(l)
  <2>1. From(l)' >= Lifecycles
    BY <1>1, <1>2, <1>5 DEF InTime
  <2>2. Lost(l) >= Lifecycles
    BY <1>1, <1>5 DEF InTime
  <2> QED
    BY <1>5, <2>1, <2>2
<1>6. CASE ~Paired(l) /\ ~Wanted(l)
  <2>1. ~AtTop[l] /\ ~AtTop'[l] /\ AtTop[l] \in BOOLEAN /\ AtTop'[l] \in BOOLEAN
    BY <1>1, <1>2, <1>6 DEF InOrder
  <2>2. From(l)' = From(l)
    BY <1>2, <1>6, <2>1, SameKernel DEF From, Up, Down
  <2> QED
    BY <1>6, <2>1, <2>2
<1> QED
  BY <1>3, <1>4, <1>5, <1>6

\* Steps that leave the elements alone leave the links where they belong.
LEMMA ElementsStill ==
  ASSUME UNCHANGED <<kernel, records>>
  PROVE  /\ AtTop' = AtTop /\ \A l : From(l)' = From(l)
         /\ \A l : Tops(l)' = Tops(l)
<1>1. \A l : Tops(l)' = Tops(l)
  BY DEF Tops, Lookup, records
<1>2. Winners' = Winners
  BY <1>1, SameKernel DEF Winners
<1> QED
  BY <1>1, <1>2, SameChoice

\* Steps that say nothing.
LEMMA Unmoved ==
  ASSUME SInv, UNCHANGED <<kernel, calm, reading, records, e_updated, age>>,
         pc' = "read" <=> pc = "read", pc' \in {"reap", "free", "draw"} => pc \in {"reap", "free", "draw"}
  PROVE  SInv'
<1>1. /\ AtTop' = AtTop /\ \A l : From(l)' = From(l)
      /\ \A l : Tops(l)' = Tops(l)
      /\ \A n : Updated(n)' = Updated(n)
      /\ \A l : (Paired(l)' <=> Paired(l)) /\ Lost(l)' = Lost(l) /\ Master(l)' = Master(l)
      /\ \A n : IsReported(n)' <=> IsReported(n)
  <2>1. \A n : Updated(n)' = Updated(n)
    BY DEF Updated, records
  <2> QED
    BY <2>1, ElementsStill, SameKernel
<1>2. e_group' = e_group /\ e_parent' = e_parent /\ e_name' = e_name
  BY DEF records
<1>3. (OneGroup /\ TcPlaced /\ Fresh)'
  BY <1>2 DEF SInv, OneGroup, TcPlaced, Fresh, Live
<1>4. ASSUME reading, pc' # "read" PROVE Rightly'
  <2>1. Rightly
    BY <1>4 DEF SInv
  <2> QED
    BY <1>1, <1>2, <2>1 DEF Rightly, UpdatedOnce, OnlyReported, TcRightly
<1>5. ASSUME Settling PROVE Settling'
  <2>1. OnTop'
    BY <1>1, <1>5 DEF Settling, OnTop
  <2>2. Unreported' /\ OffPlace'
    BY <1>1, <1>2, <1>5 DEF Settling, Unreported, OffPlace
  <2>3. Twins'
    BY <1>1, <1>5 DEF Settling, Twins
  <2>4. Put'
    BY <1>1, <1>2, <1>5 DEF Settling, Put
  <2>5. Stay'
    BY <1>1, <1>5 DEF Settling, Stay
  <2>6. OneOfPair'
    BY <1>1, <1>5 DEF Settling, OneOfPair
  <2>7. Kept'
    BY <1>1, <1>5 DEF Settling, Kept, SettleTime
  <2> QED
    BY <2>1, <2>2, <2>3, <2>4, <2>5, <2>6, <2>7 DEF Settling
<1> QED
  BY <1>3, <1>4, <1>5 DEF SInv

\* A kernel that has just changed has settled nothing yet.
LEMMA NothingSettled ==
  ASSUME IInv, kernel \in Kernels, Lifecycles > 1, calm = 0, pc = "keys"
  PROVE  Settling
<1>1. \A e \in Elements : age[e] \in Nat
  BY DEF IInv, Lists, TypeOK
<1>2. \A l \in Links : From(l) \in Nat /\ Lost(l) \in Nat
  BY LinkFacts DEF InTime
<1>3. \A l : \A e \in Tops(l) : e \in Elements
  BY DEF Tops, Lookup
<1>4. OnTop
  <2> SUFFICES ASSUME NEW l \in Links, NEW e \in Tops(l) PROVE age[e] >= calm - Lost(l)
    BY DEF OnTop
  <2> QED
    BY <1>1, <1>2, <1>3
<1>5. Unreported /\ OffPlace /\ Twins
  BY <1>1, <1>3 DEF Unreported, OffPlace, Twins
<1>6. Put /\ Stay
  BY <1>2 DEF Put, Stay
<1>7. OneOfPair /\ Kept
  BY LifecyclesAssumption DEF OneOfPair, Kept
<1> QED
  BY <1>4, <1>5, <1>6, <1>7 DEF Settling

\* A reading begins.
LEMMA ResyncSettles ==
  ASSUME IInv, LInv, Registered, ReadInv, SInv, Lifecycles > 1, Resync
  PROVE  SInv'
<1>1. /\ reading /\ reading' /\ pc = "keys" /\ pc' = "read"
      /\ e_updated' = [e \in Elements |-> FALSE]
      /\ age' = [e \in Elements |-> IF Live(e) /\ age[e] < AgeCap THEN age[e] + 1 ELSE age[e]]
      /\ UNCHANGED records
      /\ calm' = IF kernel' # kernel THEN 0 ELSE IF calm < CalmCap THEN calm + 1 ELSE calm
  BY DEF Resync, StartRead
<1>2. calm \in Nat /\ calm' \in Nat /\ kernel \in Kernels
  BY <1>1 DEF SInv, ReadInv, TodoOK
<1>3. e_group' = e_group /\ e_parent' = e_parent /\ e_name' = e_name
  BY <1>1 DEF records
<1>4. \A n : Updated(n)' = {}
  BY <1>1 DEF Updated
<1>5. (OneGroup /\ TcPlaced /\ Fresh)'
  BY <1>1, <1>3 DEF SInv, OneGroup, TcPlaced, Fresh, Live
<1>6. ASSUME calm' > 0 PROVE Settling'
  <2>1. kernel' = kernel /\ (calm' = calm \/ calm' = calm + 1)
    BY <1>1, <1>6
  <2>2. Settling
    BY <1>1, <1>2, NothingSettled DEF SInv
  <2>3. /\ AtTop' = AtTop /\ \A l : From(l)' = From(l)
        /\ \A l : Tops(l)' = Tops(l)
        /\ \A l : (Paired(l)' <=> Paired(l)) /\ Lost(l)' = Lost(l) /\ Master(l)' = Master(l)
        /\ \A n : IsReported(n)' <=> IsReported(n)
    BY <1>1, <2>1, ElementsStill, SameKernel
  <2>4. \A e \in Elements : Live(e) => age'[e] = age[e] + 1 /\ age[e] \in Nat
    <3> SUFFICES ASSUME NEW e \in Elements, Live(e) PROVE age[e] \in Nat /\ age[e] < AgeCap
      BY <1>1
    <3>1. age[e] \in Nat /\ age[e] + 1 < Lifecycles
      BY <1>1, AgeBound
    <3> QED
      BY <3>1, LifecyclesAssumption
  <2>5. \A l : \A e \in Tops(l) : e \in Elements /\ Live(e)
    BY KernelAssumption, NullAssumption DEF Tops, Lookup, Live
  <2>6. \A e \in Elements : e_name[e] \in Names => Live(e)
    BY NullAssumption DEF Registered, DeadBlank
  <2>7. \A l \in Links : From(l) \in Nat /\ Lost(l) \in Nat /\ l \in Names
    BY <1>2, LinkFacts, KernelAssumption DEF InTime
  <2>8. OnTop'
    <3> SUFFICES ASSUME NEW l \in Links, ~AtTop[l], NEW e \in Tops(l) PROVE age'[e] >= calm' - Lost(l)
      BY <2>3 DEF OnTop
    <3>1. age[e] >= calm - Lost(l)
      BY <2>2 DEF Settling, OnTop
    <3>2. age'[e] = age[e] + 1 /\ age[e] \in Nat /\ Lost(l) \in Nat
      BY <2>4, <2>5, <2>7
    <3> QED
      BY <1>2, <2>1, <3>1, <3>2
  <2>9. Unreported'
    <3> SUFFICES ASSUME NEW e \in Elements, e_name[e] \in Names, ~IsReported(e_name[e]) PROVE age'[e] >= calm'
      BY <1>3, <2>3 DEF Unreported
    <3>1. age[e] >= calm
      BY <2>2 DEF Settling, Unreported
    <3> QED
      BY <1>2, <2>1, <2>4, <2>6, <3>1
  <2>10. OffPlace'
    <3> SUFFICES ASSUME NEW e \in Elements, e_name[e] \in Links,
                        e_parent[e] \notin {NoElement} \cup Tops(Master(e_name[e]))
                 PROVE  age'[e] >= calm'
      BY <1>3, <2>3 DEF OffPlace
    <3>1. age[e] >= calm
      BY <2>2 DEF Settling, OffPlace
    <3> QED
      BY <1>2, <2>1, <2>4, <2>6, <2>7, <3>1
  <2>11. Twins'
    <3> SUFFICES ASSUME NEW l \in Links, Paired(l), Tops(Master(l)) # {}, NEW e \in Tops(l) PROVE age'[e] >= calm'
      BY <2>3 DEF Twins
    <3>1. age[e] >= calm
      BY <2>2 DEF Settling, Twins
    <3> QED
      BY <1>2, <2>1, <2>4, <2>5, <3>1
  <2>12. Put'
    BY <1>4 DEF Put
  <2>13. Stay'
    <3> SUFFICES ASSUME NEW l \in Links, AtTop[l], calm' > From(l) + 1 PROVE Tops(l) # {}
      BY <1>1, <2>3 DEF Stay
    <3>1. calm > From(l)
      BY <1>2, <2>1, <2>7
    <3> QED
      BY <1>1, <2>2, <3>1 DEF Settling, Stay
  <2>14. OneOfPair'
    <3> SUFFICES ASSUME NEW l \in Links, Paired(l), calm' > Lifecycles PROVE AtTop[l] <=> ~AtTop[Master(l)]
      BY <1>1, <2>3 DEF OneOfPair
    <3>1. calm >= Lifecycles
      BY <1>2, <2>1, LifecyclesAssumption
    <3> QED
      BY <1>1, <2>2, <3>1 DEF Settling, OneOfPair
  <2>15. Kept'
    BY <1>1 DEF Kept
  <2> QED
    BY <2>8, <2>9, <2>10, <2>11, <2>12, <2>13, <2>14, <2>15 DEF Settling
<1> QED
  BY <1>1, <1>2, <1>5, <1>6 DEF SInv

\* No reading begins any more.
LEMMA ResyncFailsSettles ==
  ASSUME SInv, ResyncFails
  PROVE  SInv'
<1>1. /\ ~reading' /\ UNCHANGED records /\ calm' = calm
      /\ e_updated' = [e \in Elements |-> FALSE]
  BY DEF ResyncFails, StartRead
<1>2. e_group' = e_group /\ e_parent' = e_parent /\ e_name' = e_name
  BY <1>1 DEF records
<1>3. (OneGroup /\ TcPlaced /\ Fresh)'
  BY <1>1, <1>2 DEF SInv, OneGroup, TcPlaced, Fresh, Live
<1> QED
  BY <1>1, <1>3 DEF SInv

\* A reading ends: what it updated is what is to be reported, and what has been
\* put right by now stays.
LEMMA EndReadingSettles ==
  ASSUME IInv, Registered, ReadInv, SInv, Lifecycles > 1, EndReading
  PROVE  SInv'
<1>1. /\ pc = "read" /\ pc' = "reap" /\ todo = <<>>
      /\ UNCHANGED <<kernel, calm, reading, records, e_updated, age>>
  BY DEF EndReading, EndRead, caches
<1>2. calm \in Nat /\ kernel \in Kernels /\ TodoOK
  BY DEF SInv, ReadInv, TodoOK
<1>3. e_group' = e_group /\ e_parent' = e_parent /\ e_name' = e_name
  BY <1>1 DEF records
<1>4. (OneGroup /\ TcPlaced /\ Fresh)'
  BY <1>1, <1>3 DEF SInv, OneGroup, TcPlaced, Fresh, Live
<1>5. /\ AtTop' = AtTop /\ \A l : From(l)' = From(l)
      /\ \A l : Tops(l)' = Tops(l)
      /\ \A n : Updated(n)' = Updated(n)
      /\ \A l : (Paired(l)' <=> Paired(l)) /\ Lost(l)' = Lost(l) /\ Master(l)' = Master(l)
      /\ \A n : IsReported(n)' <=> IsReported(n)
  <2>1. \A n : Updated(n)' = Updated(n)
    BY <1>1, <1>3 DEF Updated
  <2> QED
    BY <1>1, <2>1, ElementsStill, SameKernel
<1>6. ASSUME reading PROVE Underway /\ Rightly /\ \A n \in Names : IsReported(n) => Updated(n) # {}
  <2>1. Underway
    BY <1>1, <1>6 DEF ReadInv
  <2> QED
    BY <1>1, <1>2, <2>1, UnderwayRightly, UpdatedIsReported
<1>7. ASSUME reading PROVE Rightly'
  <2>1. Rightly
    BY <1>6, <1>7
  <2> QED
    BY <1>3, <1>5, <2>1 DEF Rightly, UpdatedOnce, OnlyReported, TcRightly
<1>8. ASSUME reading, calm > 0 PROVE Settling'
  <2>1. Settling
    BY <1>8 DEF SInv
  <2>2. \A l \in Links : InOrder(l) /\ InTime(l) /\ l \in Names
    BY <1>2, LinkFacts, KernelAssumption
  <2>3. \A n \in Names : \A e \in Updated(n) :
           e \in Elements /\ e_name[e] = n /\ e_updated[e] /\ age[e] = 0 /\ e_group[e] = Grp
    <3> SUFFICES ASSUME NEW n \in Names, NEW e \in Updated(n) PROVE Live(e) /\ age[e] = 0
      BY DEF SInv, OneGroup, Updated
    <3> QED
      BY DEF Updated, SInv, Fresh, Registered, DeadBlank
  <2>4. \A l \in Links : Wanted(l) => Updated(l) # {}
    BY <1>6, <1>8, <2>2, LinkIsReported
  <2>5. OnTop' /\ Twins'
    BY <1>1, <1>5, <2>1 DEF Settling, OnTop, Twins
  <2>6. Unreported' /\ OffPlace'
    BY <1>1, <1>3, <1>5, <2>1 DEF Settling, Unreported, OffPlace
  <2>7. Put'
    BY <1>1, <1>3, <1>5, <2>1 DEF Settling, Put
  <2>8. Stay'
    <3> SUFFICES ASSUME NEW l \in Links, AtTop[l], calm > From(l) PROVE \E e \in Tops(l) : e_updated[e]
      BY <1>1, <1>5 DEF Stay
    <3>1. PICK e \in Updated(l) : TRUE
      BY <2>2, <2>4 DEF InOrder
    <3>2. e_parent[e] = NoElement
      BY <2>1, <3>1 DEF Settling, Put
    <3>3. e \in Tops(l) /\ e_updated[e]
      BY <2>2, <2>3, <3>1, <3>2 DEF Tops, Lookup
    <3> QED
      BY <3>3
  <2>9. OneOfPair'
    <3> SUFFICES ASSUME NEW l \in Links, Paired(l), calm >= Lifecycles PROVE AtTop[l] <=> ~AtTop[Master(l)]
      BY <1>1, <1>5 DEF OneOfPair
    <3> DEFINE m == Master(l)
    <3>1. /\ m \in Links /\ Master(m) = l /\ Paired(m) /\ Wanted(l) /\ Wanted(m)
          /\ From(l) = Lifecycles - 1 /\ AtTop[l] \in BOOLEAN /\ AtTop[m] \in BOOLEAN
          /\ From(m) = Lifecycles - 1
          /\ (AtTop[l] <=> Tops(l) # {}) /\ (AtTop[m] <=> Tops(m) # {})
      BY <2>2 DEF InOrder
    <3>2. PICK e \in Updated(l), f \in Updated(m) : TRUE
      BY <2>4, <3>1
    <3>3. calm > From(l) /\ calm > From(m) /\ calm > 0
      BY <1>2, <3>1, LifecyclesAssumption
    <3>4. CASE AtTop[l] /\ AtTop[m]
      <4>1. e_parent[e] = NoElement
        BY <2>1, <3>2, <3>3, <3>4 DEF Settling, Put
      <4>2. e \in Tops(l) /\ age[e] = 0
        BY <2>2, <2>3, <3>2, <4>1 DEF Tops, Lookup
      <4>3. age[e] >= calm
        BY <2>1, <3>1, <3>4, <4>2 DEF Settling, Twins
      <4> QED
        BY <1>2, <3>3, <4>2, <4>3
    <3>5. CASE ~AtTop[l] /\ ~AtTop[m]
      <4>1. e_parent[e] \in Tops(m)
        BY <2>1, <3>2, <3>3, <3>5 DEF Settling, Put
      <4> QED
        BY <3>1, <3>5, <4>1
    <3> QED
      BY <3>1, <3>4, <3>5
  <2>10. Kept'
    BY <1>5, <1>6, <1>8 DEF Kept
  <2> QED
    BY <2>5, <2>6, <2>7, <2>8, <2>9, <2>10 DEF Settling
<1> QED
  BY <1>1, <1>2, <1>4, <1>7, <1>8 DEF SInv

\* Element e is updated for n below p, as it was found there or anew.
Reports(e, n, p) ==
    /\ e \in Elements /\ n \in Names /\ p \in Elements \cup {NoElement}
    /\ e_group'[e] = Grp /\ e_parent'[e] = p /\ e_name'[e] = n /\ e_updated'[e] /\ age'[e] = 0
    /\ \/ e_group[e] = Grp /\ e_parent[e] = p /\ e_name[e] = n
       \/ ~Live(e) /\ e_name[e] = NoName
    /\ \A f \in Elements : f # e =>
          /\ e_group'[f] = e_group[f] /\ e_parent'[f] = e_parent[f] /\ e_name'[f] = e_name[f]
          /\ e_updated'[f] = e_updated[f] /\ age'[f] = age[f]

\* What a report does.
LEMMA ReportChanges ==
  ASSUME IInv, Registered, NEW n \in Names, NEW p \in Elements \cup {NoElement},
         ObserveKnown(Grp, n, p) \/ ObserveNew(Grp, n, p)
  PROVE  n \in Admitted /\ \E e \in Elements : Reports(e, n, p)
<1>1. /\ e_group \in [Elements -> Groups \cup {NoGroup}]
      /\ e_parent \in [Elements -> Elements \cup {NoElement}]
      /\ e_name \in [Elements -> Names \cup {NoName}]
      /\ e_updated \in [Elements -> BOOLEAN]
      /\ age \in [Elements -> 0 .. AgeCap]
      /\ Grp \in Groups /\ Grp # NoGroup /\ NoName \notin Names
  BY NullAssumption, KernelAssumption DEF IInv, Lists, TypeOK
<1>2. CASE ObserveKnown(Grp, n, p)
  <2>1. PICK e \in Lookup(Grp, n, p) : Lifesign(e)
    BY <1>2 DEF ObserveKnown
  <2>2. e \in Elements /\ e_group[e] = Grp /\ e_parent[e] = p /\ e_name[e] = n
    BY <2>1 DEF Lookup
  <2>3. n \in Admitted
    BY <1>1, <2>2 DEF Registered, LiveAdmitted, Live
  <2>4. UNCHANGED <<e_group, e_parent, e_name>>
    BY <1>2 DEF ObserveKnown, records
  <2>5. /\ e_updated'[e] /\ age'[e] = 0
        /\ \A f \in Elements : f # e => e_updated'[f] = e_updated[f] /\ age'[f] = age[f]
    BY <1>1, <2>1, <2>2 DEF Lifesign
  <2>6. Reports(e, n, p)
    BY <2>2, <2>4, <2>5 DEF Reports
  <2> QED
    BY <2>2, <2>3, <2>6
<1>3. CASE ObserveNew(Grp, n, p)
  <2>1. PICK e \in Elements :
          /\ ~Live(e)
          /\ e_group' = [e_group EXCEPT ![e] = Grp]
          /\ e_parent' = [e_parent EXCEPT ![e] = p]
          /\ e_name' = [e_name EXCEPT ![e] = n]
          /\ Lifesign(e)
    BY <1>3 DEF ObserveNew
  <2>2. n \in Admitted
    BY <1>3 DEF ObserveNew
  <2>3. e_name[e] = NoName
    BY <2>1 DEF Registered, DeadBlank
  <2>4. /\ e_updated'[e] /\ age'[e] = 0
        /\ \A f \in Elements : f # e => e_updated'[f] = e_updated[f] /\ age'[f] = age[f]
    BY <1>1, <2>1 DEF Lifesign
  <2>5. /\ e_group'[e] = Grp /\ e_parent'[e] = p /\ e_name'[e] = n
        /\ \A f \in Elements : f # e =>
             e_group'[f] = e_group[f] /\ e_parent'[f] = e_parent[f] /\ e_name'[f] = e_name[f]
    BY <1>1, <2>1
  <2>6. Reports(e, n, p)
    BY <2>1, <2>3, <2>4, <2>5 DEF Reports
  <2> QED
    BY <2>2, <2>6
<1> QED
  BY <1>2, <1>3

\* What stands at top level, and what has been updated, after a report.
LEMMA ReportedTops ==
  ASSUME NEW e, NEW n, NEW p, Reports(e, n, p), e_updated \in [Elements -> BOOLEAN]
  PROVE  /\ \A x \in Names : Tops(x)' = IF x = n /\ p = NoElement THEN Tops(x) \cup {e} ELSE Tops(x)
         /\ \A x \in Names : x # n => e \notin Tops(x)
         /\ \A x \in Names : Updated(x)' = IF x = n THEN Updated(x) \cup {e} ELSE Updated(x)
         /\ \A x \in Names : x # n => e \notin Updated(x)
<1> SUFFICES ASSUME NEW x \in Names
             PROVE  /\ Tops(x)' = IF x = n /\ p = NoElement THEN Tops(x) \cup {e} ELSE Tops(x)
                    /\ x # n => e \notin Tops(x)
                    /\ Updated(x)' = IF x = n THEN Updated(x) \cup {e} ELSE Updated(x)
                    /\ x # n => e \notin Updated(x)
  OBVIOUS
<1>1. /\ e \in Elements
      /\ e_group'[e] = Grp /\ e_parent'[e] = p /\ e_name'[e] = n /\ e_updated'[e]
      /\ e_name[e] = n \/ e_name[e] = NoName
      /\ (e_group[e] = Grp /\ e_parent[e] = p) \/ e_name[e] = NoName
      /\ x # NoName
      /\ \A f \in Elements : f # e =>
          /\ e_group'[f] = e_group[f] /\ e_parent'[f] = e_parent[f] /\ e_name'[f] = e_name[f]
          /\ e_updated'[f] = e_updated[f]
  BY NullAssumption DEF Reports
<1>2. /\ Tops(x) = {f \in Elements : e_group[f] = Grp /\ e_parent[f] = NoElement /\ e_name[f] = x}
      /\ Tops(x)' = {f \in Elements : e_group'[f] = Grp /\ e_parent'[f] = NoElement /\ e_name'[f] = x}
  BY DEF Tops, Lookup
<1>3. /\ Updated(x) = {f \in Elements : e_name[f] = x /\ e_updated[f]}
      /\ Updated(x)' = {f \in Elements : e_name'[f] = x /\ e_updated'[f]}
  BY DEF Updated
<1>4. \A f \in Elements : f # e => (f \in Tops(x)' <=> f \in Tops(x)) /\ (f \in Updated(x)' <=> f \in Updated(x))
  BY <1>1, <1>2, <1>3
<1>5. e \in Tops(x)' <=> x = n /\ p = NoElement
  BY <1>1, <1>2
<1>6. e \in Updated(x)' <=> x = n
  BY <1>1, <1>3
<1>7. e \in Tops(x) => x = n /\ p = NoElement
  BY <1>1, <1>2
<1>8. e \in Updated(x) => x = n
  BY <1>1, <1>3
<1>9. /\ Tops(x) \subseteq Elements /\ Tops(x)' \subseteq Elements
      /\ Updated(x) \subseteq Elements /\ Updated(x)' \subseteq Elements
  BY <1>2, <1>3
<1> HIDE DEF Tops, Updated
<1>10. Tops(x)' = IF x = n /\ p = NoElement THEN Tops(x) \cup {e} ELSE Tops(x)
  BY <1>1, <1>4, <1>5, <1>7, <1>9
<1>11. Updated(x)' = IF x = n THEN Updated(x) \cup {e} ELSE Updated(x)
  BY <1>1, <1>4, <1>6, <1>8, <1>9
<1> QED
  BY <1>7, <1>8, <1>10, <1>11

\* Whatever is reported, what hangs below an object is what should.
LEMMA ReportPlaces ==
  ASSUME IInv, Registered, SInv, NEW e, NEW n, NEW p, Reports(e, n, p),
         n \in Tc => p \in Updated(TcParent[n])
  PROVE  (OneGroup /\ TcPlaced /\ Fresh)'
<1>1. /\ e \in Elements /\ n \in Names /\ p \in Elements \cup {NoElement}
      /\ e_group'[e] = Grp /\ e_parent'[e] = p /\ e_name'[e] = n /\ e_updated'[e] /\ age'[e] = 0
      /\ \/ e_group[e] = Grp /\ e_parent[e] = p /\ e_name[e] = n
         \/ ~Live(e) /\ e_name[e] = NoName
      /\ \A f \in Elements : f # e =>
          /\ e_group'[f] = e_group[f] /\ e_parent'[f] = e_parent[f] /\ e_name'[f] = e_name[f]
          /\ e_updated'[f] = e_updated[f] /\ age'[f] = age[f]
  BY DEF Reports
<1>2. OneGroup' /\ Fresh'
  BY <1>1 DEF SInv, OneGroup, Fresh, Live
<1>3. TcPlaced'
  <2> SUFFICES ASSUME NEW f \in Elements, e_name'[f] \in Tc
               PROVE  e_parent'[f] # NoElement /\ e_name'[e_parent'[f]] = TcParent[e_name'[f]]
    BY DEF TcPlaced
  <2>1. CASE f = e
    <3>1. n \in Tc /\ p \in Elements /\ e_name[p] = TcParent[n] /\ p # NoElement
      BY <1>1, <2>1, NullAssumption DEF Updated
    <3>2. TcParent[n] # n /\ TcParent[n] \in Names
      <4>1. PICK depth \in [Names -> 0 .. Cardinality(Tc)] : \A t \in Tc : depth[TcParent[t]] < depth[t]
        BY TcAssumption
      <4>2. depth[n] \in 0 .. Cardinality(Tc)
        BY <1>1, <4>1
      <4>3. TcParent[n] \in Names
        BY <3>1, KernelAssumption
      <4> QED
        BY <3>1, <4>1, <4>2, <4>3
    <3>3. p # e
      BY <1>1, <3>1, <3>2, NullAssumption
    <3> QED
      BY <1>1, <2>1, <3>1, <3>3
  <2>2. CASE f # e
    <3>1. e_name[f] \in Tc /\ e_parent'[f] = e_parent[f] /\ e_name'[f] = e_name[f]
      BY <1>1, <2>2
    <3>2. e_parent[f] # NoElement /\ e_name[e_parent[f]] = TcParent[e_name[f]]
      BY <3>1 DEF SInv, TcPlaced
    <3>3. e_parent[f] \in Elements /\ TcParent[e_name[f]] \in Names
      BY <3>1, <3>2, KernelAssumption DEF IInv, Lists, TypeOK
    <3>4. e_parent[f] = e => e_name[e] = n
      BY <1>1, <3>2, <3>3, NullAssumption
    <3>5. e_name'[e_parent[f]] = e_name[e_parent[f]]
      BY <1>1, <3>3, <3>4
    <3> QED
      BY <3>1, <3>2, <3>5
  <2> QED
    BY <2>1, <2>2
<1> QED
  BY <1>2, <1>3

\* Below what do_link() puts a link.
LEMMA ParentFacts ==
  ASSUME kernel \in Kernels, NEW l \in Links, NEW p \in Parents(l)
  PROVE  /\ p = NoElement \/ (Master(l) \in Links /\ p \in Tops(Master(l)) /\ p # NoElement)
         /\ Master(l) # NoName /\ Wanted(Master(l)) /\ Tops(Master(l)) # {} => p \in Tops(Master(l))
<1> DEFINE m == Lookup(Grp, kernel.master[l], NoElement)
           cached == \E i \in DOMAIN kernel.links : kernel.links[i] = kernel.master[l]
<1>1. m = Tops(Master(l)) /\ m \subseteq Elements
  BY DEF Tops, Master, Lookup
<1> HIDE DEF m, cached
<1>2. /\ kernel.master[l] = NoName \/ m = {} => p = NoElement
      /\ ~(kernel.master[l] = NoName \/ m = {}) => p \in m \cup {NoElement}
      /\ ~(kernel.master[l] = NoName \/ m = {}) /\ cached => p \in m
  <2>1. Parents(l) = IF kernel.master[l] = NoName \/ m = {} THEN {NoElement}
                     ELSE IF cached THEN m ELSE m \cup {NoElement}
    BY Zenon DEF Parents, m, cached
  <2> QED
    BY <2>1
<1>3. Master(l) # NoName => Master(l) \in Links
  BY DepthFacts
<1>4. Master(l) \in Links /\ Wanted(Master(l)) => cached
  <2>1. Master(l) \in Links /\ Master(l) \in Has => \E i \in DOMAIN kernel.links : kernel.links[i] = Master(l)
    BY KernelFacts
  <2> QED
    BY <2>1 DEF Wanted, cached, Master
<1> QED
  BY <1>1, <1>2, <1>3, <1>4, NullAssumption DEF Master

\* Element e is updated for n, which is to be reported and has not been yet.
Reporting(e, n, p) ==
    /\ Reports(e, n, p) /\ pc = "read" /\ pc' = "read" /\ UNCHANGED <<kernel, calm>>
    /\ IsReported(n) /\ Updated(n) = {}
    /\ n \in Links => p \in Parents(n)

\* What the proofs about a report start from.
LEMMA ReportingFacts ==
  ASSUME IInv, LInv, Registered, kernel \in Kernels, Lifecycles > 1, calm \in Nat,
         NEW e, NEW n, NEW p, Reporting(e, n, p)
  PROVE  /\ \A x \in Links : x \in Names /\ InOrder(x) /\ InTime(x) /\ InOrder(x)' /\ InTime(x)'
         /\ \A x \in Links : Tops(x) \subseteq Tops(x)' /\ (x # n \/ p # NoElement => Tops(x)' = Tops(x))
         /\ \A x \in Links : \A f \in Tops(x) : f \in Elements /\ age[f] \in Nat /\ age[f] < Lifecycles
         /\ \A x \in Links : \A f \in Tops(x)' : f # e => f \in Tops(x) /\ age'[f] = age[f]
         /\ \A x \in Links : x # n => e \notin Tops(x)
         /\ \A x \in Links : x # n => Updated(x)' = Updated(x) /\ \A f \in Updated(x) : e_parent'[f] = e_parent[f]
         /\ n \in Links => /\ Updated(n)' = {e} /\ e_parent'[e] = p /\ Wanted(n)
                           /\ p = NoElement => e \in Tops(n)'
         /\ age'[e] = 0
         /\ Tops(NoName) = {}
<1>1. /\ e_group \in [Elements -> Groups \cup {NoGroup}] /\ e_updated \in [Elements -> BOOLEAN]
      /\ Admitted \subseteq Names /\ Links \subseteq Names /\ Grp # NoGroup /\ NoName \notin Names
  BY NullAssumption, PolicyAssumption, KernelAssumption DEF IInv, Lists, TypeOK
<1>2. /\ Reports(e, n, p) /\ UNCHANGED kernel /\ pc = "read" /\ Updated(n) = {}
  BY DEF Reporting
<1>3. /\ \A x \in Names : Tops(x)' = IF x = n /\ p = NoElement THEN Tops(x) \cup {e} ELSE Tops(x)
      /\ \A x \in Names : x # n => e \notin Tops(x)
      /\ \A x \in Names : Updated(x)' = IF x = n THEN Updated(x) \cup {e} ELSE Updated(x)
      /\ \A x \in Names : x # n => e \notin Updated(x)
  BY <1>1, <1>2, ReportedTops
<1>4. /\ n \in Names /\ e \in Elements /\ e_parent'[e] = p /\ age'[e] = 0
      /\ \A f \in Elements : f # e => e_parent'[f] = e_parent[f] /\ age'[f] = age[f]
  BY <1>2 DEF Reports
<1>5. \A x : \A f \in Tops(x) : f \in Elements /\ Live(f) /\ e_name[f] = x
  BY <1>1 DEF Tops, Lookup, Live
<1>6. Tops(NoName) = {}
  BY <1>1, <1>5 DEF Registered, LiveAdmitted
<1>7. \A x \in Links : x \in Names /\ InOrder(x) /\ InTime(x) /\ InOrder(x)' /\ InTime(x)'
  BY <1>1, <1>2, LinkFacts, LinkFactsLater
<1>8. \A x \in Links : \A f \in Tops(x) : age[f] \in Nat /\ age[f] < Lifecycles
  BY <1>2, <1>5, AgeBound
<1>9. \A x : \A f \in Updated(x) : f \in Elements
  BY DEF Updated
<1>10. n \in Links => Wanted(n)
  BY LinkIsReported DEF Reporting
<1>11. \A x \in Links : Tops(x) \subseteq Tops(x)' /\ (x # n \/ p # NoElement => Tops(x)' = Tops(x))
  BY <1>1, <1>3
<1>12. \A x \in Links : \A f \in Tops(x)' : f # e => f \in Tops(x) /\ age'[f] = age[f]
  BY <1>1, <1>3, <1>4, <1>5
<1>13. \A x \in Links : x # n => Updated(x)' = Updated(x) /\ \A f \in Updated(x) : e_parent'[f] = e_parent[f]
  BY <1>1, <1>3, <1>4, <1>9
<1>14. n \in Links => /\ Updated(n)' = {e} /\ e_parent'[e] = p /\ Wanted(n)
                      /\ p = NoElement => e \in Tops(n)'
  BY <1>1, <1>2, <1>3, <1>4, <1>10
<1>15. \A x \in Links : x # n => e \notin Tops(x)
  BY <1>1, <1>3
<1> QED
  BY <1>4, <1>5, <1>6, <1>7, <1>8, <1>11, <1>12, <1>13, <1>14, <1>15

\* What is off its place, or should not be there, is not what has been reported.
LEMMA ReportLeavesOthers ==
  ASSUME IInv, LInv, Registered, kernel \in Kernels, Lifecycles > 1, calm \in Nat, Settling,
         NEW e, NEW n, NEW p, Reporting(e, n, p)
  PROVE  (Unreported /\ OffPlace /\ Kept)'
<1>1. /\ \A x \in Links : InOrder(x) /\ Tops(x) \subseteq Tops(x)'
      /\ Tops(NoName) = {}
  BY ReportingFacts
<1>2. /\ Reports(e, n, p) /\ UNCHANGED <<kernel, calm>> /\ pc' = "read" /\ IsReported(n)
      /\ n \in Links => p \in Parents(n)
  BY DEF Reporting
<1>3. /\ e \in Elements /\ e_parent'[e] = p /\ e_name'[e] = n
      /\ \A f \in Elements : f # e => /\ e_parent'[f] = e_parent[f] /\ e_name'[f] = e_name[f]
                                      /\ age'[f] = age[f]
  BY <1>2 DEF Reports
<1>4. /\ \A l : Master(l)' = Master(l)
      /\ \A x : IsReported(x)' <=> IsReported(x)
  BY <1>2, SameKernel
<1>5. Unreported'
  <2> SUFFICES ASSUME NEW f \in Elements, e_name'[f] \in Names, ~IsReported(e_name'[f]) PROVE age'[f] >= calm
    BY <1>2, <1>4 DEF Unreported
  <2>1. f # e
    BY <1>2, <1>3
  <2> QED
    BY <1>3, <2>1 DEF Settling, Unreported
<1>6. OffPlace'
  <2> SUFFICES ASSUME NEW f \in Elements, e_name'[f] \in Links,
                      e_parent'[f] \notin {NoElement} \cup Tops(Master(e_name[f]))'
               PROVE  age'[f] >= calm
    BY <1>2 DEF OffPlace
  <2>1. PICK x \in Links : x = e_name'[f]
    OBVIOUS
  <2>2. PICK m : m = Master(x)
    OBVIOUS
  <2>3. Tops(Master(e_name[f]))' = Tops(m)'
    BY <1>2, <2>1, <2>2 DEF Tops, Lookup, Master
  <2>4. Tops(m) \subseteq Tops(m)'
    <3>1. m = NoName \/ m \in Links
      BY <1>1, <2>2 DEF InOrder
    <3>2. CASE m = NoName
      BY <1>1, <3>2
    <3> QED
      BY <1>1, <3>1, <3>2
  <2>5. e_parent'[f] \notin {NoElement} \cup Tops(m)
    BY <2>3, <2>4
  <2>6. f # e
    <3>1. ASSUME f = e PROVE p = NoElement \/ p \in Tops(m)
      <4>1. n = x /\ p \in Parents(x)
        BY <1>2, <1>3, <2>1, <3>1
      <4> QED
        BY <2>2, <4>1, ParentFacts
    <3> QED
      BY <1>3, <2>5, <3>1
  <2>7. e_parent'[f] = e_parent[f] /\ age'[f] = age[f] /\ e_name[f] = x
    BY <1>3, <2>1, <2>6
  <2> QED
    BY <2>2, <2>5, <2>7 DEF Settling, OffPlace
<1>7. Kept'
  BY <1>2 DEF Kept
<1> QED
  BY <1>5, <1>6, <1>7

\* Only the first of a pair at top level changes where links belong.
LEMMA FirstOfPair ==
  ASSUME IInv, LInv, Registered, kernel \in Kernels, Lifecycles > 1, calm \in Nat,
         NEW e, NEW n, NEW p, Reporting(e, n, p), Winners' # Winners
  PROVE  n \in Links /\ Paired(n) /\ p = NoElement /\ Tops(n) = {}
<1>1. /\ \A x \in Links : Tops(x) \subseteq Tops(x)' /\ (x # n \/ p # NoElement => Tops(x)' = Tops(x))
      /\ \A x \in Links : \A f \in Tops(x)' : f # e => f \in Tops(x)
  BY ReportingFacts
<1>2. \A l : Paired(l)' <=> Paired(l)
  BY SameKernel DEF Reporting
<1>3. PICK x \in Links : ~((Paired(x) /\ Tops(x)' # {}) <=> (Paired(x) /\ Tops(x) # {}))
  BY <1>2 DEF Winners
<1>4. Paired(x) /\ Tops(x)' # Tops(x) /\ Tops(x) = {}
  BY <1>1, <1>3
<1> QED
  BY <1>1, <1>3, <1>4

\* A report that leaves the links where they belong: in time, one that belongs at
\* top level finds nothing of its master there, and one that does not finds it.
LEMMA ReportPutsRight ==
  ASSUME IInv, LInv, Registered, kernel \in Kernels, Lifecycles > 1, calm \in Nat, Settling,
         NEW e, NEW n, NEW p, Reporting(e, n, p), Winners' = Winners
  PROVE  (OnTop /\ Twins /\ Put /\ Stay /\ OneOfPair)'
<1>1. /\ \A x \in Links : x \in Names /\ InOrder(x) /\ InTime(x) /\ InOrder(x)' /\ InTime(x)'
      /\ \A x \in Links : Tops(x) \subseteq Tops(x)' /\ (x # n \/ p # NoElement => Tops(x)' = Tops(x))
      /\ \A x \in Links : \A f \in Tops(x) : f \in Elements /\ age[f] \in Nat /\ age[f] < Lifecycles
      /\ \A x \in Links : \A f \in Tops(x)' : f # e => f \in Tops(x) /\ age'[f] = age[f]
      /\ \A x \in Links : x # n => e \notin Tops(x)
      /\ \A x \in Links : x # n => Updated(x)' = Updated(x) /\ \A f \in Updated(x) : e_parent'[f] = e_parent[f]
      /\ n \in Links => /\ Updated(n)' = {e} /\ e_parent'[e] = p /\ Wanted(n)
                        /\ p = NoElement => e \in Tops(n)'
      /\ age'[e] = 0
  BY ReportingFacts
<1>2. /\ pc = "read" /\ pc' = "read" /\ UNCHANGED <<kernel, calm>>
      /\ n \in Links => p \in Parents(n)
  BY DEF Reporting
<1>3. /\ AtTop' = AtTop /\ \A l : From(l)' = From(l)
      /\ \A l : (Paired(l)' <=> Paired(l)) /\ Lost(l)' = Lost(l) /\ Master(l)' = Master(l)
  BY <1>2, SameKernel, SameChoice
<1>4. OnTop /\ Twins /\ Put /\ Stay /\ OneOfPair
  BY DEF Settling
<1>5. Lifecycles \in Nat
  BY LifecyclesAssumption
<1>6. ASSUME n \in Links, ~AtTop[n], p = NoElement
      PROVE  ~Paired(n) /\ calm <= Lost(n)
  <2>1. ~Paired(n)
    <3>1. Paired(n) => (AtTop'[n] <=> Tops(n)' # {})
      BY <1>1, <1>3, <1>6 DEF InOrder
    <3> QED
      BY <1>1, <1>3, <1>6, <3>1
  <2> DEFINE m == Master(n)
  <2>2. m \in Links /\ AtTop[m] /\ Wanted(m) /\ From(n) >= From(m) + 1 /\ From(n) \in Nat /\ From(m) \in Nat
    BY <1>1, <1>6, <2>1 DEF InOrder, InTime
  <2>3. Tops(m) = {}
    <3>1. m # NoName /\ Tops(m) # {} => p \in Tops(m)
      BY <1>2, <1>6, <2>2, ParentFacts
    <3>2. NoElement \notin Tops(m) /\ m # NoName
      BY <1>1, <2>2, NullAssumption DEF InOrder
    <3> QED
      BY <1>6, <3>1, <3>2
  <2>4. ~(calm > From(m) + 1)
    BY <1>2, <1>4, <2>2, <2>3 DEF Stay
  <2>5. From(n) = Lost(n)
    BY <1>1, <1>6, <2>1 DEF From, Lost
  <2> QED
    BY <2>1, <2>2, <2>4, <2>5
<1>7. ASSUME n \in Links, calm > From(n), AtTop[n]
      PROVE  p = NoElement
  <2> DEFINE m == Master(n)
  <2>1. p = NoElement \/ (m \in Links /\ p \in Tops(m))
    BY <1>2, <1>7, ParentFacts
  <2>2. ASSUME m \in Links, NEW f \in Tops(m) PROVE FALSE
    <3>1. age[f] \in Nat /\ age[f] < Lifecycles /\ m # NoName
      BY <1>1, <2>2 DEF InOrder
    <3>2. CASE Paired(n)
      <4>1. Paired(m) /\ Master(m) = n /\ Tops(n) # {} /\ From(n) = Lifecycles - 1
        BY <1>1, <1>7, <3>2 DEF InOrder
      <4>2. age[f] >= calm
        BY <1>4, <2>2, <4>1 DEF Twins
      <4> QED
        BY <1>5, <1>7, <3>1, <4>1, <4>2
    <3>3. CASE ~Paired(n)
      <4>1. ~AtTop[m] /\ From(n) >= Lost(m) + Lifecycles - 1 /\ Lost(m) \in Nat /\ From(n) \in Nat
        BY <1>1, <1>7, <2>2, <3>1, <3>3 DEF InOrder, InTime
      <4>2. age[f] >= calm - Lost(m)
        BY <1>4, <2>2, <4>1 DEF OnTop
      <4> QED
        BY <1>5, <1>7, <3>1, <4>1, <4>2
    <3> QED
      BY <3>2, <3>3
  <2> QED
    BY <2>1, <2>2
<1>8. ASSUME n \in Links, calm > From(n), ~AtTop[n]
      PROVE  p \in Tops(Master(n))
  <2> DEFINE m == Master(n)
  <2>1. p = NoElement \/ p \in Tops(m)
    BY <1>2, <1>8, ParentFacts
  <2>2. ASSUME p = NoElement PROVE FALSE
    <3>1. ~Paired(n) /\ calm <= Lost(n)
      BY <1>6, <1>8, <2>2
    <3>2. From(n) = Lost(n) /\ From(n) \in Nat
      BY <1>1, <1>8, <3>1 DEF From, Lost, InTime
    <3> QED
      BY <1>8, <3>1, <3>2
  <2> QED
    BY <2>1, <2>2
<1>9. OnTop'
  <2> SUFFICES ASSUME NEW x \in Links, ~AtTop[x], NEW f \in Tops(x)' PROVE age'[f] >= calm - Lost(x)
    BY <1>2, <1>3 DEF OnTop
  <2>1. CASE f # e
    BY <1>1, <1>4, <2>1 DEF OnTop
  <2>2. CASE f = e /\ e \in Tops(x)
    <3>1. (x = n /\ p = NoElement) \/ Tops(x)' = Tops(x)
      BY <1>1
    <3>2. x = n
      BY <1>1, <2>2
    <3>3. p = NoElement
      <4>1. e_parent'[e] = NoElement
        BY <2>2 DEF Tops, Lookup
      <4> QED
        BY <1>1, <3>2, <4>1
    <3>4. calm <= Lost(n) /\ Lost(n) \in Nat
      BY <1>1, <1>6, <3>2, <3>3 DEF InTime
    <3> QED
      BY <1>1, <2>2, <3>2, <3>4
  <2>3. CASE f = e /\ e \notin Tops(x)
    <3>1. x = n /\ p = NoElement
      BY <1>1, <2>3
    <3>2. calm <= Lost(n) /\ Lost(n) \in Nat
      BY <1>1, <1>6, <3>1 DEF InTime
    <3> QED
      BY <1>1, <2>3, <3>1, <3>2
  <2> QED
    BY <2>1, <2>2, <2>3
<1>10. Twins'
  <2> SUFFICES ASSUME NEW x \in Links, Paired(x), NEW m, m = Master(x), Tops(m)' # {}, NEW f \in Tops(x)'
               PROVE  age'[f] >= calm
    <3>1. \A x \in Links : Tops(Master(x))' = Tops(kernel.master[x])'
      BY <1>2 DEF Tops, Lookup, Master
    <3> QED
      BY <1>2, <1>3, <3>1 DEF Twins, Master
  <2>1. /\ m \in Links /\ m # x /\ Paired(m) /\ Master(m) = x
        /\ AtTop[m] <=> Tops(m) # {}
        /\ AtTop'[m] <=> Tops(m)' # {}
        /\ Wanted(m) /\ m # NoName
    BY <1>1, <1>3 DEF InOrder
  <2>2. Tops(m) # {}
    BY <1>3, <2>1
  <2>3. CASE f # e
    BY <1>1, <1>4, <2>2, <2>3 DEF Twins
  <2>4. CASE f = e
    <3>1. x = n /\ p = NoElement
      <4>1. x = n
        BY <1>1, <2>4
      <4>2. e_parent'[e] = NoElement
        BY <2>4 DEF Tops, Lookup
      <4> QED
        BY <1>1, <4>1, <4>2
    <3>2. p \in Tops(m)
      BY <1>2, <2>1, <2>2, <3>1, ParentFacts
    <3>3. NoElement \notin Tops(m)
      BY <1>1, <2>1, NullAssumption
    <3> QED
      BY <3>1, <3>2, <3>3
  <2> QED
    BY <2>3, <2>4
<1>11. Put'
  <2> SUFFICES ASSUME NEW x \in Links, calm > From(x), NEW f \in Updated(x)', NEW m, m = Master(x)
               PROVE  IF AtTop[x] THEN e_parent'[f] = NoElement ELSE e_parent'[f] \in Tops(m)'
    <3>1. \A x \in Links : Tops(Master(x))' = Tops(kernel.master[x])'
      BY <1>2 DEF Tops, Lookup, Master
    <3> QED
      BY <1>2, <1>3, <3>1 DEF Put, Master
  <2>1. ~AtTop[x] /\ m \in Links => Tops(m) \subseteq Tops(m)'
    BY <1>1
  <2>2. m \notin Links => Tops(m) = {}
    <3>1. Tops(NoName) = {}
      BY ReportingFacts
    <3> QED
      BY <1>1, <3>1 DEF InOrder
  <2>3. CASE x = n
    BY <1>1, <1>7, <1>8, <2>1, <2>2, <2>3
  <2>4. CASE x # n
    <3>1. f \in Updated(x) /\ e_parent'[f] = e_parent[f]
      BY <1>1, <2>4
    <3>2. IF AtTop[x] THEN e_parent[f] = NoElement ELSE e_parent[f] \in Tops(m)
      BY <1>4, <3>1 DEF Put
    <3> QED
      BY <2>1, <2>2, <3>1, <3>2
  <2> QED
    BY <2>3, <2>4
<1>12. Stay'
  <2> SUFFICES ASSUME NEW x \in Links, AtTop[x], calm > From(x) + 1 PROVE Tops(x)' # {}
    BY <1>2, <1>3 DEF Stay
  <2>1. Tops(x) # {}
    BY <1>2, <1>4 DEF Stay
  <2> QED
    BY <1>1, <2>1
<1>13. OneOfPair'
  BY <1>2, <1>3, <1>4 DEF OneOfPair
<1> QED
  BY <1>9, <1>10, <1>11, <1>12, <1>13

\* The first of a pair at top level: that only happens before anything that stands
\* on the pair is due.
LEMMA ReportChooses ==
  ASSUME IInv, LInv, Registered, kernel \in Kernels, Lifecycles > 1, calm \in Nat, Settling,
         NEW e, NEW n, NEW p, Reporting(e, n, p), Winners' # Winners
  PROVE  (OnTop /\ Twins /\ Put /\ Stay /\ OneOfPair)'
<1>1. /\ \A x \in Links : x \in Names /\ InOrder(x) /\ InTime(x) /\ InOrder(x)' /\ InTime(x)'
      /\ \A x \in Links : Tops(x) \subseteq Tops(x)' /\ (x # n \/ p # NoElement => Tops(x)' = Tops(x))
      /\ \A x \in Links : \A f \in Tops(x) : f \in Elements /\ age[f] \in Nat /\ age[f] < Lifecycles
      /\ \A x \in Links : \A f \in Tops(x)' : f # e => f \in Tops(x) /\ age'[f] = age[f]
      /\ \A x \in Links : x # n => e \notin Tops(x)
      /\ \A x \in Links : x # n => Updated(x)' = Updated(x) /\ \A f \in Updated(x) : e_parent'[f] = e_parent[f]
      /\ n \in Links => /\ Updated(n)' = {e} /\ e_parent'[e] = p /\ Wanted(n)
                        /\ p = NoElement => e \in Tops(n)'
      /\ age'[e] = 0
      /\ Tops(NoName) = {}
  BY ReportingFacts
<1>2. /\ pc = "read" /\ pc' = "read" /\ UNCHANGED <<kernel, calm>>
      /\ n \in Links => p \in Parents(n)
  BY DEF Reporting
<1>3. /\ \A l : (Paired(l)' <=> Paired(l)) /\ Lost(l)' = Lost(l) /\ Master(l)' = Master(l)
      /\ \A x \in Links : \/ Paired(x) /\ From(x)' = Lifecycles - 1 /\ From(x) = Lifecycles - 1
                          \/ ~Paired(x) /\ (AtTop'[x] <=> AtTop[x]) /\ From(x)' = From(x)
                          \/ ~Paired(x) /\ Wanted(x) /\ From(x)' >= Lifecycles /\ Lost(x) >= Lifecycles
  BY <1>2, SameKernel, Rechosen
<1>4. OnTop /\ Twins /\ Put /\ Stay /\ OneOfPair
  BY DEF Settling
<1>5. Lifecycles \in Nat
  BY LifecyclesAssumption
<1>6. n \in Links /\ Paired(n) /\ p = NoElement /\ Tops(n) = {}
  BY FirstOfPair
<1>7. PICK m : m = Master(n)
  OBVIOUS
<1>8. /\ m \in Links /\ m # n /\ Paired(m) /\ Master(m) = n /\ Wanted(m) /\ m # NoName
      /\ ~AtTop[n] /\ (AtTop[m] <=> Tops(m) # {})
  BY <1>1, <1>6, <1>7 DEF InOrder
<1>9. Tops(m) = {} /\ Tops(m)' = {} /\ AtTop'[n]
  <2>1. m # NoName /\ Tops(m) # {} => p \in Tops(m)
    BY <1>2, <1>6, <1>7, <1>8, ParentFacts
  <2>2. NoElement \notin Tops(m)
    BY <1>1, <1>8, NullAssumption
  <2>3. Tops(m) = {}
    BY <1>6, <1>8, <2>1, <2>2
  <2>4. Tops(n)' # {} /\ Paired(n)'
    BY <1>1, <1>3, <1>6
  <2> QED
    BY <1>1, <1>6, <1>8, <2>3, <2>4 DEF InOrder
<1>10. calm <= Lifecycles
  <2>1. ~(calm > Lifecycles)
    BY <1>2, <1>4, <1>6, <1>7, <1>8, <1>9 DEF OneOfPair
  <2> QED
    BY <1>5, <2>1
<1>11. OnTop'
  <2> SUFFICES ASSUME NEW x \in Links, ~AtTop'[x], NEW f \in Tops(x)' PROVE age'[f] >= calm - Lost(x)
    BY <1>2, <1>3 DEF OnTop
  <2>1. x # n
    BY <1>9
  <2>2. f \in Tops(x) /\ age'[f] = age[f] /\ age[f] \in Nat /\ Lost(x) \in Nat
    BY <1>1, <2>1 DEF InTime
  <2>3. CASE Paired(x)
    <3>1. Tops(x)' = {}
      BY <1>1, <1>3, <2>3 DEF InOrder
    <3> QED
      BY <3>1
  <2>4. CASE ~Paired(x) /\ (AtTop'[x] <=> AtTop[x])
    BY <1>4, <2>2, <2>4 DEF OnTop
  <2>5. CASE Lost(x) >= Lifecycles
    BY <1>2, <1>5, <1>10, <2>2, <2>5
  <2> QED
    BY <1>3, <2>3, <2>4, <2>5
<1>12. Twins'
  <2> SUFFICES ASSUME NEW x \in Links, Paired(x), NEW y, y = Master(x), Tops(y)' # {}, NEW f \in Tops(x)'
               PROVE  age'[f] >= calm
    <3>1. \A x \in Links : Tops(Master(x))' = Tops(kernel.master[x])'
      BY <1>2 DEF Tops, Lookup, Master
    <3> QED
      BY <1>2, <1>3, <3>1 DEF Twins, Master
  <2>1. y \in Links /\ y # x /\ Master(y) = x
    BY <1>1 DEF InOrder
  <2>2. x # n
    BY <1>7, <1>9
  <2>3. x # m
    BY <1>9
  <2>4. y # n
    BY <1>7, <2>1, <2>3
  <2>5. Tops(y) # {} /\ f \in Tops(x) /\ age'[f] = age[f]
    BY <1>1, <2>1, <2>2, <2>4
  <2> QED
    BY <1>4, <2>5 DEF Twins
<1>13. Put'
  <2> SUFFICES ASSUME NEW x \in Links, calm > From(x)', NEW f \in Updated(x)', NEW y, y = Master(x)
               PROVE  IF AtTop'[x] THEN e_parent'[f] = NoElement ELSE e_parent'[f] \in Tops(y)'
    <3>1. \A x \in Links : Tops(Master(x))' = Tops(kernel.master[x])'
      BY <1>2 DEF Tops, Lookup, Master
    <3> QED
      BY <1>2, <1>3, <3>1 DEF Put, Master
  <2>1. CASE x = n
    BY <1>1, <1>6, <1>9, <2>1
  <2>2. CASE x # n /\ (AtTop'[x] <=> AtTop[x]) /\ From(x)' = From(x)
    <3>1. f \in Updated(x) /\ e_parent'[f] = e_parent[f]
      BY <1>1, <2>2
    <3>2. IF AtTop[x] THEN e_parent[f] = NoElement ELSE e_parent[f] \in Tops(y)
      BY <1>4, <2>2, <3>1 DEF Put
    <3>3. y = NoName \/ y \in Links
      BY <1>1 DEF InOrder
    <3>4. Tops(y) \subseteq Tops(y)'
      <4>1. CASE y = NoName
        BY <1>1, <4>1
      <4> QED
        BY <1>1, <3>3, <4>1
    <3> QED
      BY <2>2, <3>1, <3>2, <3>4
  <2>3. CASE x # n /\ Paired(x)
    <3>1. AtTop'[x] <=> AtTop[x]
      <4>1. Tops(x)' = Tops(x)
        BY <1>1, <2>3
      <4>2. /\ AtTop[x] <=> Tops(x) # {}
            /\ AtTop'[x] <=> Tops(x)' # {}
        BY <1>1, <1>3, <2>3 DEF InOrder
      <4> QED
        BY <4>1, <4>2
    <3>2. From(x)' = From(x)
      BY <1>3, <2>3
    <3> QED
      BY <2>2, <2>3, <3>1, <3>2
  <2>4. CASE ~Paired(x) /\ From(x)' >= Lifecycles
    <3>1. From(x)' \in Nat
      BY <1>1 DEF InTime
    <3> QED
      BY <1>5, <1>10, <2>4, <3>1
  <2> QED
    BY <1>3, <2>1, <2>2, <2>3, <2>4
<1>14. Stay'
  <2> SUFFICES ASSUME NEW x \in Links, AtTop'[x], calm > From(x)' + 1 PROVE Tops(x)' # {}
    BY <1>2, <1>3 DEF Stay
  <2>1. CASE Paired(x)
    BY <1>1, <1>3, <2>1 DEF InOrder
  <2>2. CASE ~Paired(x) /\ (AtTop'[x] <=> AtTop[x]) /\ From(x)' = From(x)
    <3>1. Tops(x) # {}
      BY <1>2, <1>4, <2>2 DEF Stay
    <3> QED
      BY <1>1, <3>1
  <2>3. CASE From(x)' >= Lifecycles
    <3>1. From(x)' \in Nat
      BY <1>1 DEF InTime
    <3> QED
      BY <1>5, <1>10, <2>3, <3>1
  <2> QED
    BY <1>3, <2>1, <2>2, <2>3
<1>15. OneOfPair'
  <2>1. ~(calm' > Lifecycles) /\ pc' = "read"
    BY <1>2, <1>5, <1>10
  <2> QED
    BY <2>1 DEF OneOfPair
<1> QED
  BY <1>11, <1>12, <1>13, <1>14, <1>15

\* Every report keeps the invariant.
LEMMA ReportSettles ==
  ASSUME IInv, LInv, Registered, ReadInv, ReadInv', SInv, Lifecycles > 1, reading, pc = "read",
         UNCHANGED <<kernel, calm, reading>>,
         NEW n \in Names, NEW p \in Elements \cup {NoElement}, Report(n, p),
         todo # <<>>, n = Head(todo).name,
         n \in Links => p \in Parents(n), n \in Tc => p = Head(todo).parent
  PROVE  SInv'
<1>1. TodoOK /\ Underway /\ calm \in Nat /\ kernel \in Kernels
  BY DEF ReadInv, SInv, TodoOK
<1>2. CASE ObserveDenied(Grp, n, p)
  <2>1. UNCHANGED <<records, e_updated, age>> /\ pc' = pc
    BY <1>2 DEF ObserveDenied
  <2> QED
    BY <2>1, Unmoved
<1>3. CASE ObserveKnown(Grp, n, p) \/ ObserveNew(Grp, n, p)
  <2>1. PICK e \in Elements : Reports(e, n, p)
    BY <1>3, ReportChanges
  <2>2. pc' = "read"
    BY <1>3 DEF ObserveKnown, ObserveNew
  <2>3. Updated(n) = {} /\ (n \in Tc => p \in Updated(TcParent[n]))
    <3>1. todo \in Seq([name : Names, parent : Elements \cup {NoElement}]) /\ TodoFresh
      BY <1>1 DEF TodoOK, Underway
    <3>2. Head(todo) = todo[1] /\ 1 \in DOMAIN todo
      <4> DEFINE R == [name : Names, parent : Elements \cup {NoElement}]
      <4>1. todo \in Seq(R)
        BY <3>1
      <4> HIDE DEF R
      <4> QED
        BY <4>1, TailFacts
    <3> QED
      BY <3>1, <3>2 DEF TodoFresh
  <2>4. IsReported(n)
    <3>1. e \in Updated(n)'
      BY <2>1 DEF Reports, Updated
    <3>2. Rightly'
      <4>1. (TodoOK /\ Underway)'
        BY <2>2 DEF ReadInv
      <4> QED
        BY <4>1, UnderwayRightlyLater
    <3>3. IsReported(n)'
      BY <3>1, <3>2 DEF Rightly, OnlyReported
    <3> QED
      BY <3>3, SameKernel
  <2>5. Reporting(e, n, p)
    BY <2>1, <2>2, <2>3, <2>4 DEF Reporting
  <2>6. (OneGroup /\ TcPlaced /\ Fresh)'
    BY <2>1, <2>3, ReportPlaces
  <2>7. ASSUME calm > 0 PROVE Settling'
    <3>1. Settling
      BY <2>7 DEF SInv
    <3>2. (OnTop /\ Twins /\ Put /\ Stay /\ OneOfPair)'
      BY <1>1, <2>5, <3>1, ReportPutsRight, ReportChooses
    <3>3. (Unreported /\ OffPlace /\ Kept)'
      BY <1>1, <2>5, <3>1, ReportLeavesOthers
    <3> QED
      BY <3>2, <3>3 DEF Settling
  <2> QED
    BY <1>1, <2>2, <2>6, <2>7 DEF SInv
<1> QED
  BY <1>2, <1>3 DEF Report

\* Element v is freed, which nothing hangs below.
Frees(v) ==
    /\ v \in Elements /\ Live(v) /\ Children(v) = {}
    /\ e_group'[v] = NoGroup /\ e_parent'[v] = NoElement /\ e_name'[v] = NoName /\ ~e_updated'[v]
    /\ \A f \in Elements : f # v =>
          /\ e_group'[f] = e_group[f] /\ e_parent'[f] = e_parent[f] /\ e_name'[f] = e_name[f]
          /\ e_updated'[f] = e_updated[f] /\ age'[f] = age[f]
    /\ pc = "free" /\ pc' \in {"reap", "free"} /\ UNCHANGED <<kernel, calm, reading>>
    /\ e_parent[v] = NoElement => ~e_updated[v]
    /\ (\A e \in Elements : e_updated[e] /\ e_parent[e] # NoElement => e_updated[e_parent[e]]) => ~e_updated[v]

\* What element_free() does.
LEMMA FreeChanges ==
  ASSUME IInv, LInv, Between, Fresh, Lifecycles > 1, ElementFree, UNCHANGED <<kernel, calm, reading>>
  PROVE  \E v : Frees(v)
<1>1. /\ e_group \in [Elements -> Groups \cup {NoGroup}]
      /\ e_parent \in [Elements -> Elements \cup {NoElement}]
      /\ e_name \in [Elements -> Names \cup {NoName}]
      /\ e_updated \in [Elements -> BOOLEAN]
      /\ age \in [Elements -> 0 .. AgeCap]
  BY DEF IInv, Lists, TypeOK
<1>2. PICK v \in Elements :
           /\ Live(v) /\ Children(v) = {}
           /\ e_group' = [e_group EXCEPT ![v] = NoGroup]
           /\ e_parent' = [e_parent EXCEPT ![v] = NoElement]
           /\ e_name' = [e_name EXCEPT ![v] = NoName]
           /\ e_updated' = [e_updated EXCEPT ![v] = FALSE]
           /\ age' = [age EXCEPT ![v] = 0]
           /\ pc = "free" /\ pc' \in {"reap", "free"}
           /\ e_parent[v] = NoElement => ~e_updated[v]
           /\ (\A e \in Elements : e_updated[e] /\ e_parent[e] # NoElement => e_updated[e_parent[e]])
                 => ~e_updated[v]
  BY Freed
<1>3. /\ e_group'[v] = NoGroup /\ e_parent'[v] = NoElement /\ e_name'[v] = NoName /\ ~e_updated'[v]
      /\ \A f \in Elements : f # v =>
          /\ e_group'[f] = e_group[f] /\ e_parent'[f] = e_parent[f] /\ e_name'[f] = e_name[f]
          /\ e_updated'[f] = e_updated[f] /\ age'[f] = age[f]
  BY <1>1, <1>2
<1> QED
  BY <1>2, <1>3 DEF Frees

\* What is left at top level, and updated, and that nothing else stands below it.
LEMMA FreedTops ==
  ASSUME NEW v, Frees(v)
  PROVE  /\ \A x \in Names : Tops(x)' = Tops(x) \ {v}
         /\ \A x \in Names : Updated(x)' = Updated(x) \ {v}
         /\ \A f \in Elements : e_parent[f] # v
<1>1. /\ v \in Elements /\ e_name'[v] = NoName /\ Children(v) = {}
      /\ \A f \in Elements : f # v =>
          /\ e_group'[f] = e_group[f] /\ e_parent'[f] = e_parent[f] /\ e_name'[f] = e_name[f]
          /\ e_updated'[f] = e_updated[f]
  BY DEF Frees
<1>2. \A f \in Elements : e_parent[f] # v
  BY <1>1 DEF Children
<1>3. ASSUME NEW x \in Names PROVE Tops(x)' = Tops(x) \ {v} /\ Updated(x)' = Updated(x) \ {v}
  <2>1. x # NoName
    BY NullAssumption
  <2>2. Tops(x)' = Tops(x) \ {v}
    BY <1>1, <2>1 DEF Tops, Lookup
  <2>3. Updated(x)' = Updated(x) \ {v}
    BY <1>1, <2>1 DEF Updated
  <2> QED
    BY <2>2, <2>3
<1> QED
  BY <1>2, <1>3

\* What is left hangs below what it did.
LEMMA FreePlaces ==
  ASSUME IInv, SInv, NEW v, Frees(v)
  PROVE  (OneGroup /\ TcPlaced /\ Fresh)' /\ (Rightly => Rightly')
<1>1. /\ v \in Elements /\ e_group'[v] = NoGroup /\ e_name'[v] = NoName /\ ~e_updated'[v]
      /\ \A f \in Elements : f # v =>
          /\ e_group'[f] = e_group[f] /\ e_parent'[f] = e_parent[f] /\ e_name'[f] = e_name[f]
          /\ e_updated'[f] = e_updated[f] /\ age'[f] = age[f]
      /\ UNCHANGED kernel
  BY DEF Frees
<1>2. /\ \A x \in Names : Updated(x)' = Updated(x) \ {v}
      /\ \A f \in Elements : e_parent[f] # v
  BY FreedTops
<1>3. Tc \subseteq Names /\ NoName \notin Tc /\ \A t \in Tc : TcParent[t] \in Names
  BY KernelAssumption, NullAssumption
<1>4. OneGroup' /\ Fresh'
  BY <1>1 DEF SInv, OneGroup, Fresh, Live
<1>5. TcPlaced'
  <2> SUFFICES ASSUME NEW f \in Elements, e_name'[f] \in Tc
               PROVE  e_parent'[f] # NoElement /\ e_name'[e_parent'[f]] = TcParent[e_name'[f]]
    BY DEF TcPlaced
  <2>1. f # v /\ e_name[f] \in Tc /\ e_parent'[f] = e_parent[f] /\ e_name'[f] = e_name[f]
    BY <1>1, <1>3
  <2>2. e_parent[f] # NoElement /\ e_name[e_parent[f]] = TcParent[e_name[f]]
    BY <2>1 DEF SInv, TcPlaced
  <2>3. e_parent[f] \in Elements /\ e_parent[f] # v
    BY <1>2, <2>2 DEF IInv, Lists, TypeOK
  <2> QED
    BY <1>1, <2>1, <2>2, <2>3
<1>6. ASSUME Rightly PROVE Rightly'
  <2>1. UpdatedOnce'
    BY <1>2, <1>6 DEF Rightly, UpdatedOnce
  <2>2. OnlyReported'
    <3>1. \A n : IsReported(n)' <=> IsReported(n)
      BY <1>1, SameKernel
    <3>2. \A n \in Names : Updated(n)' # {} => Updated(n) # {}
      BY <1>2
    <3> QED
      BY <1>6, <3>1, <3>2 DEF Rightly, OnlyReported
  <2>3. TcRightly'
    <3> SUFFICES ASSUME NEW t \in Tc, NEW e \in Updated(t)' PROVE e_parent'[e] \in Updated(TcParent[t])'
      BY DEF TcRightly
    <3>1. e \in Updated(t) /\ e # v /\ e \in Elements
      BY <1>2, <1>3 DEF Updated
    <3>2. e_parent[e] \in Updated(TcParent[t]) /\ e_parent[e] # v /\ e_parent'[e] = e_parent[e]
      BY <1>1, <1>2, <1>6, <3>1 DEF Rightly, TcRightly
    <3> QED
      BY <1>2, <1>3, <3>2
  <2> QED
    BY <2>1, <2>2, <2>3 DEF Rightly
<1> QED
  BY <1>4, <1>5, <1>6

\* What the proofs about a freed element start from.
LEMMA FreeingFacts ==
  ASSUME IInv, LInv, Registered, kernel \in Kernels, Lifecycles > 1, calm \in Nat, NEW v, Frees(v)
  PROVE  /\ \A x \in Links : InOrder(x) /\ InTime(x) /\ InOrder(x)' /\ InTime(x)' /\ x \in Names
         /\ \A x \in Links : Tops(x)' = Tops(x) \ {v} /\ Updated(x)' = Updated(x) \ {v}
         /\ \A x \in Links : \A f \in Tops(x) : f \in Elements /\ age[f] \in Nat /\ e_parent[f] = NoElement
         /\ \A x \in Links : \A f \in Updated(x) : f \in Elements
         /\ \A f \in Elements : f # v => /\ e_parent'[f] = e_parent[f] /\ e_name'[f] = e_name[f] /\ age'[f] = age[f]
                                         /\ e_updated'[f] = e_updated[f]
         /\ \A f \in Elements : e_parent[f] # v
         /\ Tops(NoName) = {} /\ e_name'[v] = NoName
<1>1. Links \subseteq Names /\ Admitted \subseteq Names /\ Grp # NoGroup /\ NoName \notin Names
  BY KernelAssumption, PolicyAssumption, NullAssumption
<1>2. UNCHANGED kernel
  BY DEF Frees
<1>3. \A x \in Links : InOrder(x) /\ InTime(x) /\ InOrder(x)' /\ InTime(x)'
  BY <1>2, LinkFacts, LinkFactsLater
<1>4. \A x : \A f \in Tops(x) : f \in Elements /\ e_parent[f] = NoElement /\ Live(f) /\ e_name[f] = x
  BY <1>1 DEF Tops, Lookup, Live
<1>5. Tops(NoName) = {}
  BY <1>1, <1>4 DEF Registered, LiveAdmitted
<1>6. \A f \in Elements : age[f] \in Nat
  BY DEF IInv, Lists, TypeOK
<1>7. \A x : \A f \in Updated(x) : f \in Elements
  BY DEF Updated
<1>8. /\ \A x \in Links : Tops(x)' = Tops(x) \ {v} /\ Updated(x)' = Updated(x) \ {v}
      /\ \A f \in Elements : e_parent[f] # v
  BY <1>1, FreedTops
<1>9. /\ \A f \in Elements : f # v => /\ e_parent'[f] = e_parent[f] /\ e_name'[f] = e_name[f] /\ age'[f] = age[f]
                                      /\ e_updated'[f] = e_updated[f]
      /\ e_name'[v] = NoName
  BY DEF Frees
<1> QED
  BY <1>1, <1>3, <1>4, <1>5, <1>6, <1>7, <1>8, <1>9

\* Only the last of a link of a pair at top level changes where links belong, and
\* that is not due then.
LEMMA FreeMoves ==
  ASSUME IInv, LInv, Registered, kernel \in Kernels, Lifecycles > 1, calm \in Nat, Settling, NEW v, Frees(v)
  PROVE  /\ AtTop' = AtTop \/ calm < Lifecycles
         /\ \A x \in Links : calm > From(x)' => (AtTop'[x] <=> AtTop[x]) /\ From(x)' = From(x)
         /\ \A x \in Links : ~AtTop'[x] => ~AtTop[x] \/ Tops(x)' = {} \/ calm <= Lost(x)
<1>1. /\ \A x \in Links : InOrder(x) /\ InTime(x) /\ InOrder(x)' /\ InTime(x)'
      /\ \A x \in Links : Tops(x)' = Tops(x) \ {v}
      /\ \A x \in Links : \A f \in Tops(x) : e_parent[f] = NoElement
  BY FreeingFacts
<1>2. pc = "free" /\ UNCHANGED kernel /\ (e_parent[v] = NoElement => ~e_updated[v])
  BY DEF Frees
<1>3. Lifecycles \in Nat
  BY LifecyclesAssumption
<1>4. CASE Winners' = Winners
  BY <1>2, <1>4, SameChoice
<1>5. CASE Winners' # Winners
  <2>1. \A x : Paired(x)' <=> Paired(x)
    BY <1>2, SameKernel
  <2>2. PICK l \in Links : ~((Paired(l) /\ Tops(l)' # {}) <=> (Paired(l) /\ Tops(l) # {}))
    BY <1>5, <2>1 DEF Winners
  <2>3. Paired(l) /\ Tops(l) = {v}
    BY <1>1, <2>2
  <2>4. AtTop[l] /\ From(l) = Lifecycles - 1
    BY <1>1, <2>3 DEF InOrder
  <2>5. ~(calm > From(l))
    <3>1. calm > From(l) => \E e \in Tops(l) : e_updated[e]
      BY <1>2, <2>4 DEF Settling, Stay
    <3>2. e_parent[v] = NoElement
      BY <1>1, <2>3
    <3> QED
      BY <1>2, <2>3, <3>1, <3>2
  <2>6. calm < Lifecycles
    BY <1>3, <2>4, <2>5
  <2>7. \A x \in Links : \/ Paired(x) /\ From(x)' = Lifecycles - 1 /\ From(x) = Lifecycles - 1
                         \/ ~Paired(x) /\ (AtTop'[x] <=> AtTop[x]) /\ From(x)' = From(x)
                         \/ ~Paired(x) /\ Wanted(x) /\ From(x)' >= Lifecycles /\ Lost(x) >= Lifecycles
    BY <1>2, Rechosen
  <2>8. ASSUME NEW x \in Links
        PROVE  /\ calm > From(x)' => (AtTop'[x] <=> AtTop[x]) /\ From(x)' = From(x)
               /\ ~AtTop'[x] => ~AtTop[x] \/ Tops(x)' = {} \/ calm <= Lost(x)
    <3>1. CASE Paired(x)
      <4>1. From(x)' = Lifecycles - 1
        BY <2>7, <3>1
      <4>2. AtTop'[x] <=> Tops(x)' # {}
        BY <1>1, <2>1, <3>1 DEF InOrder
      <4> QED
        BY <1>3, <2>6, <4>1, <4>2
    <3>2. CASE ~Paired(x) /\ (AtTop'[x] <=> AtTop[x]) /\ From(x)' = From(x)
      BY <3>2
    <3>3. CASE From(x)' >= Lifecycles /\ Lost(x) >= Lifecycles
      <4>1. From(x)' \in Nat /\ Lost(x) \in Nat
        BY <1>1 DEF InTime
      <4> QED
        BY <1>3, <2>6, <3>3, <4>1
    <3> QED
      BY <2>7, <3>1, <3>2, <3>3
  <2> QED
    BY <2>6, <2>8
<1> QED
  BY <1>4, <1>5

\* In a settled tree, what has been updated stands below what has been, too.
LEMMA SettledIsClosed ==
  ASSUME IInv, Registered, kernel \in Kernels, Lifecycles > 1, calm \in Nat, Settling, Rightly,
         pc \in {"reap", "free", "draw"}, calm >= SettleTime,
         NEW e \in Elements, e_updated[e], e_parent[e] # NoElement
  PROVE  e_updated[e_parent[e]]
<1>1. e_name[e] \in Names /\ e \in Updated(e_name[e])
  BY PolicyAssumption DEF Registered, DeadBlank, LiveAdmitted, Updated
<1>2. PICK n \in Names : n = e_name[e]
  BY <1>1
<1>3. CASE n \in Tc
  <2>1. e_parent[e] \in Updated(TcParent[n])
    BY <1>1, <1>2, <1>3 DEF Rightly, TcRightly
  <2> QED
    BY <2>1 DEF Updated
<1>4. CASE n \in Links
  <2>1. Wanted(n)
    <3>1. IsReported(n)
      BY <1>1, <1>2 DEF Rightly, OnlyReported
    <3> QED
      BY <1>4, <3>1, LinkIsReported
  <2>2. \A x \in Links : InOrder(x) /\ InTime(x)
    BY LinkFacts
  <2>3. SettleTime \in Int /\ Lifecycles \in Nat
    <3>1. Cardinality(Links) \in Nat /\ Lifecycles \in Nat
      BY DepthFacts, LifecyclesAssumption
    <3>2. (Cardinality(Links) + 1) \div 2 \in Int
      BY <3>1
    <3>3. \A x, y \in Int : x * y \in Int
      OBVIOUS
    <3> QED
      BY <3>1, <3>2, <3>3 DEF SettleTime
  <2>4. \A x \in Links : calm > From(x) /\ calm >= Lifecycles
    BY <2>2, <2>3 DEF InTime
  <2>5. IF AtTop[n] THEN e_parent[e] = NoElement ELSE e_parent[e] \in Tops(Master(n))
    BY <1>1, <1>2, <1>4, <2>4 DEF Settling, Put
  <2>6. ~AtTop[n] /\ e_parent[e] \in Tops(Master(n))
    BY <2>5
  <2>7. Master(n) \in Links /\ AtTop[Master(n)]
    <3>1. CASE Paired(n)
      <4>1. AtTop[n] <=> ~AtTop[Master(n)]
        BY <1>4, <2>4, <3>1 DEF Settling, OneOfPair
      <4> QED
        BY <1>4, <2>2, <2>6, <3>1, <4>1 DEF InOrder
    <3>2. CASE ~Paired(n)
      BY <1>4, <2>1, <2>2, <2>6, <3>2 DEF InOrder
    <3> QED
      BY <3>1, <3>2
  <2>8. PICK f \in Tops(Master(n)) : e_updated[f]
    BY <2>4, <2>7 DEF Settling, Stay
  <2>9. f = e_parent[e]
    BY <2>6, <2>8, KernelAssumption, NullAssumption DEF Tops, Lookup, Registered, NoTwins, Live
  <2> QED
    BY <2>8, <2>9
<1> QED
  BY <1>3, <1>4, KernelAssumption

\* What has been put right stays so when what is too old is freed.
LEMMA FreeSettles ==
  ASSUME IInv, LInv, Between, Registered, ReadInv, SInv, Lifecycles > 1, ElementFree, UNCHANGED caches
  PROVE  SInv'
<1>1. kernel \in Kernels /\ calm \in Nat /\ UNCHANGED <<kernel, calm, reading>> /\ Fresh
  BY DEF ReadInv, TodoOK, SInv, caches
<1>2. PICK v : Frees(v)
  BY <1>1, FreeChanges
<1>3. (OneGroup /\ TcPlaced /\ Fresh)' /\ (Rightly => Rightly')
  BY <1>2, FreePlaces
<1>4. pc = "free" /\ pc' \in {"reap", "free"}
  BY <1>2 DEF Frees
<1>5. ASSUME Settling, Rightly PROVE Settling'
  <2>1. /\ \A x \in Links : InOrder(x) /\ InTime(x) /\ InOrder(x)' /\ InTime(x)' /\ x \in Names
        /\ \A x \in Links : Tops(x)' = Tops(x) \ {v} /\ Updated(x)' = Updated(x) \ {v}
        /\ \A x \in Links : \A f \in Tops(x) : f \in Elements /\ age[f] \in Nat /\ e_parent[f] = NoElement
        /\ \A x \in Links : \A f \in Updated(x) : f \in Elements
        /\ \A f \in Elements : f # v => /\ e_parent'[f] = e_parent[f] /\ e_name'[f] = e_name[f] /\ age'[f] = age[f]
                                        /\ e_updated'[f] = e_updated[f]
        /\ \A f \in Elements : e_parent[f] # v
        /\ Tops(NoName) = {} /\ e_name'[v] = NoName
    BY <1>1, <1>2, FreeingFacts
  <2>2. /\ AtTop' = AtTop \/ calm < Lifecycles
        /\ \A x \in Links : calm > From(x)' => (AtTop'[x] <=> AtTop[x]) /\ From(x)' = From(x)
        /\ \A x \in Links : ~AtTop'[x] => ~AtTop[x] \/ Tops(x)' = {} \/ calm <= Lost(x)
    BY <1>1, <1>2, <1>5, FreeMoves
  <2>3. /\ \A l : (Paired(l)' <=> Paired(l)) /\ Lost(l)' = Lost(l) /\ Master(l)' = Master(l)
        /\ \A x : IsReported(x)' <=> IsReported(x)
        /\ \A x : Tops(Master(x))' = Tops(kernel.master[x])'
    <3>1. \A x : Tops(Master(x))' = Tops(kernel.master[x])'
      BY <1>1 DEF Tops, Lookup, Master
    <3> QED
      BY <1>1, <3>1, SameKernel
  <2>4. OnTop /\ Unreported /\ OffPlace /\ Twins /\ Put /\ Stay /\ OneOfPair /\ Kept
    BY <1>5 DEF Settling
  <2>5. Lifecycles \in Nat /\ NoName \notin Names
    BY LifecyclesAssumption, NullAssumption
  <2>6. e_parent[v] = NoElement => ~e_updated[v]
    BY <1>2 DEF Frees
  <2>7. OnTop'
    <3> SUFFICES ASSUME NEW x \in Links, ~AtTop'[x], NEW f \in Tops(x)' PROVE age'[f] >= calm - Lost(x)
      BY <1>1, <2>3 DEF OnTop
    <3>1. f \in Tops(x) /\ age'[f] = age[f] /\ age[f] \in Nat /\ Lost(x) \in Nat
      BY <2>1 DEF InTime
    <3>2. CASE ~AtTop[x]
      BY <2>4, <3>1, <3>2 DEF OnTop
    <3>3. CASE calm <= Lost(x)
      BY <1>1, <3>1, <3>3
    <3> QED
      BY <2>2, <3>2, <3>3
  <2>8. Unreported'
    <3> SUFFICES ASSUME NEW f \in Elements, e_name'[f] \in Names, ~IsReported(e_name'[f]) PROVE age'[f] >= calm
      BY <1>1, <2>3 DEF Unreported
    <3>1. f # v
      BY <2>1, <2>5
    <3> QED
      BY <2>1, <2>4, <3>1 DEF Unreported
  <2>9. OffPlace'
    <3> SUFFICES ASSUME NEW f \in Elements, e_name'[f] \in Links,
                        e_parent'[f] \notin {NoElement} \cup Tops(Master(e_name[f]))'
                 PROVE  age'[f] >= calm
      BY <1>1 DEF OffPlace
    <3>1. PICK x \in Links : x = e_name'[f]
      OBVIOUS
    <3>2. PICK m : m = Master(x)
      OBVIOUS
    <3>3. Tops(Master(e_name[f]))' = Tops(m)'
      BY <1>1, <3>1, <3>2 DEF Tops, Lookup, Master
    <3>4. f # v /\ e_name'[f] = e_name[f] /\ e_parent'[f] = e_parent[f] /\ age'[f] = age[f]
      <4>1. NoName \notin Links
        BY <2>5, KernelAssumption
      <4> QED
        BY <2>1, <4>1
    <3>5. m = NoName \/ m \in Links
      BY <2>1, <3>2 DEF InOrder
    <3>6. e_parent[f] \notin {NoElement} \cup Tops(m)
      <4>1. CASE m = NoName
        BY <2>1, <3>4, <3>3, <4>1
      <4>2. CASE m \in Links
        BY <2>1, <3>4, <3>3, <4>2
      <4> QED
        BY <3>5, <4>1, <4>2
    <3> QED
      BY <2>4, <3>4, <3>6, <3>2, <3>1 DEF OffPlace
  <2>10. Twins'
    <3> SUFFICES ASSUME NEW x \in Links, Paired(x), NEW m, m = Master(x), Tops(m)' # {}, NEW f \in Tops(x)'
                 PROVE  age'[f] >= calm
      BY <1>1, <2>3 DEF Twins, Master
    <3>1. m \in Links
      BY <2>1 DEF InOrder
    <3>2. Tops(m) # {} /\ f \in Tops(x) /\ age'[f] = age[f]
      BY <2>1, <3>1
    <3> QED
      BY <2>4, <3>2 DEF Twins
  <2>11. Put'
    <3> SUFFICES ASSUME NEW x \in Links, calm > From(x)', NEW f \in Updated(x)', NEW m, m = Master(x)
                 PROVE  IF AtTop'[x] THEN e_parent'[f] = NoElement ELSE e_parent'[f] \in Tops(m)'
      BY <1>1, <2>3 DEF Put, Master
    <3>1. f \in Updated(x) /\ e_parent'[f] = e_parent[f] /\ e_parent[f] # v
      BY <2>1
    <3>2. IF AtTop[x] THEN e_parent[f] = NoElement ELSE e_parent[f] \in Tops(m)
      BY <2>2, <2>4, <3>1 DEF Put
    <3>3. m = NoName \/ m \in Links
      BY <2>1 DEF InOrder
    <3>4. e_parent[f] \in Tops(m) => e_parent[f] \in Tops(m)'
      BY <2>1, <3>1, <3>3
    <3> QED
      BY <2>2, <3>1, <3>2, <3>4
  <2>12. Stay'
    <3> SUFFICES ASSUME NEW x \in Links, AtTop'[x], calm > From(x)' PROVE \E f \in Tops(x)' : e_updated'[f]
      BY <1>1, <1>4 DEF Stay
    <3>1. AtTop[x] /\ calm > From(x)
      BY <2>2
    <3>2. PICK f \in Tops(x) : e_updated[f]
      BY <1>4, <2>4, <3>1 DEF Stay
    <3>3. f # v
      BY <2>1, <2>6, <3>2
    <3> QED
      BY <2>1, <3>2, <3>3
  <2>13. OneOfPair'
    <3> SUFFICES ASSUME NEW x \in Links, Paired(x), calm >= Lifecycles, NEW m, m = Master(x)
                 PROVE  AtTop'[x] <=> ~AtTop'[m]
      BY <1>1, <1>4, <2>3 DEF OneOfPair, Master
    <3>1. AtTop' = AtTop
      BY <1>1, <2>2, <2>5
    <3> QED
      BY <1>4, <2>4, <3>1 DEF OneOfPair
  <2>14. Kept'
    <3> SUFFICES ASSUME calm >= SettleTime, NEW x \in Names, IsReported(x) PROVE Updated(x)' # {}
      BY <1>1, <2>3 DEF Kept, SettleTime
    <3>1. Updated(x) # {}
      BY <1>4, <2>4 DEF Kept
    <3>2. ~e_updated[v]
      <4>1. \A e \in Elements : e_updated[e] /\ e_parent[e] # NoElement => e_updated[e_parent[e]]
        BY <1>1, <1>4, <1>5, SettledIsClosed
      <4> QED
        BY <1>2, <4>1 DEF Frees
    <3>3. Updated(x)' = Updated(x) \ {v}
      BY <1>2, FreedTops
    <3> QED
      BY <3>1, <3>2, <3>3 DEF Updated
  <2> QED
    BY <2>7, <2>8, <2>9, <2>10, <2>11, <2>12, <2>13, <2>14 DEF Settling
<1> QED
  BY <1>1, <1>3, <1>4, <1>5 DEF SInv

NInv == IInv /\ LInv /\ Between /\ Registered /\ ReadInv /\ (Lifecycles > 1 => SInv)

\* Before the first reading nothing is out of place.
LEMMA SettlingBegins == NetlinkInit => NInv
<1> SUFFICES ASSUME NetlinkInit PROVE NInv
  OBVIOUS
<1>1. IInv /\ Registered /\ ReadInv
  BY NetlinkBegins
<1>2. /\ pc = "keys" /\ calm = 0 /\ Between
      /\ \A e \in Elements : ~Live(e) /\ e_name[e] = NoName /\ ~e_updated[e]
      /\ \A i, j \in DOMAIN group_list : group_list[i] = group_list[j] => i = j
  BY DEF NetlinkInit, NoElementYet, Live, Between
<1>3. LInv
  BY <1>2 DEF LInv, GroupsDistinct, Counted, DeadAtPlace, NoneOverdue
<1>4. \A n : Updated(n) = {}
  BY <1>2 DEF Updated
<1>5. Rightly
  BY <1>4 DEF Rightly, UpdatedOnce, OnlyReported, TcRightly
<1>6. OneGroup /\ TcPlaced /\ Fresh
  BY <1>2, KernelAssumption, NullAssumption DEF OneGroup, TcPlaced, Fresh
<1>7. SInv
  BY <1>2, <1>5, <1>6 DEF SInv
<1> QED
  BY <1>1, <1>2, <1>3, <1>7 DEF NInv

\* Every step keeps right what has been put right.
LEMMA SettlingStep == NInv /\ [NetlinkNext]_<<vars, caches>> => NInv'
<1> SUFFICES ASSUME NInv, [NetlinkNext]_<<vars, caches>> PROVE NInv'
  OBVIOUS
<1>1. IInv /\ LInv /\ Between /\ Registered /\ ReadInv /\ TodoOK
  BY DEF NInv, ReadInv
<1>2. IInv' /\ Registered' /\ ReadInv'
  BY <1>1, NetlinkStep
<1>3. LInv' /\ Between'
  BY <1>1, IsElementsStep, LifetimeStep, BetweenStep
<1>4. ASSUME Lifecycles > 1, SInv PROVE SInv'
  <2>1. CASE Resync
    BY <1>1, <1>4, <2>1, ResyncSettles
  <2>2. CASE ResyncFails
    BY <1>4, <2>2, ResyncFailsSettles
  <2>3. CASE EndReading
    BY <1>1, <1>4, <2>3, EndReadingSettles
  <2>4. CASE DoLink
    <3>1. /\ reading /\ pc = "read" /\ todo # <<>> /\ UNCHANGED <<kernel, calm, reading>>
          /\ Head(todo).name \in Links
      BY <1>1, <2>4 DEF DoLink, TodoOK
    <3>2. PICK n \in Names : n = Head(todo).name
      BY <1>1, <3>1, HeadIsName
    <3>3. n \in Links /\ n \notin Tc
      BY <3>1, <3>2, KernelAssumption
    <3>4. CASE IsSeen(n)
      <4>1. PICK p \in Parents(n) : Report(n, p)
        BY <2>4, <3>2, <3>4 DEF DoLink
      <4>2. p \in Elements \cup {NoElement}
        BY <4>1, ParentsAreElements
      <4> QED
        BY <1>1, <1>2, <1>4, <3>1, <3>2, <3>3, <4>1, <4>2, ReportSettles
    <3>5. CASE ~IsSeen(n)
      <4>1. UNCHANGED vars
        BY <2>4, <3>2, <3>5 DEF DoLink
      <4>2. UNCHANGED <<kernel, calm, reading, records, e_updated, age, pc>>
        BY <3>1, <4>1 DEF vars
      <4> QED
        BY <1>4, <4>2, Unmoved
    <3> QED
      BY <3>4, <3>5
  <2>5. CASE HandleTc
    <3>1. /\ reading /\ pc = "read" /\ todo # <<>> /\ UNCHANGED <<kernel, calm, reading>>
          /\ Head(todo).name \in Tc
      BY <1>1, <2>5 DEF HandleTc, TodoOK
    <3>2. PICK n \in Names, p \in Elements \cup {NoElement} : n = Head(todo).name /\ p = Head(todo).parent
      BY <1>1, <3>1, HeadIsName
    <3>3. n \notin Links /\ Report(n, p)
      BY <2>5, <3>1, <3>2, KernelAssumption DEF HandleTc
    <3> QED
      BY <1>1, <1>2, <1>4, <3>1, <3>2, <3>3, ReportSettles
  <2>6. CASE Reap
    <3>1. CASE ElementFree
      BY <1>1, <1>4, <2>6, <3>1, FreeSettles DEF Reap
    <3>2. CASE CheckIfDead \/ NextGroup
      <4>1. /\ UNCHANGED <<records, e_updated, age>> /\ pc = "reap" /\ pc' # "read"
        BY <3>2 DEF CheckIfDead, NextGroup
      <4>2. UNCHANGED <<kernel, calm, reading>>
        BY <2>6 DEF Reap, caches
      <4> QED
        BY <1>4, <4>1, <4>2, Unmoved
    <3> QED
      BY <2>6, <3>1, <3>2 DEF Reap
  <2>7. CASE DrawScreen
    <3>1. UNCHANGED <<kernel, calm, reading, records, e_updated, age>> /\ pc = "draw" /\ pc' = "keys"
      BY <2>7 DEF DrawScreen, Draw, caches
    <3> QED
      BY <1>4, <3>1, Unmoved
  <2>8. CASE UNCHANGED <<vars, caches>>
    <3>1. UNCHANGED <<kernel, calm, reading, records, e_updated, age, pc>>
      BY <2>8 DEF vars, caches
    <3> QED
      BY <1>4, <3>1, Unmoved
  <2> QED
    BY <2>1, <2>2, <2>3, <2>4, <2>5, <2>6, <2>7, <2>8 DEF NetlinkNext
<1> QED
  BY <1>1, <1>2, <1>3, <1>4 DEF NInv

\* It holds in every reachable state.
LEMMA SettlingInvariance == NetlinkSpec => []NInv
BY SettlingBegins, SettlingStep, PTL DEF NetlinkSpec

Settled ==
    /\ IInv /\ LInv /\ Registered /\ ReadInv /\ SInv /\ Settling /\ Rightly
    /\ pc = "draw" /\ reading /\ Lifecycles > 1 /\ calm >= SettleTime

\* What the proofs about a settled screen start from: all that should be right by
\* now is, and what should be gone is too old to be there.
LEMMA SettledFacts ==
  ASSUME Settled
  PROVE  /\ \A x \in Links : /\ InOrder(x) /\ x \in Names /\ calm > From(x) /\ calm >= Lifecycles
                             /\ calm - Lost(x) >= Lifecycles - 1
         /\ \A e \in Elements : e_name[e] \in Names =>
               /\ Live(e) /\ e_group[e] = Grp /\ age[e] \in Nat /\ age[e] + 1 < Lifecycles
         /\ \A x : \A e \in Tops(x) :
               /\ e \in Elements /\ e_group[e] = Grp /\ e_parent[e] = NoElement /\ e_name[e] = x
               /\ Live(e) /\ age[e] \in Nat /\ age[e] + 1 < Lifecycles
         /\ Tops(NoName) = {} /\ Lifecycles \in Nat /\ calm \in Nat
         /\ \A n \in Names : IsReported(n) => Updated(n) # {}
<1>1. kernel \in Kernels /\ calm \in Nat /\ Lifecycles \in Nat
  BY LifecyclesAssumption DEF Settled, ReadInv, TodoOK, SInv
<1>2. SettleTime \in Int
  <2>1. Cardinality(Links) \in Nat
    BY <1>1, DepthFacts
  <2>2. (Cardinality(Links) + 1) \div 2 \in Int
    BY <2>1
  <2>3. \A x, y \in Int : x * y \in Int
    OBVIOUS
  <2> QED
    BY <1>1, <2>2, <2>3 DEF SettleTime
<1>3. \A x \in Links : InOrder(x) /\ InTime(x)
  BY <1>1, LinkFacts DEF Settled
<1>4. \A x \in Links : /\ InOrder(x) /\ x \in Names /\ calm > From(x) /\ calm >= Lifecycles
                       /\ calm - Lost(x) >= Lifecycles - 1
  <2> SUFFICES ASSUME NEW x \in Links
               PROVE  calm > From(x) /\ calm >= Lifecycles /\ calm - Lost(x) >= Lifecycles - 1
    BY <1>3, KernelAssumption
  <2>1. /\ From(x) \in Nat /\ Lost(x) \in Nat /\ From(x) + 1 <= SettleTime /\ Lifecycles <= SettleTime
        /\ Lost(x) + Lifecycles - 1 <= SettleTime /\ calm >= SettleTime
    BY <1>3 DEF InTime, Settled
  <2> QED
    BY <1>1, <1>2, <2>1
<1>5. \A e \in Elements : Live(e) => age[e] \in Nat /\ age[e] + 1 < Lifecycles
  BY AgeBound DEF Settled
<1>6. \A e \in Elements : e_name[e] \in Names => /\ Live(e) /\ e_group[e] = Grp
                                                 /\ age[e] \in Nat /\ age[e] + 1 < Lifecycles
  BY <1>5, NullAssumption DEF Settled, SInv, OneGroup, Registered, DeadBlank
<1>7. \A x : \A e \in Tops(x) :
        /\ e \in Elements /\ e_group[e] = Grp /\ e_parent[e] = NoElement /\ e_name[e] = x
        /\ Live(e) /\ age[e] \in Nat /\ age[e] + 1 < Lifecycles
  BY <1>5, KernelAssumption, NullAssumption DEF Tops, Lookup, Live
<1>8. Tops(NoName) = {}
  BY <1>7, PolicyAssumption, NullAssumption DEF Settled, Registered, LiveAdmitted
<1>9. \A n \in Names : IsReported(n) => Updated(n) # {}
  BY DEF Settled, Settling, Kept
<1> QED
  BY <1>1, <1>4, <1>6, <1>7, <1>8, <1>9

\* Nothing of its master is left at top level where a link belongs there.
LEMMA MasterGone ==
  ASSUME Settled, NEW l \in Links, AtTop[l]
  PROVE  Tops(Master(l)) = {}
<1>1. PICK m : m = Master(l)
  OBVIOUS
<1>2. SUFFICES ASSUME m # NoName, NEW f \in Tops(m) PROVE FALSE
  BY <1>1, SettledFacts
<1>3. m \in Links /\ age[f] \in Nat /\ age[f] + 1 < Lifecycles
  BY <1>1, <1>2, SettledFacts DEF InOrder
<1>4. CASE Paired(l)
  <2>1. Paired(m) /\ Master(m) = l /\ Tops(l) # {}
    BY <1>1, <1>4, SettledFacts DEF InOrder
  <2>2. age[f] >= calm
    BY <1>2, <1>3, <2>1 DEF Settled, Settling, Twins
  <2>3. calm >= Lifecycles /\ calm \in Nat /\ Lifecycles \in Nat
    BY SettledFacts
  <2> QED
    BY <1>3, <2>2, <2>3
<1>5. CASE ~Paired(l)
  <2>1. ~AtTop[m]
    BY <1>1, <1>2, <1>5, SettledFacts DEF InOrder
  <2>2. age[f] >= calm - Lost(m)
    BY <1>2, <1>3, <2>1 DEF Settled, Settling, OnTop
  <2>3. calm - Lost(m) >= Lifecycles - 1 /\ calm \in Nat /\ Lifecycles \in Nat /\ Lost(m) \in Nat
    <3>1. Lost(m) \in Nat
      BY <1>3, LinkFacts DEF InTime, Settled, ReadInv, TodoOK
    <3> QED
      BY <1>3, <3>1, SettledFacts
  <2> QED
    BY <1>3, <2>2, <2>3
<1> QED
  BY <1>4, <1>5

\* A link on a settled screen has been updated.
LEMMA DrawnLink ==
  ASSUME Settled, NEW e \in Elements, e_name[e] \in Links
  PROVE  e_updated[e]
<1>1. PICK l \in Links : l = e_name[e]
  OBVIOUS
<1>2. PICK m : m = Master(l)
  OBVIOUS
<1>3. /\ InOrder(l) /\ l \in Names /\ calm > From(l) /\ calm >= Lifecycles
      /\ calm - Lost(l) >= Lifecycles - 1 /\ Lifecycles \in Nat /\ calm \in Nat
      /\ Live(e) /\ e_group[e] = Grp /\ age[e] \in Nat /\ age[e] + 1 < Lifecycles
  BY <1>1, SettledFacts
<1>4. Lost(l) \in Nat
  BY LinkFacts DEF InTime, Settled, ReadInv, TodoOK
<1>5. ~(age[e] >= calm) /\ ~(age[e] >= calm - Lost(l))
  BY <1>3, <1>4
<1>6. IsReported(l) /\ e_parent[e] \in {NoElement} \cup Tops(m)
  BY <1>1, <1>2, <1>3, <1>5 DEF Settled, Settling, Unreported, OffPlace
<1>7. PICK u \in Updated(l) : TRUE
  BY <1>3, <1>6, SettledFacts
<1>8. u \in Elements /\ e_name[u] = l /\ e_updated[u]
  BY <1>7 DEF Updated
<1>9. IF AtTop[l] THEN e_parent[u] = NoElement ELSE e_parent[u] \in Tops(m)
  BY <1>2, <1>3, <1>7 DEF Settled, Settling, Put
<1>10. e_parent[u] = e_parent[e]
  <2>1. CASE AtTop[l]
    BY <1>2, <1>6, <1>9, <2>1, MasterGone
  <2>2. CASE ~AtTop[l]
    <3>1. e_parent[e] # NoElement
      <4>1. e_parent[e] = NoElement => e \in Tops(l)
        BY <1>1, <1>3 DEF Tops, Lookup
      <4>2. e \in Tops(l) => age[e] >= calm - Lost(l)
        BY <2>2 DEF Settled, Settling, OnTop
      <4> QED
        BY <1>5, <4>1, <4>2
    <3>2. e_parent[e] \in Tops(m) /\ e_parent[u] \in Tops(m)
      BY <1>6, <1>9, <2>2, <3>1
    <3>3. \A f, h \in Tops(m) : f = h
      BY SettledFacts DEF Settled, Registered, NoTwins
    <3> QED
      BY <3>2, <3>3
  <2> QED
    BY <2>1, <2>2
<1>11. Live(u) /\ e_group[u] = Grp
  BY <1>3, <1>8, SettledFacts
<1>12. u = e
  BY <1>1, <1>3, <1>8, <1>10, <1>11 DEF Settled, Registered, NoTwins
<1> QED
  BY <1>8, <1>12

\* So has everything below it.
LEMMA DrawnIsUpdated ==
  ASSUME Settled, NEW n \in Names
  PROVE  Standing(n) = Updated(n)
<1>1. PICK depth \in [Names -> 0 .. Cardinality(Tc)] : \A t \in Tc : depth[TcParent[t]] < depth[t]
  BY TcAssumption
<1>2. /\ Cardinality(Tc) \in Nat /\ Names = Links \cup Tc
      /\ \A t \in Tc : t \in Names /\ TcParent[t] \in Names
      /\ Links # {}
  <2>1. \E x \in Names : x \notin Tc
    <3>1. PICK f : IsChain(f, n) /\ f[Cardinality(Tc)] \notin Tc
      BY ChainFacts
    <3>2. Cardinality(Tc) \in 0 .. Cardinality(Tc)
      BY TcAssumption, FS_CardinalityType
    <3> QED
      BY <3>1, <3>2 DEF IsChain
  <2> QED
    BY <2>1, TcAssumption, KernelAssumption, FS_CardinalityType
<1>3. \A x \in Names : depth[x] \in Nat /\ depth[x] <= Cardinality(Tc)
  BY <1>1, <1>2
<1> DEFINE I == {k \in Nat : \A e \in Elements : e_name[e] \in Names /\ depth[e_name[e]] < k => e_updated[e]}
<1>4. 0 \in I
  BY <1>3
<1>5. ASSUME NEW k \in Nat, k \in I PROVE k + 1 \in I
  <2> SUFFICES ASSUME NEW e \in Elements, e_name[e] \in Names, depth[e_name[e]] < k + 1
               PROVE  e_updated[e]
    OBVIOUS
  <2>1. PICK t \in Names : t = e_name[e]
    OBVIOUS
  <2>2. CASE t \in Links
    BY <2>1, <2>2, DrawnLink
  <2>3. CASE t \in Tc
    <3>1. PICK p : p = e_parent[e]
      OBVIOUS
    <3>2. p \in Elements /\ e_name[p] = TcParent[t]
      BY <2>1, <2>3, <3>1 DEF Settled, SInv, TcPlaced, IInv, Lists, TypeOK
    <3>3. depth[TcParent[t]] < k /\ TcParent[t] \in Names
      BY <1>1, <1>2, <1>3, <2>1, <2>3
    <3>4. p \in Updated(TcParent[t])
      BY <1>5, <3>2, <3>3 DEF Updated
    <3>5. /\ Live(e) /\ e_group[e] = Grp /\ age[e] \in Nat /\ age[e] + 1 < Lifecycles
          /\ calm >= Lifecycles /\ Lifecycles \in Nat /\ calm \in Nat
      BY <1>2, <2>1, SettledFacts
    <3>6. IsReported(t)
      <4>1. ~(age[e] >= calm)
        BY <3>5
      <4> QED
        BY <2>1, <4>1 DEF Settled, Settling, Unreported
    <3>7. PICK u \in Updated(t) : TRUE
      BY <3>6, SettledFacts
    <3>8. u \in Elements /\ e_name[u] = t /\ e_updated[u]
      BY <3>7 DEF Updated
    <3>9. e_parent[u] \in Updated(TcParent[t])
      BY <2>3, <3>7 DEF Settled, Rightly, TcRightly
    <3>10. e_parent[u] = p
      BY <3>3, <3>4, <3>9 DEF Settled, Rightly, UpdatedOnce
    <3>11. Live(u) /\ e_group[u] = Grp
      BY <3>8, SettledFacts
    <3>12. u = e
      BY <2>1, <3>1, <3>5, <3>8, <3>10, <3>11 DEF Settled, Registered, NoTwins
    <3> QED
      BY <3>8, <3>12
  <2> QED
    BY <1>2, <2>2, <2>3
<1>6. \A k \in Nat : k \in I
  <2> HIDE DEF I
  <2> QED
    BY <1>4, <1>5, NatSetInduction
<1>7. ASSUME NEW e \in Elements, e_name[e] = n PROVE e_updated[e]
  <2>1. depth[n] + 1 \in Nat /\ depth[n] < depth[n] + 1
    BY <1>3
  <2>2. depth[n] + 1 \in I
    BY <1>6, <2>1
  <2> QED
    BY <1>7, <2>1, <2>2
<1> QED
  BY <1>7 DEF Standing, Updated

\* However links and traffic control came, went, moved and changed places before: once
\* the kernel stays as it is, SettleTime readings later, for every number of links,
\* every lifetime and every depth of masters, the screen shows its tree and nothing else.
THEOREM AlwaysSettles == NetlinkSpec => []Settles
<1>1. NInv => Settles
  <2> SUFFICES ASSUME NInv, pc = "draw", reading, Lifecycles > 1, calm >= SettleTime, NEW n \in Names
               PROVE  /\ Cardinality(Standing(n)) = IF IsReported(n) THEN 1 ELSE 0
                      /\ n \in Links =>
                            LET m == {e \in Standing(kernel.master[n]) : e_parent[e] = NoElement}
                            IN  \A e \in Standing(n) :
                                   e_parent[e] \in IF kernel.master[n] = NoName \/ m = {} THEN {NoElement} ELSE m
    BY DEF Settles
  <2>1. calm > 0
    <3>1. PICK l \in Links : TRUE
      <4>1. PICK f : IsChain(f, n) /\ f[Cardinality(Tc)] \notin Tc
        BY ChainFacts
      <4>2. Cardinality(Tc) \in 0 .. Cardinality(Tc)
        BY TcAssumption, FS_CardinalityType
      <4> QED
        BY <4>1, <4>2, KernelAssumption DEF IsChain
    <3>2. Lifecycles <= SettleTime /\ Lifecycles \in Nat /\ calm \in Nat
      BY <3>1, LinkFacts, LifecyclesAssumption DEF InTime, NInv, SInv, ReadInv, TodoOK
    <3>3. SettleTime \in Int
      <4>1. Cardinality(Links) \in Nat
        BY MasterAssumption, FS_CardinalityType
      <4>2. (Cardinality(Links) + 1) \div 2 \in Int
        BY <4>1
      <4>3. \A x, y \in Int : x * y \in Int
        OBVIOUS
      <4> QED
        BY <3>2, <4>2, <4>3 DEF SettleTime
    <3> QED
      BY <3>2, <3>3
  <2>2. Settled
    BY <2>1 DEF Settled, NInv, SInv
  <2>3. Standing(n) = Updated(n)
    BY <2>2, DrawnIsUpdated
  <2>4. Cardinality(Standing(n)) = IF IsReported(n) THEN 1 ELSE 0
    <3>1. CASE IsReported(n)
      <4>1. PICK u \in Updated(n) : TRUE
        BY <2>2, <3>1, SettledFacts
      <4>2. Updated(n) = {u}
        BY <2>2, <4>1 DEF Settled, Rightly, UpdatedOnce
      <4> QED
        BY <2>3, <3>1, <4>2, FS_Singleton
    <3>2. CASE ~IsReported(n)
      <4>1. Updated(n) = {}
        BY <2>2, <3>2 DEF Settled, Rightly, OnlyReported
      <4> QED
        BY <2>3, <3>2, <4>1, FS_EmptySet
    <3> QED
      BY <3>1, <3>2
  <2>5. ASSUME n \in Links, NEW e \in Standing(n), NEW m,
               m = {f \in Standing(kernel.master[n]) : e_parent[f] = NoElement}
        PROVE  e_parent[e] \in IF kernel.master[n] = NoName \/ m = {} THEN {NoElement} ELSE m
    <3>1. /\ InOrder(n) /\ calm > From(n) /\ Tops(NoName) = {}
      BY <2>2, <2>5, SettledFacts
    <3>2. IF AtTop[n] THEN e_parent[e] = NoElement ELSE e_parent[e] \in Tops(Master(n))
      BY <2>2, <2>3, <2>5, <3>1 DEF Settled, Settling, Put
    <3>3. Master(n) # NoName => m = Tops(Master(n))
      <4>1. \A f \in Elements : e_name[f] \in Names => e_group[f] = Grp
        BY <2>2, SettledFacts
      <4>2. Master(n) # NoName => Master(n) \in Names
        BY <3>1, KernelAssumption DEF InOrder
      <4> QED
        BY <2>5, <4>1, <4>2 DEF Tops, Lookup, Standing, Master
    <3>4. CASE AtTop[n]
      <4>1. Tops(Master(n)) = {}
        BY <2>2, <2>5, <3>4, MasterGone
      <4> QED
        BY <3>2, <3>3, <3>4, <4>1 DEF Master
    <3>5. CASE ~AtTop[n]
      BY <3>1, <3>2, <3>3, <3>5 DEF Master
    <3> QED
      BY <3>4, <3>5
  <2> QED
    BY <2>4, <2>5
<1> QED
  BY <1>1, SettlingInvariance, PTL
=============================================================================
