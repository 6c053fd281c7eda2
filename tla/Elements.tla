------------------------------ MODULE Elements ------------------------------
(***************************************************************************)
(* Elements and groups of bmon (src/element.c, src/group.c), driven by the  *)
(* cycle of the main loop (bmon.c:313-348): keys are handled, the update    *)
(* flags are reset, the input modules report what they see, elements that   *)
(* have not been reported for their lifetime are freed, and the screen is   *)
(* drawn.                                                                    *)
(*                                                                          *)
(* The sibling lists e_list / e_childs / g_elements of a group form a       *)
(* forest.  It is represented by the depth-first pre-order in which         *)
(* every walk of the code visits it, order[g], together with e_parent; a    *)
(* list_add_tail() to a parent's children inserts behind the parent's last  *)
(* descendant.  ElementTree keeps the linked lists and implements this      *)
(* module.                                                                  *)
(*                                                                          *)
(* element_free() recurses and moves the selection after each element it    *)
(* takes away, so one step here frees one element.  The program is single   *)
(* threaded: pc keeps the steps of a handler from being interleaved with    *)
(* anything else.                                                           *)
(***************************************************************************)
EXTENDS Integers, Sequences, SequencesExt, FiniteSets, FiniteSetsExt

CONSTANTS
    Elements,     \* addresses xcalloc() may return for a struct element
    Groups,       \* group names that have a header (group_new_hdr)
    Names,        \* element identities: name and e_id together
    Admitted,     \* the names element_allowed() lets in
    Rules,        \* the allow list of the policy: per rule, the names it matches
    Lifecycles,   \* get_lifecycles(): lifetime / read_interval, truncated
    Wrap,         \* 2^32 of the unsigned e_lifecycles, or a smaller stand-in
    AgeCap,       \* bound of the auxiliary variable age
    NoElement, NoGroup, NoName    \* NULL

ASSUME NullAssumption == NoElement \notin Elements /\ NoGroup \notin Groups /\ NoName \notin Names
ASSUME PolicyAssumption == Admitted \subseteq Names /\ Rules \in Seq(SUBSET Names)
ASSUME LifecyclesAssumption == /\ Lifecycles \in Nat
                               /\ Wrap \in Nat /\ 1 < Wrap /\ Lifecycles < Wrap
                               /\ AgeCap \in Nat /\ Lifecycles < AgeCap

VARIABLES
    pc,             \* where the main loop is
    group_list,     \* groups in order of creation
    current_group,
    order,          \* per group, its elements in depth-first pre-order
    e_group, e_parent, e_name, e_lifecycles,
    e_updated,      \* ELEMENT_FLAG_UPDATED
    g_current,      \* per group, the selected element
    g_nelements,
    walk,           \* cursor of group_foreach_recursive(element_check_if_dead)
    age             \* auxiliary: readings since the last lifesign

selection == <<current_group, g_current>>
records == <<e_group, e_parent, e_name>>
vars == <<pc, group_list, selection, order, records, e_lifecycles, e_updated,
          g_nelements, walk, age>>

-----------------------------------------------------------------------------
Live(e) == e_group[e] # NoGroup
IsPlace(w) == w.group \in DOMAIN group_list /\ w.pos \in DOMAIN order[group_list[w.group]]

FirstOf(s, none) == IF s = <<>> THEN none ELSE s[1]
LastOf(s, none) == IF s = <<>> THEN none ELSE s[Len(s)]
PosIn(s, x) == CHOOSE i \in DOMAIN s : s[i] = x

\* Mutant: group_select_prev() that stops at the first group.
GroupSelectPrevNoWrap(g) ==
    IF g = NoGroup THEN LastOf(group_list, NoGroup)
    ELSE LET i == PosIn(group_list, g) IN
         IF i = 1 THEN g ELSE group_list[i - 1]

GroupSelectNext(g) ==
    IF g \in {NoGroup, LastOf(group_list, NoGroup)} THEN FirstOf(group_list, NoGroup)
    ELSE group_list[PosIn(group_list, g) + 1]

GroupSelectPrev(g) ==
    IF g \in {NoGroup, FirstOf(group_list, NoGroup)} THEN LastOf(group_list, NoGroup)
    ELSE group_list[PosIn(group_list, g) - 1]

GroupCurrent(g) == IF g = NoGroup THEN FirstOf(group_list, NoGroup) ELSE g

(***************************************************************************)
(* Selections: a record of current_group and of every group's g_current.    *)
(* The operators are defined where there is a group; without one            *)
(* the functions of element.c return NULL and change nothing.               *)
(***************************************************************************)
Selection == [group |-> current_group, cur |-> g_current]

Pick(s, g, e) == [group |-> g, cur |-> [s.cur EXCEPT ![g] = e]]

SelectFirst(s) == LET g == GroupCurrent(s.group) IN Pick(s, g, FirstOf(order[g], NoElement))

\* The deepest last element of the last tree is the last one in pre-order.
SelectLast(s) == LET g == GroupCurrent(s.group) IN Pick(s, g, LastOf(order[g], NoElement))

\* Mutant: the step down that forgets the children of the selected element.
SelectNextSibling(s) ==
    LET g == GroupCurrent(s.group)
        e == s.cur[g]
        later == {i \in DOMAIN order[g] : i > PosIn(order[g], e)
                                          /\ e_parent[order[g][i]] = e_parent[e]}
    IN  IF e = NoElement THEN SelectFirst(s)
        ELSE IF later # {} THEN Pick(s, g, order[g][Min(later)])
        ELSE SelectFirst([s EXCEPT !.group = GroupSelectNext(g)])

SelectNext(s) ==
    LET g == GroupCurrent(s.group)
        e == s.cur[g]
    IN  IF e = NoElement THEN SelectFirst(s)
        ELSE IF e # LastOf(order[g], NoElement)
             THEN Pick(s, g, order[g][PosIn(order[g], e) + 1])
        ELSE SelectFirst([s EXCEPT !.group = GroupSelectNext(g)])

SelectPrev(s) ==
    LET g == GroupCurrent(s.group)
        e == s.cur[g]
    IN  IF e = NoElement THEN SelectLast(s)
        ELSE IF e # FirstOf(order[g], NoElement)
             THEN Pick(s, g, order[g][PosIn(order[g], e) - 1])
        ELSE SelectLast([s EXCEPT !.group = GroupSelectPrev(g)])

\* The first rule that matches a top-level element, and the first such element.
PickFromPolicy(g) ==
    LET matches(r) == {i \in DOMAIN order[g] : /\ e_parent[order[g][i]] = NoElement
                                               /\ e_name[order[g][i]] \in Rules[r]}
        hits == {r \in DOMAIN Rules : matches(r) # {}}
    IN  IF hits = {} THEN FirstOf(order[g], NoElement)
        ELSE order[g][Min(matches(Min(hits)))]

\* element_current(): the selection after it, an element picked if there was none.
ElementCurrent(s) ==
    LET g == GroupCurrent(s.group)
    IN  IF s.cur[g] = NoElement THEN Pick(s, g, PickFromPolicy(g)) ELSE Pick(s, g, s.cur[g])

SetSelection(s) == current_group' = s.group /\ g_current' = s.cur

-----------------------------------------------------------------------------
NoElementYet ==
    /\ pc = "keys"
    /\ current_group = NoGroup
    /\ order = [g \in Groups |-> <<>>]
    /\ e_group = [e \in Elements |-> NoGroup]
    /\ e_parent = [e \in Elements |-> NoElement]
    /\ e_name = [e \in Elements |-> NoName]
    /\ e_lifecycles = [e \in Elements |-> 0]
    /\ e_updated = [e \in Elements |-> FALSE]
    /\ g_current = [g \in Groups |-> NoElement]
    /\ g_nelements = [g \in Groups |-> 0]
    /\ walk = [group |-> 1, pos |-> 1]
    /\ age = [e \in Elements |-> 0]

Init == NoElementYet /\ group_list = <<>>

(***************************************************************************)
(* output_pre(): the keys that move the selection.  handle_input() is       *)
(* followed by curses_draw(), which calls element_current() unless the      *)
(* screen is too small.                                                     *)
(***************************************************************************)
Key(Move(_)) ==
    /\ pc = "keys" /\ group_list # <<>>
    /\ \E s \in {Move(Selection), ElementCurrent(Move(Selection))} : SetSelection(s)
    /\ UNCHANGED <<pc, group_list, order, records, e_lifecycles, e_updated,
                   g_nelements, walk, age>>

MoveToGroupNext(s) == [s EXCEPT !.group = GroupSelectNext(s.group)]
MoveToGroupPrev(s) == [s EXCEPT !.group = GroupSelectPrev(s.group)]

KeyDown == Key(SelectNext)
KeyUp == Key(SelectPrev)
KeyGroupNext == Key(MoveToGroupNext)
KeyGroupPrev == Key(MoveToGroupPrev)

\* reset_update_flags(): a reading begins.
StartRead ==
    /\ pc = "keys"
    /\ pc' = "read"
    /\ e_updated' = [e \in Elements |-> FALSE]
    /\ age' = [e \in Elements |-> IF Live(e) /\ age[e] < AgeCap THEN age[e] + 1 ELSE age[e]]
    /\ UNCHANGED <<group_list, selection, order, records, e_lifecycles, g_nelements, walk>>

(***************************************************************************)
(* input_read(): an input module has read statistics of name n in group g,  *)
(* as a child of the live element p or at top level.  It looks the group    *)
(* and the element up, creating both, and calls element_notify_update()     *)
(* and element_lifesign(e, 1).                                              *)
(***************************************************************************)
GroupLookup(g) ==
    group_list' = IF g \in {group_list[i] : i \in DOMAIN group_list} THEN group_list
                  ELSE Append(group_list, g)

Lookup(g, n, p) ==
    {e \in Elements : e_group[e] = g /\ e_parent[e] = p /\ e_name[e] = n}

IsParent(p, g) == p = NoElement \/ (p \in Elements /\ e_group[p] = g)

\* list_add_tail(): the position behind the last descendant of p.
\* Mutant: a new child goes to the end of the whole list.
InsertPosAtEnd(g, p) == Len(order[g]) + 1

InsertPos(g, p) ==
    LET s == order[g]
        i == PosIn(s, p)
    IN  IF p = NoElement THEN Len(s) + 1
        ELSE Min({j \in i + 1 .. Len(s) + 1 :
                    j = Len(s) + 1 \/ e_parent[s[j]] \notin {s[k] : k \in i .. j - 1}})

Lifesign(e) ==
    /\ e_lifecycles' = [e_lifecycles EXCEPT ![e] = Lifecycles]
    /\ e_updated' = [e_updated EXCEPT ![e] = TRUE]
    /\ age' = [age EXCEPT ![e] = 0]

ObserveKnown(g, n, p) ==
    /\ pc = "read" /\ IsParent(p, g)
    /\ \E e \in Lookup(g, n, p) : Lifesign(e)
    /\ GroupLookup(g)
    /\ UNCHANGED <<pc, selection, order, records, g_nelements, walk>>

ObserveNew(g, n, p) ==
    /\ pc = "read" /\ IsParent(p, g)
    /\ Lookup(g, n, p) = {} /\ n \in Admitted
    /\ \E e \in Elements :
        /\ ~Live(e)
        /\ e_group' = [e_group EXCEPT ![e] = g]
        /\ e_parent' = [e_parent EXCEPT ![e] = p]
        /\ e_name' = [e_name EXCEPT ![e] = n]
        /\ order' = [order EXCEPT ![g] = InsertAt(@, InsertPos(g, p), e)]
        /\ Lifesign(e)
    /\ g_nelements' = [g_nelements EXCEPT ![g] = @ + 1]
    /\ GroupLookup(g)
    /\ UNCHANGED <<pc, selection, walk>>

\* The policy does not let the name in, yet its group has been created.
ObserveDenied(g, n, p) ==
    /\ pc = "read" /\ IsParent(p, g)
    /\ Lookup(g, n, p) = {} /\ n \notin Admitted
    /\ GroupLookup(g)
    /\ UNCHANGED <<pc, selection, order, records, e_lifecycles, e_updated,
                   g_nelements, walk, age>>

Observe == \E g \in Groups, n \in Names, p \in Elements \cup {NoElement} :
             ObserveKnown(g, n, p) \/ ObserveNew(g, n, p) \/ ObserveDenied(g, n, p)

EndRead ==
    /\ pc = "read"
    /\ pc' = "reap"
    /\ walk' = [group |-> 1, pos |-> 1]
    /\ UNCHANGED <<group_list, selection, order, records, e_lifecycles, e_updated,
                   g_nelements, age>>

-----------------------------------------------------------------------------
(***************************************************************************)
(* free_unused_elements(): element_check_if_dead() on every element in      *)
(* pre-order.  The lifecycles are unsigned: 0 wraps around.                 *)
(***************************************************************************)
\* Mutant: "< 0", which no unsigned number is.
IsDeadNegative(n) == n < 0

IsDead(n) == n = 0

CheckIfDead ==
    /\ pc = "reap" /\ IsPlace(walk)
    /\ LET e == order[group_list[walk.group]][walk.pos]
           n == (e_lifecycles[e] - 1) % Wrap
       IN /\ e_lifecycles' = [e_lifecycles EXCEPT ![e] = n]
          /\ IF IsDead(n)
             THEN pc' = "free" /\ UNCHANGED walk
             ELSE UNCHANGED pc /\ walk' = [walk EXCEPT !.pos = @ + 1]
    /\ UNCHANGED <<group_list, selection, order, records, e_updated, g_nelements, age>>

NextGroup ==
    /\ pc = "reap" /\ ~IsPlace(walk)
    /\ IF walk.group < Len(group_list)
       THEN UNCHANGED pc /\ walk' = [group |-> walk.group + 1, pos |-> 1]
       ELSE pc' = "draw" /\ walk' = [group |-> 1, pos |-> 1]
    /\ UNCHANGED <<group_list, selection, order, records, e_lifecycles, e_updated,
                   g_nelements, age>>

(***************************************************************************)
(* One element_free().  The children go first, so the first element in      *)
(* pre-order without children is the next to leave; the walk resumes when   *)
(* the element it stands on is gone, at what has moved up to its place.     *)
(***************************************************************************)
Children(e) == {c \in Elements : e_parent[c] = e}

\* Mutant: the parent goes first and leaves its children behind.
VictimRoot(s, i) == s[i]

Victim(s, i) == s[Min({k \in i .. Len(s) : Children(s[k]) = {}})]

\* Mutant: list_for_each_entry() in place of the _safe variant steps over the
\* element behind a freed one.
ResumeSkip(w) == [w EXCEPT !.pos = @ + 1]

Resume(w) == w

\* Mutant: the selection is moved but never cleared.
DeselectNoClear(s, e) == IF s.cur[e_group[e]] = e THEN SelectPrev(s) ELSE s

Deselect(s, e) ==
    LET g == e_group[e]
        t == IF s.cur[g] = e THEN SelectPrev(s) ELSE s
    IN  IF t.cur[g] = e THEN [t EXCEPT !.cur[g] = NoElement] ELSE t

\* Mutant: list_del() of another node of the list.
UnlinkLast(s, e) == RemoveAt(s, Len(s))

Unlink(s, e) == RemoveAt(s, PosIn(s, e))

\* Mutant: the count is kept only for top-level elements.
CountWithoutTopLevel(g, e) == IF e_parent[e] = NoElement THEN g_nelements[g] - 1 ELSE g_nelements[g]

CountWithout(g, e) == g_nelements[g] - 1

ElementFree ==
    /\ pc = "free"
    /\ LET g == group_list[walk.group]
           e == Victim(order[g], walk.pos)
       IN /\ SetSelection(Deselect(Selection, e))
          /\ order' = [order EXCEPT ![g] = Unlink(@, e)]
          /\ g_nelements' = [g_nelements EXCEPT ![g] = CountWithout(g, e)]
          /\ e_group' = [e_group EXCEPT ![e] = NoGroup]
          /\ e_parent' = [e_parent EXCEPT ![e] = NoElement]
          /\ e_name' = [e_name EXCEPT ![e] = NoName]
          /\ e_lifecycles' = [e_lifecycles EXCEPT ![e] = 0]
          /\ e_updated' = [e_updated EXCEPT ![e] = FALSE]
          /\ age' = [age EXCEPT ![e] = 0]
          /\ IF e = order[g][walk.pos]
             THEN pc' = "reap" /\ walk' = Resume(walk)
             ELSE UNCHANGED <<pc, walk>>
    /\ UNCHANGED group_list

\* output_draw(): curses_draw() takes element_current(), or returns early
\* when the screen is too small.
Draw ==
    /\ pc = "draw"
    /\ pc' = "keys"
    /\ \/ group_list # <<>> /\ SetSelection(ElementCurrent(Selection))
       \/ UNCHANGED selection
    /\ UNCHANGED <<group_list, order, records, e_lifecycles, e_updated, g_nelements, walk, age>>

Keys == KeyDown \/ KeyUp \/ KeyGroupNext \/ KeyGroupPrev
Loop == StartRead \/ EndRead \/ CheckIfDead \/ NextGroup \/ ElementFree \/ Draw

Next == Keys \/ Observe \/ Loop

Spec == Init /\ [][Next]_vars

-----------------------------------------------------------------------------
TypeOK ==
    /\ pc \in {"keys", "read", "reap", "free", "draw"}
    /\ group_list \in Seq(Groups)
    /\ current_group \in Groups \cup {NoGroup}
    /\ order \in [Groups -> Seq(Elements)]
    /\ e_group \in [Elements -> Groups \cup {NoGroup}]
    /\ e_parent \in [Elements -> Elements \cup {NoElement}]
    /\ e_name \in [Elements -> Names \cup {NoName}]
    /\ e_lifecycles \in [Elements -> 0 .. Wrap - 1]
    /\ e_updated \in [Elements -> BOOLEAN]
    /\ g_current \in [Groups -> Elements \cup {NoElement}]
    /\ g_nelements \in [Groups -> Nat]
    /\ walk \in [group : Nat \ {0}, pos : Nat \ {0}]
    /\ age \in [Elements -> 0 .. AgeCap]

\* Every g_current is NULL or an element that is still allocated and listed in
\* that very group: element_free() never leaves a group's selection pointing
\* at freed memory, though it moves whichever group is the current one.
SelectionLive ==
    \A g \in Groups : g_current[g] # NoElement =>
        /\ e_group[g_current[g]] = g
        /\ \E i \in DOMAIN order[g] : order[g][i] = g_current[g]

\* The lists hold exactly the allocated elements, each once and in its own
\* group: nothing is leaked, listed twice or listed after its xfree().
ListsExact ==
    /\ \A g \in Groups : \A i \in DOMAIN order[g] :
          /\ e_group[order[g][i]] = g
          /\ \A j \in DOMAIN order[g] : order[g][i] = order[g][j] => i = j
    /\ \A e \in Elements : Live(e) => \E i \in DOMAIN order[e_group[e]] : order[e_group[e]][i] = e

\* g_nelements, which the curses list uses for its height, counts the
\* elements of the group at every level, through the recursive frees.
CountExact == \A g \in Groups : g_nelements[g] = Len(order[g])

\* Freeing an element takes its descendants first: no element outlives its parent,
\* and a child is in the group of its parent.
NoOrphans ==
    \A e \in Elements : Live(e) /\ e_parent[e] # NoElement => e_group[e_parent[e]] = e_group[e]

\* The list of a group is a pre-order of its forest: what stands between an
\* element and a child of it descends from the element too.
PreOrder ==
    \A g \in Groups : \A i, j \in DOMAIN order[g] :
        e_parent[order[g][j]] = order[g][i] =>
            /\ i < j
            /\ \A k \in i + 1 .. j - 1 : e_parent[order[g][k]] \in {order[g][m] : m \in i .. k - 1}

\* What is drawn, and what keys act on, was updated in the last reading or in
\* one less than a lifetime ago (bmon.8, -L).
StaleIsDropped ==
    pc \in {"draw", "keys"} => \A e \in Elements : Live(e) => age[e] = 0 \/ age[e] + 1 < Lifecycles

\* Every reading counts every element's lifetime down exactly once: the walk
\* that frees elements while it passes over the list neither skips one nor
\* meets one twice.
CountedOnce ==
    pc = "draw" => \A e \in Elements :
        Live(e) /\ age[e] < AgeCap => e_lifecycles[e] = (Lifecycles - 1 - age[e]) % Wrap

\* The claim of the manual (bmon.8:83-86, -L): an element is no longer displayed
\* when it, or the ancestor it is freed with, has gone without updates for its
\* whole lifetime, a reading being a read interval.  The code does not see to it:
\* the reading that updates an element counts it down too (element.c:321-324).
FreedOnlyWhenStale ==
    [][\A e \in Elements : Live(e) /\ ~Live(e)' =>
          age[order[e_group[e]][walk.pos]] >= Lifecycles]_vars

NoEmptyGroup == group_list # <<>> /\ \A i \in DOMAIN group_list : order[group_list[i]] # <<>>
Selected(s) == <<GroupCurrent(s.group), s.cur[GroupCurrent(s.group)]>>

\* Up undoes Down: while no group is empty, the element selected after both
\* is the one selected before, across the ends of groups and of the group list.
UpUndoesDown ==
    NoEmptyGroup /\ Selected(Selection)[2] # NoElement =>
        /\ Selected(SelectPrev(SelectNext(Selection))) = Selected(Selection)
        /\ Selected(SelectNext(SelectPrev(Selection))) = Selected(Selection)

\* Down visits everything: pressed as often as there are elements, it has
\* selected every element of every group, at every depth, and is back.
DownVisitsAll ==
    LET live == {e \in Elements : Live(e)}
        after[n \in 0 .. Cardinality(live)] ==
            IF n = 0 THEN ElementCurrent(Selection) ELSE SelectNext(after[n - 1])
    IN  NoEmptyGroup =>
          /\ {Selected(after[n])[2] : n \in 1 .. Cardinality(live)} = live
          /\ Selected(after[Cardinality(live)]) = Selected(after[0])
=============================================================================
