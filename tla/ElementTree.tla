---------------------------- MODULE ElementTree ----------------------------
(***************************************************************************)
(* Elements as the code keeps them: a linked list of top-level elements per *)
(* group (g_elements), a linked list of children per element (e_childs),    *)
(* and the pointer walks of src/element.c and src/group.c over them.  It    *)
(* implements Elements, where the list of a group is its pre-order:         *)
(* list_add_tail(), list_del(), the steps of the selection and the          *)
(* recursive list_for_each_entry_safe() that frees what it stands on come   *)
(* out as steps in that order.                                              *)
(***************************************************************************)
EXTENDS Integers, Sequences, SequencesExt, FiniteSets

CONSTANTS Elements, Groups, Names, Admitted, Rules, Lifecycles, Wrap, AgeCap,
          NoElement, NoGroup, NoName

VARIABLES
    pc, group_list, current_group,
    e_list,         \* g_elements of a group, e_childs of an element
    e_group, e_parent, e_name, e_lifecycles, e_updated, g_current, g_nelements,
    wgroup,         \* the group the reaping walk is in, and per level of the
    stack,          \* recursion the element it stands on and the saved next one
    age

selection == <<current_group, g_current>>
records == <<e_group, e_parent, e_name>>
lifetimes == <<e_lifecycles, e_updated, age>>
walking == <<wgroup, stack>>
vars == <<pc, group_list, selection, e_list, records, lifetimes, g_nelements, walking>>

-----------------------------------------------------------------------------
PosIn(s, x) == CHOOSE i \in DOMAIN s : s[i] = x
ListHead(e) == IF e_parent[e] = NoElement THEN e_group[e] ELSE e_parent[e]
IsLast(e) == e = Last(e_list[ListHead(e)])
IsFirst(e) == e = Head(e_list[ListHead(e)])
Neighbour(e, d) == LET s == e_list[ListHead(e)] IN s[PosIn(s, e) + d]

\* "while (!list_empty(&e->e_childs)) e = last / first child"
DeepestLast[e \in Elements] == IF e_list[e] = <<>> THEN e ELSE DeepestLast[Last(e_list[e])]
DeepestFirst[e \in Elements] == IF e_list[e] = <<>> THEN e ELSE DeepestFirst[Head(e_list[e])]

\* "move upwards until we have no parent or there is a next entry"
\* Mutant: only one level up.
ClimbOnce[e \in Elements] == IF e_parent[e] # NoElement /\ IsLast(e) THEN e_parent[e] ELSE e
Climb[e \in Elements] == IF e_parent[e] # NoElement /\ IsLast(e) THEN Climb[e_parent[e]] ELSE e

GroupNext(g) == IF g \in {NoGroup, Last(group_list)} THEN Head(group_list)
                ELSE group_list[PosIn(group_list, g) + 1]
GroupPrev(g) == IF g \in {NoGroup, Head(group_list)} THEN Last(group_list)
                ELSE group_list[PosIn(group_list, g) - 1]
GroupCurrent(g) == IF g = NoGroup THEN Head(group_list) ELSE g

Selection == [group |-> current_group, cur |-> g_current]
Pick(s, g, e) == [group |-> g, cur |-> [s.cur EXCEPT ![g] = e]]

SelectFirst(s) ==
    LET g == GroupCurrent(s.group)
    IN  Pick(s, g, IF e_list[g] = <<>> THEN NoElement ELSE Head(e_list[g]))

SelectLast(s) ==
    LET g == GroupCurrent(s.group)
    IN  Pick(s, g, IF e_list[g] = <<>> THEN NoElement ELSE DeepestLast[Last(e_list[g])])

\* Mutant: the step down climbs one level only.
SelectNextShallow(s) ==
    LET g == GroupCurrent(s.group)
        e == s.cur[g]
        u == IF e = NoElement THEN e ELSE ClimbOnce[e]
    IN  IF e = NoElement THEN SelectFirst(s)
        ELSE IF e_list[e] # <<>> THEN Pick(s, g, Head(e_list[e]))
        ELSE IF IsLast(u) THEN SelectFirst([s EXCEPT !.group = GroupNext(g)])
        ELSE Pick(s, g, Neighbour(u, 1))

SelectNext(s) ==
    LET g == GroupCurrent(s.group)
        e == s.cur[g]
        u == IF e = NoElement THEN e ELSE Climb[e]
    IN  IF e = NoElement THEN SelectFirst(s)
        ELSE IF e_list[e] # <<>> THEN Pick(s, g, Head(e_list[e]))
        ELSE IF e_parent[u] = NoElement /\ IsLast(u)
             THEN SelectFirst([s EXCEPT !.group = GroupNext(g)])
        ELSE Pick(s, g, Neighbour(u, 1))

SelectPrev(s) ==
    LET g == GroupCurrent(s.group)
        e == s.cur[g]
    IN  IF e = NoElement THEN SelectLast(s)
        ELSE IF ~IsFirst(e) THEN Pick(s, g, DeepestLast[Neighbour(e, -1)])
        ELSE IF e_parent[e] # NoElement THEN Pick(s, g, e_parent[e])
        ELSE SelectLast([s EXCEPT !.group = GroupPrev(g)])

\* element_current(), with element_pick_from_policy() over the top-level list.
ElementCurrent(s) ==
    LET g == GroupCurrent(s.group)
        hits(r) == SelectSeq(e_list[g], LAMBDA e : e_name[e] \in Rules[r])
        matching == {r \in DOMAIN Rules : hits(r) # <<>>}
        rule == CHOOSE r \in matching : \A q \in matching : r <= q
    IN  IF s.cur[g] # NoElement THEN Pick(s, g, s.cur[g])
        ELSE IF matching # {} THEN Pick(s, g, Head(hits(rule)))
        ELSE SelectFirst([s EXCEPT !.group = g])

SetSelection(s) == current_group' = s.group /\ g_current' = s.cur

-----------------------------------------------------------------------------
Init ==
    /\ pc = "keys" /\ group_list = <<>> /\ current_group = NoGroup
    /\ e_list = [h \in Groups \cup Elements |-> <<>>]
    /\ e_group = [e \in Elements |-> NoGroup]
    /\ e_parent = [e \in Elements |-> NoElement]
    /\ e_name = [e \in Elements |-> NoName]
    /\ e_lifecycles = [e \in Elements |-> 0]
    /\ e_updated = [e \in Elements |-> FALSE]
    /\ g_current = [g \in Groups |-> NoElement]
    /\ g_nelements = [g \in Groups |-> 0]
    /\ wgroup = 1 /\ stack = <<>>
    /\ age = [e \in Elements |-> 0]

Key ==
    /\ pc = "keys" /\ group_list # <<>>
    /\ \E t \in {SelectNext(Selection), SelectPrev(Selection),
                 [Selection EXCEPT !.group = GroupNext(@)],
                 [Selection EXCEPT !.group = GroupPrev(@)]} :
         \E s \in {t, ElementCurrent(t)} : SetSelection(s)
    /\ UNCHANGED <<pc, group_list, e_list, records, lifetimes, g_nelements, walking>>

StartRead ==
    /\ pc = "keys" /\ pc' = "read"
    /\ e_updated' = [e \in Elements |-> FALSE]
    /\ age' = [e \in Elements |-> IF e_group[e] # NoGroup /\ age[e] < AgeCap
                                  THEN age[e] + 1 ELSE age[e]]
    /\ UNCHANGED <<group_list, selection, e_list, records, e_lifecycles, g_nelements, walking>>

\* __lookup_element() runs over one sibling list.
Lookup(head, n) == {e \in Elements : n = e_name[e]
                                     /\ \E i \in DOMAIN e_list[head] : e_list[head][i] = e}

Lifesign(e) ==
    /\ e_lifecycles' = [e_lifecycles EXCEPT ![e] = Lifecycles]
    /\ e_updated' = [e_updated EXCEPT ![e] = TRUE]
    /\ age' = [age EXCEPT ![e] = 0]

Create(g, n, p, head) ==
    \E e \in Elements :
        /\ e_group[e] = NoGroup
        /\ e_group' = [e_group EXCEPT ![e] = g]
        /\ e_parent' = [e_parent EXCEPT ![e] = p]
        /\ e_name' = [e_name EXCEPT ![e] = n]
        /\ e_list' = [e_list EXCEPT ![head] = Append(@, e)]
        /\ g_nelements' = [g_nelements EXCEPT ![g] = @ + 1]
        /\ Lifesign(e)

Observe(g, n, p) ==
    LET head == IF p = NoElement THEN g ELSE p
        found == Lookup(head, n)
    IN  /\ pc = "read"
        /\ p # NoElement => e_group[p] = g
        /\ group_list' = IF Contains(group_list, g) THEN group_list ELSE Append(group_list, g)
        /\ \/ /\ \E e \in found : Lifesign(e)
              /\ UNCHANGED <<e_list, records, g_nelements>>
           \/ found = {} /\ n \in Admitted /\ Create(g, n, p, head)
           \/ found = {} /\ n \notin Admitted /\ UNCHANGED <<e_list, records, lifetimes, g_nelements>>
        /\ UNCHANGED <<pc, selection, walking>>

(***************************************************************************)
(* __group_foreach_element(): a frame per level holds the element and the   *)
(* next one, read before the callback.  After the callback the code looks   *)
(* at e_childs of an element that may just have been freed; list_del() of   *)
(* the children has left that list pointing to itself, and what it finds    *)
(* there is taken to be that.                                               *)
(***************************************************************************)
Frame(s, i) == [e |-> s[i], next |-> IF i = Len(s) THEN NoElement ELSE s[i + 1]]
Enter(s) == IF s = <<>> THEN <<>> ELSE <<Frame(s, 1)>>
Top == Last(stack)

Step(st, k) ==
    LET n == st[k].next
        siblings == e_list[ListHead(n)]
    IN  Append(SubSeq(st, 1, k - 1), Frame(siblings, PosIn(siblings, n)))

\* Leave the levels whose list is at its end; step to the saved next element.
Advance(st) ==
    LET open == {k \in DOMAIN st : st[k].next # NoElement}
    IN  IF open = {} THEN <<>> ELSE Step(st, CHOOSE k \in open : \A m \in open : m <= k)

EndRead ==
    /\ pc = "read" /\ pc' = "reap"
    /\ wgroup' = 1
    /\ stack' = IF group_list = <<>> THEN <<>> ELSE Enter(e_list[Head(group_list)])
    /\ UNCHANGED <<group_list, selection, e_list, records, lifetimes, g_nelements>>

CheckIfDead ==
    /\ pc = "reap" /\ stack # <<>>
    /\ LET e == Top.e
           n == (e_lifecycles[e] - 1) % Wrap
       IN /\ e_lifecycles' = [e_lifecycles EXCEPT ![e] = n]
          /\ IF n = 0
             THEN pc' = "free" /\ UNCHANGED stack
             ELSE /\ UNCHANGED pc
                  /\ stack' = IF e_list[e] # <<>> THEN stack \o Enter(e_list[e])
                              ELSE Advance(stack)
    /\ UNCHANGED <<group_list, selection, e_list, records, e_updated, age, g_nelements, wgroup>>

NextGroup ==
    /\ pc = "reap" /\ stack = <<>>
    /\ IF wgroup < Len(group_list)
       THEN /\ UNCHANGED pc
            /\ wgroup' = wgroup + 1
            /\ stack' = Enter(e_list[group_list[wgroup + 1]])
       ELSE pc' = "draw" /\ wgroup' = 1 /\ stack' = <<>>
    /\ UNCHANGED <<group_list, selection, e_list, records, lifetimes, g_nelements>>

Deselect(s, e) ==
    LET g == e_group[e]
        t == IF s.cur[g] = e THEN SelectPrev(s) ELSE s
    IN  IF t.cur[g] = e THEN [t EXCEPT !.cur[g] = NoElement] ELSE t

\* The innermost element_free() of the recursion finishes first.
ElementFree ==
    /\ pc = "free"
    /\ LET e == DeepestFirst[Top.e]
           g == e_group[e]
       IN /\ SetSelection(Deselect(Selection, e))
          /\ e_list' = [e_list EXCEPT ![ListHead(e)] = Remove(@, e)]
          /\ g_nelements' = [g_nelements EXCEPT ![g] = @ - 1]
          /\ e_group' = [e_group EXCEPT ![e] = NoGroup]
          /\ e_parent' = [e_parent EXCEPT ![e] = NoElement]
          /\ e_name' = [e_name EXCEPT ![e] = NoName]
          /\ e_lifecycles' = [e_lifecycles EXCEPT ![e] = 0]
          /\ e_updated' = [e_updated EXCEPT ![e] = FALSE]
          /\ age' = [age EXCEPT ![e] = 0]
          /\ IF e = Top.e THEN pc' = "reap" /\ stack' = Advance(stack)
                          ELSE UNCHANGED <<pc, stack>>
    /\ UNCHANGED <<group_list, wgroup>>

Draw ==
    /\ pc = "draw" /\ pc' = "keys"
    /\ \/ group_list # <<>> /\ SetSelection(ElementCurrent(Selection))
       \/ UNCHANGED selection
    /\ UNCHANGED <<group_list, e_list, records, lifetimes, g_nelements, walking>>

Next ==
    \/ Key \/ StartRead \/ EndRead \/ CheckIfDead \/ NextGroup \/ ElementFree \/ Draw
    \/ \E g \in Groups, n \in Names, p \in Elements \cup {NoElement} : Observe(g, n, p)

Spec == Init /\ [][Next]_vars

-----------------------------------------------------------------------------
\* The list of a group in Elements: each element followed by its children's trees.
Tree[e \in Elements] ==
    <<e>> \o FlattenSeq([i \in DOMAIN e_list[e] |-> Tree[e_list[e][i]]])

PreOrder(g) == FlattenSeq([i \in DOMAIN e_list[g] |-> Tree[e_list[g][i]]])

WalkPos ==
    IF pc \notin {"reap", "free"} \/ group_list = <<>> THEN 1
    ELSE LET s == PreOrder(group_list[wgroup])
         IN  IF stack = <<>> THEN Len(s) + 1 ELSE PosIn(s, Top.e)

Forest == INSTANCE Elements WITH order <- [g \in Groups |-> PreOrder(g)],
                                 walk <- [group |-> wgroup, pos |-> WalkPos]

\* The pointer walks over the sibling lists are steps in pre-order: everything
\* shown of Elements holds of the lists the code keeps.
ImplementsElements == Forest!Spec
============================================================================
