------------------------------ MODULE AttrList ------------------------------
(***************************************************************************)
(* The attributes of an element in the order in which the screen shows them *)
(* (e_attr_sorted of src/attr.c), and the selection among them.             *)
(*                                                                          *)
(* An attribute is the rank of its description in strcasecmp() order.       *)
(***************************************************************************)
EXTENDS Integers, Sequences, SequencesExt, FiniteSetsExt

CONSTANTS
    Major, Minor,    \* e_key_attr[GT_MAJOR], e_key_attr[GT_MINOR]
    NoAttr,          \* NULL
    ListHead         \* &e->e_attr_sorted, the list head, taken for an attribute

ASSUME AttrAssumption == /\ Major \in Nat /\ Minor \in Nat /\ Major # Minor
                         /\ ListHead \notin Nat \cup {NoAttr} /\ NoAttr \notin Nat

Attrcmp(a, b) == CASE b = Major -> 1
                   [] b = Minor -> (IF a = Major THEN -1 ELSE 1)
                   [] OTHER -> a - b

\* attr_update(): in front of the first attribute that compares greater.
InsertSorted(s, a) ==
    LET greater == {i \in DOMAIN s : Attrcmp(a, s[i]) < 0}
    IN  InsertAt(s, IF greater = {} THEN Len(s) + 1 ELSE Min(greater), a)

\* e_attr_sorted when the attributes have come in the order of arrivals.
AttrSorted(arrivals) ==
    LET sorted[n \in 0 .. Len(arrivals)] ==
            IF n = 0 THEN <<>> ELSE InsertSorted(sorted[n - 1], arrivals[n])
    IN  sorted[Len(arrivals)]

-----------------------------------------------------------------------------
AttrFirst(s) == IF s = <<>> THEN NoAttr ELSE s[1]

\* attr_select_last() takes the list head itself.
AttrLast(s) == IF s = <<>> THEN NoAttr ELSE ListHead

AttrNext(s, a) ==
    IF a \in {NoAttr, ListHead} \/ a = Last(s) THEN AttrFirst(s)
    ELSE s[Min({i \in DOMAIN s : s[i] = a}) + 1]

\* Mutant: the first attribute is left for the second.
AttrPrevBounces(s, a) ==
    IF a = NoAttr THEN AttrLast(s)
    ELSE IF a = ListHead THEN Last(s)
    ELSE IF a = s[1] THEN AttrNext(s, a)
    ELSE s[Min({i \in DOMAIN s : s[i] = a}) - 1]

\* The list head's neighbour is the last attribute.
AttrPrev(s, a) ==
    IF a = NoAttr \/ (a # ListHead /\ a = s[1]) THEN AttrLast(s)
    ELSE IF a = ListHead THEN Last(s)
    ELSE s[Min({i \in DOMAIN s : s[i] = a}) - 1]

AttrCurrent(s, a) == IF a = NoAttr THEN AttrFirst(s) ELSE a
=============================================================================
