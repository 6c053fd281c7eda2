------------------------------- MODULE Curses -------------------------------
(***************************************************************************)
(* The curses output (src/out_curses.c): keys, dialogs, and what the screen *)
(* has room for.  The elements and their selection are those of Elements;   *)
(* what a reading does to them is given by its result, a forest and a       *)
(* selection in it.  handle_input() and the curses_draw() after it are two  *)
(* steps, with nothing in between.                                          *)
(***************************************************************************)
EXTENDS AttrList, FiniteSets

CONSTANTS
    Elements, Groups, NoElement, NoGroup,
    Forests,         \* what a reading may leave: per group the elements in pre-order
    Arrivals,        \* per element, its attributes in the order the input reports them
    Infos,           \* per element, e_ninfo
    Screens,         \* sizes of the terminal: [rows, cols]
    GraphHeights, GraphWidth, ListMins,    \* options gheight, gwidth, minlist
    MaxGraphs,       \* 32, the bound of c_ngraph
    Histories        \* the number of history definitions

ASSUME ScreenAssumption == /\ \A s \in Screens : s.rows \in Nat /\ s.cols \in Nat
                           /\ GraphHeights \subseteq Nat \ {0} /\ ListMins \subseteq Nat \ {0}

\* An element is in one list, and once.
ASSUME ForestAssumption ==
    /\ NoElement \notin Elements /\ NoGroup \notin Groups
    /\ Forests \subseteq [Groups -> Seq(Elements)]
    /\ \A f \in Forests : \A g, h \in Groups : \A i \in DOMAIN f[g], j \in DOMAIN f[h] :
          f[g][i] = f[h][j] => g = h /\ i = j

\* attr_lookup() finds what is there: no attribute comes twice.
ASSUME DisplayAssumption ==
    /\ Arrivals \in [Elements -> Seq(Nat)]
    /\ \A e \in Elements : \A i, j \in DOMAIN Arrivals[e] : Arrivals[e][i] = Arrivals[e][j] => i = j
    /\ Infos \in [Elements -> Nat]
    /\ GraphWidth \in Nat /\ MaxGraphs \in Nat \ {0} /\ Histories \in Nat \ {0}

VARIABLES
    pc, group_list, current_group, order, g_current,
    e_current_attr,
    show,              \* c_show_list, c_show_graph, c_show_details, c_show_info
    c_ngraph, c_list_min, gc_height,
    quit_mode, print_help,
    dialog,            \* the dialog on the screen
    rows, cols,
    list_length, current_element, current_attr,
    current_history    \* 0 for NULL

forest == <<group_list, order>>
selection == <<current_group, g_current>>
options == <<c_list_min, gc_height>>
toggles == <<show, c_ngraph, quit_mode, print_help>>
drawn == <<dialog, rows, cols, list_length, current_element, current_attr>>
vars == <<pc, forest, selection, e_current_attr, options, toggles, drawn, current_history>>

Sections == {"list", "graph", "details", "info"}

\* Per element, e_attr_sorted.
Attrs == [e \in Elements |-> AttrSorted(Arrivals[e])]

Forest == INSTANCE Elements WITH
    Names <- {}, Admitted <- {}, Rules <- <<>>, Lifecycles <- 0, Wrap <- 2, AgeCap <- 1,
    NoName <- NoGroup,
    e_group <- [e \in Elements |-> NoGroup], e_parent <- [e \in Elements |-> NoElement],
    e_name <- [e \in Elements |-> NoGroup], e_lifecycles <- [e \in Elements |-> 0],
    e_updated <- [e \in Elements |-> FALSE], g_nelements <- [g \in Groups |-> 0],
    walk <- [group |-> 1, pos |-> 1], age <- [e \in Elements |-> 0]

Live == UNION {Range(order[g]) : g \in Groups}
IsSmall(s) == s.rows < 4 \/ s.cols < 48
Screen == [rows |-> rows, cols |-> cols]

\* element_current() after it has picked an element, if there is a group.
Current(s) == IF group_list = <<>> THEN NoElement ELSE s.cur[Forest!GroupCurrent(s.group)]

-----------------------------------------------------------------------------
(***************************************************************************)
(* The budget of lines: what each section asks for when e is selected on a   *)
(* screen scr.                                                              *)
(***************************************************************************)
Ceil(n, m) == (n + m - 1) \div m
DetailCols(scr) == Max({1, scr.cols \div 40})

\* The lines of the full list: group titles, shown as NoElement, and elements.
Lines == FlattenSeq([i \in DOMAIN group_list |-> <<NoElement>> \o order[group_list[i]]])

ListReq == IF "list" \in show THEN Len(Lines) ELSE 1

Ngraph(e) == IF "graph" \in show THEN Min({Len(Attrs[e]), c_ngraph}) ELSE 0
SideBySide(scr) == scr.cols > 2 * (GraphWidth + 10)

\* Mutant: the header and the time axis of a graph are forgotten.
TableLinesBare == gc_height

TableLines == gc_height + 2
GraphReq(e, scr) == Ngraph(e) * (IF SideBySide(scr) THEN 1 ELSE 2) * TableLines + 1
DetailsReq(e, scr) == IF "details" \in show THEN 2 + Ceil(Len(Attrs[e]), DetailCols(scr)) ELSE 1
InfoReq(e, scr) == IF "info" \in show THEN 1 + Ceil(Infos[e], DetailCols(scr)) ELSE 1
Available(scr) == scr.rows - 2

\* draw_content(): the first way to make room that leaves the list enough lines.
Try(if, len, off) == [if |-> if, len |-> len, off |-> off]
Tries(e, scr) ==
    LET total == ListReq + GraphReq(e, scr) + DetailsReq(e, scr) + InfoReq(e, scr)
    IN  << Try("list" \in show, Available(scr) - (total - ListReq), {}),
           Try("info" \in show, Available(scr) - (total - InfoReq(e, scr) + 1), {"info"}),
           Try("details" \in show, Available(scr) - (total - DetailsReq(e, scr) + 1), {"details"}),
           Try(TRUE, Available(scr) - 3, {"graph", "details", "info"}) >>

Plan(e, scr) ==
    LET tries == Tries(e, scr)
        total == ListReq + GraphReq(e, scr) + DetailsReq(e, scr) + InfoReq(e, scr)
        good == {i \in DOMAIN tries : tries[i].if /\ tries[i].len >= c_list_min}
        t == tries[IF good = {} THEN 4 ELSE Min(good)]
    IN  IF total <= Available(scr) THEN [fits |-> TRUE, len |-> ListReq, off |-> {}]
        ELSE [fits |-> good # {}, len |-> t.len, off |-> t.off]

SelectionOffset(e) ==
    IF "list" \in show THEN Min({i \in DOMAIN Lines : Lines[i] = e}) - 1 ELSE 0

\* Mutant: the selected element is put on the last line, not in the middle.
OffsetAtEnd(e, len) ==
    IF len <= 0 THEN 0
    ELSE Min({Max({SelectionOffset(e) - len, 0}), ListReq - len})

\* The selected element comes to the middle, unless it is near an end.
Offset(e, len) ==
    IF SelectionOffset(e) = 0 \/ len <= 0 THEN 0
    ELSE Min({Max({SelectionOffset(e) - (len \div 2), 0}), ListReq - len})

LineVisible(i, e, len) == Offset(e, len) <= i - 1 /\ i - 1 < Offset(e, len) + len

GraphOffset(e) ==
    IF current_attr \in Range(Attrs[e])
    THEN Min({i \in DOMAIN Attrs[e] : Attrs[e][i] = current_attr}) - 1 ELSE 0

AttrVisible(i, e) == GraphOffset(e) <= i - 1 /\ i - 1 < GraphOffset(e) + Ngraph(e)

\* The rows that the sections take when they are drawn, with their headings.
Drawn(section, e, scr) == section \in show \ Plan(e, scr).off
ListRows(e, scr) ==
    IF Drawn("list", e, scr)
    THEN Cardinality({i \in DOMAIN Lines : LineVisible(i, e, Plan(e, scr).len)}) ELSE 1
\* draw_table(): a heading, the rows of the graph and its time axis.
TableRows == 1 + gc_height + 1

GraphRows(e, scr) ==
    IF Drawn("graph", e, scr)
    THEN 1 + Cardinality({i \in DOMAIN Attrs[e] : AttrVisible(i, e)})
             * (IF SideBySide(scr) THEN 1 ELSE 2) * TableRows
    ELSE 1
DetailsRows(e, scr) ==
    IF Drawn("details", e, scr) /\ Attrs[e] # <<>> THEN 2 + Ceil(Len(Attrs[e]), DetailCols(scr)) ELSE 1

\* draw_info(): behind every full row it goes to the next, the last one included,
\* and on the row it ends on it draws vertical lines.
InfoRows(e, scr) ==
    IF Drawn("info", e, scr) /\ Infos[e] > 0 THEN 2 + Infos[e] \div DetailCols(scr) ELSE 1
EmptyLines(e, scr) ==
    Max({0, scr.rows - ListRows(e, scr) - GraphRows(e, scr) - DetailsReq(e, scr) - InfoReq(e, scr) - 2})
RowsUsed(e, scr) == ListRows(e, scr) + GraphRows(e, scr) + EmptyLines(e, scr) + DetailsRows(e, scr) + InfoRows(e, scr)

-----------------------------------------------------------------------------
\* Values of the statics and of the command line's options ngraph, details,
\* info, minlist and gheight.  ngraph=0 switches the graphs off.
Init ==
    /\ pc = "keys"
    /\ group_list = <<>> /\ order = [g \in Groups |-> <<>>]
    /\ current_group = NoGroup /\ g_current = [g \in Groups |-> NoElement]
    /\ e_current_attr = [e \in Elements |-> NoAttr]
    /\ c_ngraph \in {0, 1}
    /\ show \in {s \in SUBSET Sections : "list" \in s /\ ("graph" \in s <=> c_ngraph # 0)}
    /\ c_list_min \in ListMins /\ gc_height \in GraphHeights
    /\ quit_mode = FALSE /\ print_help = FALSE /\ dialog = "none"
    /\ rows = 0 /\ cols = 0
    /\ list_length = 0 /\ current_element = NoElement /\ current_attr = NoAttr
    /\ current_history = 0

\* A key after which handle_input() returns 1: the screen is drawn again.
\* Mutant: handle_input() returns 0.
HandledNoRedraw == pc = "keys" /\ pc' = "keys"

Handled == pc = "keys" /\ pc' = "redraw"

KeyOnDialog(quit, help) ==
    /\ Handled
    /\ quit_mode' = quit /\ print_help' = help
    /\ UNCHANGED <<forest, selection, e_current_attr, options, show, c_ngraph, drawn,
                   current_history>>

KeyQ == IF print_help THEN KeyOnDialog(quit_mode, FALSE) ELSE KeyOnDialog(~quit_mode, FALSE)
KeyEsc == KeyOnDialog(FALSE, FALSE)
KeyN == KeyOnDialog(FALSE, print_help)
KeyHelp == KeyOnDialog(quit_mode, ~print_help)
KeyRedraw == KeyOnDialog(quit_mode, print_help)

KeyY ==
    /\ pc = "keys" /\ quit_mode
    /\ pc' = "exited"
    /\ UNCHANGED <<forest, selection, e_current_attr, options, toggles, drawn, current_history>>

KeyToggle(section) ==
    /\ Handled
    /\ show' = (show \ {section}) \cup ({section} \ show)
    /\ c_ngraph' = IF section = "graph" /\ "graph" \notin show /\ c_ngraph = 0
                   THEN 1 ELSE c_ngraph
    /\ UNCHANGED <<forest, selection, e_current_attr, options, quit_mode, print_help, drawn,
                   current_history>>

KeyNgraph ==
    /\ Handled
    /\ c_ngraph' \in {Max({1, c_ngraph - 1}), Min({MaxGraphs, c_ngraph + 1})}
    /\ UNCHANGED <<forest, selection, e_current_attr, options, show, quit_mode, print_help,
                   drawn, current_history>>

\* history_select_next()
KeyTab ==
    /\ Handled
    /\ current_history' = IF current_history = Histories THEN 1 ELSE current_history + 1
    /\ UNCHANGED <<forest, selection, e_current_attr, options, toggles, drawn>>

Select(s) ==
    /\ Handled
    /\ Forest!SetSelection(s)
    /\ UNCHANGED <<forest, e_current_attr, options, toggles, drawn, current_history>>

\* The page keys move by the length the list had when it was last drawn; the
\* set holds the one selection after n moves.
Page(n, Move(_)) ==
    LET after[i \in 0 .. Max({0, n})] ==
            IF i = 0 THEN {Forest!Selection} ELSE {Move(s) : s \in after[i - 1]}
    IN  after[Max({0, n})]

\* Mutant: the page is as long as the screen.
KeyPageDownByScreen ==
    IF group_list = <<>> THEN KeyRedraw
    ELSE \E s \in Page(rows, LAMBDA t : Forest!SelectNext(t)) : Select(s)

KeyPageDown ==
    IF group_list = <<>> THEN KeyRedraw
    ELSE \E s \in Page(list_length - 1, LAMBDA t : Forest!SelectNext(t)) : Select(s)
KeyPageUp ==
    IF group_list = <<>> THEN KeyRedraw
    ELSE \E s \in Page(list_length - 1, LAMBDA t : Forest!SelectPrev(t)) : Select(s)

KeySelect ==
    IF group_list = <<>> THEN KeyRedraw
    ELSE \E s \in {Forest!SelectNext(Forest!Selection), Forest!SelectPrev(Forest!Selection),
                   Forest!MoveToGroupNext(Forest!Selection),
                   Forest!MoveToGroupPrev(Forest!Selection)} : Select(s)

\* attr_select_next(), attr_select_prev() of element_current().
KeyAttr ==
    /\ Handled
    /\ LET s == IF group_list = <<>> THEN Forest!Selection
                ELSE Forest!ElementCurrent(Forest!Selection)
           e == Current(s)
       IN /\ Forest!SetSelection(s)
          /\ IF e = NoElement THEN UNCHANGED e_current_attr
             ELSE \E a \in {AttrNext(Attrs[e], e_current_attr[e]),
                            AttrPrev(Attrs[e], e_current_attr[e])} :
                    e_current_attr' = [e_current_attr EXCEPT ![e] = a]
    /\ UNCHANGED <<forest, options, toggles, drawn, current_history>>

\* What follows a use of memory that is not what the code takes it for.
Undefined ==
    /\ pc' = "undefined"
    /\ UNCHANGED <<forest, selection, e_current_attr, options, toggles, drawn, current_history>>

\* attr_start_collecting_history(): on the list head, a bit of some pointer
\* says whether the attribute collects already.
KeyCollectHistory ==
    /\ pc = "keys" /\ current_attr # NoAttr
    /\ KeyRedraw \/ (Undefined /\ (current_attr = ListHead \/ current_element \notin Live))

\* reset_counters(): the counters are in Counter.
KeyReset ==
    /\ pc = "keys"
    /\ IF current_element \in Live THEN KeyRedraw ELSE Undefined

\* The input, and the elements freed after it.  Groups are never freed; a
\* freed element takes its attribute selection with it.
Reading ==
    /\ pc = "keys"
    /\ pc' = "draw"
    /\ order' \in Forests
    /\ \E more \in {<<>>} \cup {<<g>> : g \in Groups \ Range(group_list)} :
         group_list' = group_list \o more
    /\ \A g \in Groups : order'[g] # <<>> => g \in Range(group_list')
    /\ IF order' = order THEN UNCHANGED selection
       ELSE /\ current_group' \in Range(group_list') \cup {current_group}
            /\ \E cur \in [Groups -> Elements \cup {NoElement}] :
                 /\ \A g \in Groups : cur[g] \in Range(order'[g]) \cup {NoElement}
                 /\ g_current' = cur
    /\ e_current_attr' = [e \in Elements |->
                            IF \E g \in Groups : e \in Range(order[g]) \cap Range(order'[g])
                            THEN e_current_attr[e] ELSE NoAttr]
    /\ UNCHANGED <<options, toggles, drawn, current_history>>

\* curses_draw()
DialogOn == IF quit_mode THEN "quit" ELSE IF print_help THEN "help" ELSE "none"

Draw(scr) ==
    /\ pc \in {"redraw", "draw"}
    /\ pc' = "keys"
    /\ UNCHANGED <<forest, options, toggles>>
    /\ rows' = scr.rows /\ cols' = scr.cols
    /\ IF IsSmall(scr)
       THEN /\ dialog' = "none"
            /\ UNCHANGED <<selection, e_current_attr, list_length, current_element,
                           current_attr, current_history>>
       ELSE LET s == IF group_list = <<>> THEN Forest!Selection
                     ELSE Forest!ElementCurrent(Forest!Selection)
                e == Current(s)
                a == IF e = NoElement THEN NoAttr ELSE AttrCurrent(Attrs[e], e_current_attr[e])
            IN /\ Forest!SetSelection(s)
               /\ dialog' = DialogOn
               /\ current_element' = e /\ current_attr' = a
               /\ e_current_attr' = IF e = NoElement THEN e_current_attr
                                    ELSE [e_current_attr EXCEPT ![e] = a]
               /\ list_length' = IF e = NoElement THEN list_length ELSE Plan(e, scr).len
               /\ current_history' =
                    IF e # NoElement /\ current_history = 0 /\ Drawn("graph", e, scr) /\ Plan(e, scr).fits
                       /\ Attrs[e] # <<>>
                    THEN 1 ELSE current_history

Keys == \/ KeyQ \/ KeyEsc \/ KeyN \/ KeyHelp \/ KeyRedraw \/ KeyY
        \/ (\E section \in Sections : KeyToggle(section))
        \/ KeyNgraph \/ KeyTab \/ KeyPageDown \/ KeyPageUp \/ KeySelect \/ KeyAttr
        \/ KeyCollectHistory \/ KeyReset

Next == Keys \/ Reading \/ (\E screen \in Screens : Draw(screen))

Spec == Init /\ [][Next]_vars

-----------------------------------------------------------------------------
\* The screen shows what draw_content() has drawn of the selected element.
OnScreen == pc = "keys" /\ ~IsSmall(Screen) /\ current_element # NoElement
            /\ Plan(current_element, Screen).fits

\* A key acts on what the user sees: between the drawing of a screen that is
\* large enough and the next key, current_element and current_attr are the
\* live selection, although they are set only in curses_draw()
\* (out_curses.c:1066-1067) and freed elements leave in between.
CachedIsCurrent ==
    pc = "keys" /\ ~IsSmall(Screen) =>
        /\ current_element = Current(Forest!Selection)
        /\ current_element \in Live \cup {NoElement}
        /\ current_element # NoElement => current_attr = e_current_attr[current_element]

\* However short the list is cut, the selected element is on it, and with its
\* arrow, which the arrow of the top line would hide (out_curses.c:948-973, 606-621).
SelectedIsMarked ==
    OnScreen /\ Drawn("list", current_element, Screen) /\ c_list_min > 1 =>
        LET len == Plan(current_element, Screen).len
        IN  \E i \in DOMAIN Lines : /\ Lines[i] = current_element
                                    /\ LineVisible(i, current_element, len)
                                    /\ i - 1 # Offset(current_element, len)

\* The last row of information is full, so that draw_info() has gone beyond it.
LastRowFull(e, scr) ==
    Drawn("info", e, scr) /\ Infos[e] > 0 /\ Infos[e] % DetailCols(scr) = 0

\* The budget of lines is kept: what is drawn, with the blank lines between the
\* graphs and the details, ends above the status bar, so that NEXT_ROW() never
\* leaves a section half drawn (out_curses.c:883-1013 against 547-861); only the
\* row behind a full last row of information, which holds no text, may be the one
\* that draw_statusbar() covers afterwards.
NothingCutOff ==
    OnScreen => RowsUsed(current_element, Screen)
                  <= Available(Screen) + (IF LastRowFull(current_element, Screen) THEN 1 ELSE 0)

\* What the comment at out_curses.c:854-857 says of the vertical lines at the end
\* of the information: "If the last row was incomplete, not all vlines have been
\* drawn.  draw them here".  They are drawn above the status bar, then.  The code
\* does not see to it: behind a full last row they come a row further down.
LinesEndLastRow ==
    OnScreen /\ Drawn("info", current_element, Screen) /\ Infos[current_element] > 0
             /\ DetailCols(Screen) > 1
    => RowsUsed(current_element, Screen) <= Available(Screen)

\* Left and Right reach every attribute of the selected element, and Right
\* undoes Left, in spite of the list head among them (attr.c:366-421).
LeftReachesAll ==
    pc = "keys" /\ current_element \in Live =>
        LET s == Attrs[current_element]
            left[n \in 0 .. Len(s) + 1] ==
                IF n = 0 THEN e_current_attr[current_element] ELSE AttrPrev(s, left[n - 1])
        IN  /\ Range(s) \subseteq {left[n] : n \in 0 .. Len(s) + 1}
            /\ \A a \in Range(s) : AttrNext(s, AttrPrev(s, a)) = a

\* PgDn passes no element unseen: as long as the list keeps its length and the
\* move crosses at most one group title and no end of the list, every line
\* between the old and the new selection was on the screen before or is after
\* (out_curses.c:1182-1187 with the length of the last drawing).
PageSkipsNothing ==
    [][KeyPageDown /\ OnScreen /\ Drawn("list", current_element, Screen) =>
         LET new == Current(Forest!Selection)'
             from == SelectionOffset(current_element) + 1
             to == SelectionOffset(new) + 1
             len == list_length
         IN  from < to /\ Plan(new, Screen).len = len
             /\ Cardinality({i \in from .. to : Lines[i] = NoElement}) <= 1
             => \A i \in from .. to : LineVisible(i, current_element, len) \/ LineVisible(i, new, len)]_vars

=============================================================================
