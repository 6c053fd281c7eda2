------------------------------ MODULE MCCurses ------------------------------
(***************************************************************************)
(* Curses on forests from no element to two groups, and screens from one    *)
(* that is too small to one that shows everything.                          *)
(***************************************************************************)
EXTENDS Curses

CONSTANTS e1, e2, e3, e4, g1, g2

MCForests == { (g1 :> <<>>) @@ (g2 :> <<>>), (g1 :> <<e1>>) @@ (g2 :> <<>>),
               (g1 :> <<e2, e1, e3>>) @@ (g2 :> <<e4>>) }
MCArrivals == (e1 :> <<2, 1, 3>>) @@ (e2 :> <<>>) @@ (e3 :> <<>>) @@ (e4 :> <<>>)
MCInfos == (e1 :> 3) @@ (e2 :> 0) @@ (e3 :> 2) @@ (e4 :> 1)
MCScreens == { [rows |-> r, cols |-> 80] : r \in {3, 7, 11, 30} }
               \cup { [rows |-> 16, cols |-> 160] }

\* Bound: dialogs are opened, and the screen shrunk too far, only over the
\* default display.
RareOnDefault ==
    quit_mode \/ print_help \/ (rows > 0 /\ IsSmall(Screen))
    => show = {"list", "graph"} /\ c_ngraph = 1

\* Bound: the groups appear in this order.
FirstGroupFirst == group_list # <<>> => group_list[1] = g1
=============================================================================
