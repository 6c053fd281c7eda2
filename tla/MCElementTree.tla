--------------------------- MODULE MCElementTree ---------------------------
(* Model checking instance of ElementTree. *)
EXTENDS ElementTree, TLC

CONSTANTS a, b, c

MCRules == <<{b}>>
Symmetry == Permutations(Elements) \cup Permutations(Groups)
=============================================================================
