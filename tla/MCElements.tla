----------------------------- MODULE MCElements -----------------------------
(* Model checking instance of Elements: addresses and groups are interchangeable. *)
EXTENDS Elements, TLC

CONSTANTS a, b, c

MCRules == <<{b}>>
AddressSymmetry == Permutations(Elements)
Symmetry == Permutations(Elements) \cup Permutations(Groups)
=============================================================================
