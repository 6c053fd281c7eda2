----------------------------- MODULE MCNetlink -----------------------------
(***************************************************************************)
(* Model checking instance of Netlink: three links.  The first may be the   *)
(* master of the second, or each that of the other, as the ends of a veth   *)
(* pair are, or the three a chain, of which two orders make twins.  Below   *)
(* the first are a qdisc, a class below that, and another qdisc the policy  *)
(* denies.                                                                  *)
(***************************************************************************)
EXTENDS Netlink

CONSTANTS a, b, x, q, c, d

MCTcParent == (q :> a) @@ (c :> q) @@ (d :> a)
MCRules == <<>>
MCSlave == [links : {<<a, b>>, <<b, a>>, <<b>>, <<a>>}, up : {{a, b}, {b}},
            master : {(a :> NoName) @@ (x :> NoName) @@ (b :> m) : m \in {a, NoName}},
            tc : {<<>>, <<q>>, <<d, c, q>>}]
MCVeth == [links : {<<a, b>>, <<b, a>>}, up : {{a, b}, {b}},
           master : {(a :> b) @@ (b :> a) @@ (x :> NoName)}, tc : {<<>>}]
MCChain == [links : {<<x, b, a>>, <<b, x, a>>}, up : {{a, b, x}},
            master : {(a :> NoName) @@ (b :> a) @@ (x :> b)}, tc : {<<>>}]
MCKernels == MCSlave \cup MCVeth \cup MCChain
Symmetry == Permutations(Elements)
=============================================================================
