SPECIFICATION NetlinkSpec
CONSTANTS
    a = a
    b = b
    x = x
    q = q
    c = c
    d = d
    Elements = {e1, e2, e3, e4, e5, e6}
    Groups = {g1}
    Grp = g1
    Names = {a, b, x, q, c, d}
    Links = {a, b, x}
    Tc = {q, c, d}
    TcParent <- MCTcParent
    Kernels <- MCKernels
    ShowAll = FALSE
    Admitted = {a, b, x, q, c}
    Rules <- MCRules
    Lifecycles = 2
    Wrap = 4
    AgeCap = 3
    CalmCap = 4
    NoElement = NoElement
    NoGroup = NoGroup
    NoName = NoName
SYMMETRY Symmetry
INVARIANTS ReadsWhole Settles
