SPECIFICATION Spec
CONSTANTS
    Elements = {e1, e2, e3, e4}
    Groups = {g1, g2}
    a = a
    b = b
    c = c
    Names = {a, b, c}
    Admitted = {a, b}
    Rules <- MCRules
    Lifecycles = 2
    Wrap = 4
    AgeCap = 3
    NoElement = NoElement
    NoGroup = NoGroup
    NoName = NoName
SYMMETRY Symmetry
PROPERTIES FreedOnlyWhenStale
