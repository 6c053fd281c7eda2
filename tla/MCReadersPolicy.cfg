SPECIFICATION ReadersSpec
CONSTANTS
    lo = lo
    e0 = e0
    v0 = v0
    d0 = d0
    d1 = d1
    Elements = {e1, e2, e3, e4}
    Groups = {g1, g2}
    Grp = g1
    Names = {lo, e0, v0, d0, d1}
    Admitted <- MCAdmitted
    Rules <- MCRules
    Lifecycles = 2
    Wrap = 4
    AgeCap = 3
    NoElement = NoElement
    NoGroup = NoGroup
    NoName = NoName
    NoFile = NoFile
    Inputs <- MCInputsHindered
    Kernels <- MCKernelsHindered
    Slack = 0
    DummyGroups <- MCDummyGroups
    DummyNames <- MCDummyNamesHindered
    ShowAll = FALSE
    LowerOf <- MCLowerOf
CHECK_DEADLOCK FALSE
PROPERTIES PolicyDecides
