SPECIFICATION Spec
CONSTANTS
    e1 = e1
    e2 = e2
    e3 = e3
    e4 = e4
    g1 = g1
    g2 = g2
    Elements = {e1, e2, e3, e4}
    Groups = {g1, g2}
    NoElement = NoElement
    NoGroup = NoGroup
    NoAttr = NoAttr
    ListHead = ListHead
    Major = 2
    Minor = 1
    Forests <- MCForests
    Arrivals <- MCArrivals
    Infos <- MCInfos
    Screens <- MCScreens
    GraphHeights = {1}
    GraphWidth = 30
    ListMins = {2}
    MaxGraphs = 2
    Histories = 1
CONSTRAINTS RareOnDefault FirstGroupFirst
CHECK_DEADLOCK FALSE
INVARIANTS CachedIsCurrent SelectedIsMarked NothingCutOff LeftReachesAll
PROPERTIES PageSkipsNothing
