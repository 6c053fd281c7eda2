SPECIFICATION Spec
CONSTANTS
    netlink = netlink
    proc = proc
    null = null
    curses = curses
    ascii = ascii
    Inputs <- MCInputs
    Outputs <- MCOutputs
    Default <- MCDefault
    Probing = {netlink, proc}
    Initialising = {netlink, proc}
    Closing = {netlink, curses}
    Losing = {netlink}
    MaxSet = 2
CHECK_DEADLOCK FALSE
INVARIANTS ClosedOnce RunsReady SomethingRuns
