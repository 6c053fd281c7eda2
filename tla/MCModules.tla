----------------------------- MODULE MCModules -----------------------------
(* Model checking instance of Modules: three inputs and two outputs of bmon on Linux. *)
EXTENDS Modules

CONSTANTS netlink, proc, null, curses, ascii

MCInputs == <<netlink, null, proc>>
MCOutputs == <<ascii, curses>>
MCDefault == [input |-> netlink, output |-> curses]
=============================================================================
