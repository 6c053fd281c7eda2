------------------------------ MODULE Modules ------------------------------
(***************************************************************************)
(* The life of the input and output modules (src/module.c, src/input.c,     *)
(* src/output.c) from the command line to exit(): what the user asks for is *)
(* configured and probed, a default is tried where nothing was asked for,   *)
(* every module is initialised, the main loop runs those that are enabled,  *)
(* and they are shut down on whatever way bmon ends.                        *)
(*                                                                          *)
(* No module carries BMON_MODULE_AUTO, so that __auto_load() does nothing.  *)
(* module_set() returns 0 or does not return unless it lists modules:       *)
(* activate_default() never gets past the first module it tries.            *)
(***************************************************************************)
EXTENDS Integers, Sequences, FiniteSets

CONSTANTS
    Inputs, Outputs,  \* s_mod_list of input_subsys and of output_subsys
    Default,          \* the module activate_default() tries first, per subsystem
    Probing,          \* modules with m_probe
    Initialising,     \* modules with m_init
    Closing,          \* modules with m_shutdown
    Losing,           \* modules that disable themselves in m_do
    MaxSet            \* bound: how many modules the user may ask for per subsystem

Subsystems == <<"input", "output">>
ModList == [input |-> Inputs, output |-> Outputs]
Of(ss) == {ModList[ss][i] : i \in DOMAIN ModList[ss]}
Modules == Of("input") \cup Of("output")

\* module_register() takes a module once.
ASSUME ListAssumption ==
    /\ Inputs \in Seq(Modules) /\ Outputs \in Seq(Modules)
    /\ Of("input") \cap Of("output") = {}
ASSUME DefaultAssumption == \A ss \in {"input", "output"} : Default[ss] \in Of(ss)
ASSUME ClosingAssumption == Closing \subseteq Modules
ASSUME BoundAssumption == MaxSet \in Nat

VARIABLES
    pc,        \* where main() is: "args", "init", "pre", "read", "draw", "quit", "exit",
               \* or how bmon ended: "gone", "aborted"
    at,        \* the subsystem and the module a walk over the lists has come to
    enabled,   \* modules with BMON_MODULE_ENABLED
    s_nmod,    \* per subsystem
    done,      \* do_shutdown() has run
    probed,    \* auxiliary: modules whose m_probe has succeeded
    ready,     \* auxiliary: modules whose m_init has succeeded
    lost,      \* auxiliary: modules disabled by their m_init or their m_do
    closed     \* auxiliary: how often m_shutdown was called

vars == <<pc, at, enabled, s_nmod, done, probed, ready, lost, closed>>
history == <<probed, ready, lost, closed>>

Looping == pc \in {"pre", "read", "draw"}

-----------------------------------------------------------------------------
Init ==
    /\ pc = "args"
    /\ at = [ss |-> 1, m |-> 0]
    /\ enabled = {}
    /\ s_nmod = [ss \in {"input", "output"} |-> 0]
    /\ done = FALSE
    /\ probed = {} /\ ready = {} /\ lost = {}
    /\ closed = [m \in Closing |-> 0]

\* module_configure() of those modules of a list that work.
Configure(ss, names, working) ==
    /\ enabled' = enabled \cup {names[i] : i \in working}
    /\ probed' = probed \cup {names[i] : i \in working}
    /\ s_nmod' = [s_nmod EXCEPT ![ss] = @ + Cardinality(working)]

\* Which of the first n modules of a list work: a module without m_probe does.
Working(names, n) == {w \in SUBSET (1 .. n) : \A i \in 1 .. n : names[i] \notin Probing => i \in w}

\* Mutant: "No working module found" only if none was asked for.
NoneAsked(ss, names, working) == s_nmod[ss] + Len(names) = 0

\* !ss->s_nmod
NoneWorks(ss, names, working) == s_nmod[ss] + Cardinality(working) = 0

\* module_set(): the modules are configured one after the other.  The one after
\* the first n is unknown (quit), or its m_parse_opt ends the program.
ModuleSet(ss, names) ==
    \E n \in 0 .. Len(names) : \E working \in Working(names, n) :
        /\ Configure(ss, names, working)
        /\ CASE n < Len(names) -> pc' \in {"quit", "exit"}
             [] n = Len(names) /\ NoneWorks(ss, names, working) -> pc' = "quit"
             [] OTHER -> UNCHANGED pc

\* -i and -o.
Set(ss) ==
    /\ pc = "args"
    /\ \E k \in 1 .. MaxSet - s_nmod[ss] : \E names \in [1 .. k -> Of(ss)] : ModuleSet(ss, names)
    /\ UNCHANGED <<at, done, ready, lost, closed>>

\* "-i list", "-h", an option or a configuration that is wrong.
LeaveEarly ==
    /\ pc = "args"
    /\ pc' \in {"quit", "exit"}
    /\ UNCHANGED <<at, enabled, s_nmod, done, history>>

EndArgs ==
    /\ pc = "args"
    /\ pc' = "init"
    /\ UNCHANGED <<at, enabled, s_nmod, done, history>>

-----------------------------------------------------------------------------
Here == Subsystems[at.ss]

\* activate_default() of a subsystem.
ActivateDefault ==
    /\ pc = "init" /\ at.m = 0
    /\ IF s_nmod[Here] # 0
       THEN UNCHANGED <<pc, enabled, s_nmod, probed>>
       ELSE \E working \in Working(<<Default[Here]>>, 1) :
                /\ Configure(Here, <<Default[Here]>>, working)
                /\ pc' = IF NoneWorks(Here, <<Default[Here]>>, working) THEN "quit" ELSE "init"
    /\ at' = [at EXCEPT !.m = 1]
    /\ UNCHANGED <<done, ready, lost, closed>>

\* Mutant: a module whose initialisation fails stays enabled.
StayEnabled(m) == UNCHANGED enabled

Disable(m) == enabled' = enabled \ {m}

\* __module_init(): every module is initialised, enabled or not.
ModuleInit ==
    /\ pc = "init" /\ at.m \in DOMAIN ModList[Here]
    /\ LET m == ModList[Here][at.m]
       IN  \/ /\ ready' = ready \cup {m}
              /\ UNCHANGED <<enabled, lost>>
           \/ /\ m \in Initialising
              /\ Disable(m)
              /\ lost' = IF m \in enabled THEN lost \cup {m} ELSE lost
              /\ UNCHANGED ready
    /\ at' = [at EXCEPT !.m = @ + 1]
    /\ UNCHANGED <<pc, s_nmod, done, probed, closed>>

\* BUG() in an m_init: assert() aborts, exit() is called where asserts are off.
Abort ==
    /\ pc = "init" /\ at.m \in DOMAIN ModList[Here] /\ ModList[Here][at.m] \in Initialising
    /\ pc' \in {"aborted", "exit"}
    /\ UNCHANGED <<at, enabled, s_nmod, done, history>>

NextSubsystem ==
    /\ pc = "init" /\ at.m > Len(ModList[Here])
    /\ IF at.ss < Len(Subsystems)
       THEN UNCHANGED pc /\ at' = [ss |-> at.ss + 1, m |-> 0]
       ELSE pc' = "pre" /\ at' = [ss |-> 2, m |-> 1]
    /\ UNCHANGED <<enabled, s_nmod, done, history>>

-----------------------------------------------------------------------------
\* module_foreach_run_enabled() and module_foreach_run_enabled_pre(): one module
\* of the list.  It may end the program, and it may disable itself.  (No module
\* has an m_post.)
RunModule ==
    /\ Looping /\ at.m \in DOMAIN ModList[Here]
    /\ LET m == ModList[Here][at.m]
       IN  \/ UNCHANGED <<pc, enabled, lost>>
           \/ m \in enabled /\ pc' \in {"quit", "exit", "aborted"} /\ UNCHANGED <<enabled, lost>>
           \/ /\ pc = "read" /\ m \in enabled \cap Losing
              /\ Disable(m)
              /\ lost' = lost \cup {m}
              /\ UNCHANGED pc
    /\ at' = [at EXCEPT !.m = @ + 1]
    /\ UNCHANGED <<s_nmod, done, probed, ready, closed>>

\* The main loop: output_pre(), then input_read() and output_draw() when due.
NextPhase ==
    /\ Looping /\ at.m > Len(ModList[Here])
    /\ \/ pc = "pre" /\ pc' = "read" /\ at' = [ss |-> 1, m |-> 1]
       \/ pc = "pre" /\ pc' = "pre" /\ at' = [ss |-> 2, m |-> 1]
       \/ pc = "read" /\ pc' = "draw" /\ at' = [ss |-> 2, m |-> 1]
       \/ pc = "draw" /\ pc' = "pre" /\ at' = [ss |-> 2, m |-> 1]
    /\ UNCHANGED <<enabled, s_nmod, done, history>>

-----------------------------------------------------------------------------
\* Mutant: do_shutdown() without its flag.
DoShutdownAlways ==
    /\ done' = TRUE
    /\ closed' = [m \in Closing |-> closed[m] + 1]
    /\ enabled' = enabled \ Closing

\* do_shutdown(): module_shutdown() calls every m_shutdown, once.
DoShutdown ==
    IF done THEN UNCHANGED <<done, closed, enabled>>
    ELSE /\ done' = TRUE
         /\ closed' = [m \in Closing |-> closed[m] + 1]
         /\ enabled' = enabled \ Closing

\* quit() shuts down before it calls exit().
Quit ==
    /\ pc = "quit"
    /\ DoShutdown
    /\ pc' = "exit"
    /\ UNCHANGED <<at, s_nmod, probed, ready, lost>>

\* exit() calls sig_exit(), which atexit() has registered.
Exit ==
    /\ pc = "exit"
    /\ DoShutdown
    /\ pc' = "gone"
    /\ UNCHANGED <<at, s_nmod, probed, ready, lost>>

Next ==
    \/ \E ss \in {"input", "output"} : Set(ss)
    \/ LeaveEarly \/ EndArgs
    \/ ActivateDefault \/ ModuleInit \/ Abort \/ NextSubsystem
    \/ RunModule \/ NextPhase
    \/ Quit \/ Exit

Spec == Init /\ [][Next]_vars

-----------------------------------------------------------------------------
TypeOK ==
    /\ pc \in {"args", "init", "pre", "read", "draw", "quit", "exit", "gone", "aborted"}
    /\ at \in [ss : 1 .. 2, m : Nat]
    /\ enabled \subseteq Modules
    /\ s_nmod \in [{"input", "output"} -> Nat]
    /\ done \in BOOLEAN
    /\ probed \subseteq Modules /\ ready \subseteq Modules /\ lost \subseteq Modules
    /\ closed \in [Closing -> Nat]

\* Whatever ends bmon, a quit() in the middle of the command line, a failing
\* default, an exit() in a handler or both after each other, every m_shutdown is
\* called exactly once: the terminal is given back and sockets are freed once.
ClosedOnce == pc = "gone" => \A m \in Closing : closed[m] = 1

\* The main loop runs a module only if its probe and its m_init have succeeded,
\* though all modules are initialised, enabled or not.
RunsReady == Looping => enabled \subseteq probed \cap ready

\* bmon does not enter the main loop, nor stay in it, with nothing to read or to
\* draw with, unless a module that was enabled failed later.
SomethingRuns ==
    Looping => \A ss \in {"input", "output"} : Of(ss) \cap (enabled \cup lost) # {}
=============================================================================
