------------------------------ MODULE Readers ------------------------------
(***************************************************************************)
(* The inputs proc, sysctl and dummy (src/in_proc.c, src/in_sysctl.c,       *)
(* src/in_dummy.c) on top of Elements.  In a reading the enabled inputs run  *)
(* one after the other, and each takes what it finds to elements, line by   *)
(* line.  Between two readings, and between the two sysctl() calls of one,  *)
(* interfaces come, go and change.                                          *)
(*                                                                          *)
(* A line of proc's file or of sysctl's list is a name and a kind:          *)
(*   up, down    an interface, with IFF_UP or without                       *)
(*   malformed   in the file, a blank line, one without a colon or with     *)
(*               less than 16 numbers; in the list, no AF_LINK address      *)
(*   foreign     in the list, a message that is not of RTM_IFINFO           *)
(* proc's file may be any (option file).                                    *)
(***************************************************************************)
EXTENDS Elements

CONSTANTS
    Grp,            \* DEFAULT_GROUP, and the group of proc
    Inputs,         \* the orders in which enabled inputs may be run
    Kernels,        \* what the file or the list may be: sequences of lines, NoFile
    NoFile,         \* a file that cannot be opened
    Slack,          \* lines by which the list may outgrow what sysctl() first said
    DummyGroups,    \* the groups of dummy, DEFAULT_GROUP first
    DummyNames,     \* c_numdev names, dummy0 first
    ShowAll         \* cfg_show_all

Kinds == {"up", "down", "malformed", "foreign"}

ASSUME ReadersAssumption ==
    /\ Grp \in Groups /\ DummyGroups \in Seq(Groups) /\ DummyNames \in Seq(Names)
    /\ Kernels \subseteq Seq([name : Names, kind : Kinds]) \cup {NoFile}
    /\ NoFile \notin Seq([name : Names, kind : Kinds])
    /\ \A i \in Inputs : i \in Seq({"proc", "sysctl", "dummy"})
    /\ Slack \in Nat /\ ShowAll \in BOOLEAN

VARIABLES
    inputs,      \* the inputs that are enabled, in the order of s_mod_list
    kernel,      \* external: the file or the list
    turn,        \* the position in inputs of the one that runs
    opened,      \* whether it has come to its lines
    todo,        \* the lines it has still to read
    size,        \* the length the first sysctl() has told
    running      \* quit() has not been called

reader == <<inputs, kernel, turn, opened, todo, size, running>>

ReadersInit ==
    /\ NoElementYet /\ group_list = <<Grp>>    \* m_init of proc and sysctl
    /\ inputs \in Inputs
    /\ kernel \in Kernels \ {NoFile}           \* m_probe has opened it
    /\ turn = 1 /\ opened = FALSE /\ todo = <<>> /\ size = 0
    /\ running = TRUE

Reading(input) == running /\ pc = "read" /\ turn \in DOMAIN inputs /\ inputs[turn] = input

BeginReading ==
    /\ running /\ StartRead
    /\ turn' = 1 /\ opened' = FALSE
    /\ UNCHANGED <<inputs, kernel, todo, size, running>>

Open(lines) ==
    /\ opened' = TRUE /\ todo' = lines
    /\ UNCHANGED <<vars, inputs, kernel, turn, running>>

QuitReading ==
    /\ running' = FALSE
    /\ UNCHANGED <<vars, inputs, kernel, turn, opened, todo, size>>

At(g, names) == [i \in DOMAIN names |-> [group |-> g, name |-> names[i]]]
NamesOf(lines) == [i \in DOMAIN lines |-> lines[i].name]

\* proc_read(): the lines of the file that hold an interface.
ProcLines(file) == NamesOf(SelectSeq(file, LAMBDA l : l.kind \in {"up", "down"}))

ProcOpen ==
    /\ Reading("proc") /\ ~opened
    /\ IF kernel = NoFile THEN QuitReading
       ELSE Open(At(Grp, ProcLines(kernel))) /\ UNCHANGED size

\* sysctl_read(): the messages up to a foreign one that are seen.
SysctlLines(list) ==
    LET foreign == {i \in DOMAIN list : list[i].kind = "foreign"}
        read == IF foreign = {} THEN list ELSE SubSeq(list, 1, Min(foreign) - 1)
    IN  NamesOf(SelectSeq(read, LAMBDA l : l.kind = "up" \/ (ShowAll /\ l.kind = "down")))

\* The first sysctl() tells the size of the list, the second one fills the
\* buffer, unless the list does not fit any more.
SysctlSize ==
    /\ Reading("sysctl") /\ ~opened /\ size = 0 /\ kernel # NoFile
    /\ size' = Len(kernel) + Slack
    /\ UNCHANGED <<vars, inputs, kernel, turn, opened, todo, running>>

SysctlList ==
    /\ Reading("sysctl") /\ ~opened /\ size > 0 /\ kernel # NoFile
    /\ IF Len(kernel) > size THEN QuitReading
       ELSE Open(At(Grp, SysctlLines(kernel))) /\ size' = 0

SysctlFails ==
    /\ Reading("sysctl") /\ ~opened /\ kernel = NoFile
    /\ QuitReading

\* dummy_read()
DummyLines == FlattenSeq([i \in DOMAIN DummyGroups |-> At(DummyGroups[i], DummyNames)])

DummyOpen == Reading("dummy") /\ ~opened /\ Open(DummyLines) /\ UNCHANGED size

\* Mutant: sysctl returns too.
SkipRest(input) == <<>>

\* element_lookup() has returned NULL: sysctl goes on, proc and dummy return.
Skip(input) == IF input = "sysctl" THEN Tail(todo) ELSE <<>>

\* dummy_read() leaves alone an element that an input before it has updated.
IsTaken(input, l) ==
    input = "dummy" /\ \E e \in Lookup(l.group, l.name, NoElement) : e_updated[e]

\* One line: element_lookup(ELEMENT_CREAT), element_notify_update(), element_lifesign().
ReadLine ==
    /\ running /\ pc = "read" /\ todo # <<>>
    /\ LET l == Head(todo)
       IN  \/ /\ IsTaken(inputs[turn], l)
              /\ todo' = Tail(todo)
              /\ UNCHANGED vars
           \/ /\ ~IsTaken(inputs[turn], l)
              /\ \/ ObserveKnown(l.group, l.name, NoElement)
                 \/ ObserveNew(l.group, l.name, NoElement)
              /\ todo' = Tail(todo)
           \/ /\ ObserveDenied(l.group, l.name, NoElement)
              /\ todo' = Skip(inputs[turn])
    /\ UNCHANGED <<inputs, kernel, turn, opened, size, running>>

NextInput ==
    /\ running /\ pc = "read" /\ turn \in DOMAIN inputs /\ opened /\ todo = <<>>
    /\ turn' = turn + 1 /\ opened' = FALSE
    /\ UNCHANGED <<vars, inputs, kernel, todo, size, running>>

EndReading == running /\ turn > Len(inputs) /\ EndRead /\ UNCHANGED reader

Reap == (CheckIfDead \/ NextGroup \/ ElementFree) /\ UNCHANGED reader

DrawScreen == Draw /\ UNCHANGED reader

\* External: interfaces come, go and change.
Change ==
    /\ pc = "keys" \/ size > 0
    /\ running
    /\ kernel' \in Kernels \ {kernel}
    /\ UNCHANGED <<vars, inputs, turn, opened, todo, size, running>>

Program ==
    \/ BeginReading \/ ProcOpen \/ SysctlSize \/ SysctlList \/ SysctlFails \/ DummyOpen
    \/ ReadLine \/ NextInput \/ EndReading \/ Reap \/ DrawScreen

ReadersNext == Program \/ Change

\* The main loop runs on until bmon quits.
ReadersSpec == /\ ReadersInit
               /\ [][ReadersNext]_<<vars, reader>>
               /\ WF_<<vars, reader>>(Program)

-----------------------------------------------------------------------------
HasInterface(l) == l.kind \in {"up", "down"}
IsAdmitted(x) == x.name \in Admitted

\* The interfaces an input has: proc all that its file names, which says of none
\* whether it is up, sysctl those that are up, or all with -a.
Interfaces(input, k) ==
    CASE input = "proc" ->
           {[group |-> Grp, name |-> l.name] : l \in {x \in Range(k) : HasInterface(x)}}
      [] input = "sysctl" ->
           {[group |-> Grp, name |-> l.name] :
              l \in {x \in Range(k) : x.kind = "up" \/ (ShowAll /\ x.kind = "down")}}
      [] input = "dummy" ->
           {[group |-> g, name |-> n] : g \in Range(DummyGroups), n \in Range(DummyNames)}

\* What is to be displayed: of the interfaces of all inputs those the policy admits.
Wanted(k) == {x \in UNION {Interfaces(inputs[i], k) : i \in DOMAIN inputs} : IsAdmitted(x)}

\* Something an input stops at stands before an interface that is wanted: for proc
\* and dummy what the policy denies, for sysctl a foreign message.
Hindered(input, k) ==
    CASE input = "proc" ->
           \E x, y \in DOMAIN k : /\ x < y /\ HasInterface(k[x]) /\ HasInterface(k[y])
                                  /\ ~IsAdmitted(k[x]) /\ IsAdmitted(k[y])
      [] input = "sysctl" ->
           \E x, y \in DOMAIN k : x < y /\ k[x].kind = "foreign" /\ IsAdmitted(k[y])
      [] input = "dummy" ->
           \E x, y \in DOMAIN DummyNames : /\ x < y \/ Len(DummyGroups) > 1
                                           /\ DummyNames[x] \notin Admitted
                                           /\ DummyNames[y] \in Admitted

Displayed == [e \in {x \in Elements : Live(x)} |-> [group |-> e_group[e], name |-> e_name[e]]]

\* Unless bmon quits, it goes on drawing, and from some time on what is drawn is what
\* is wanted of k and nothing else, each once.
ComesToShow(k) ==
    \/ <>~running
    \/ /\ []<>(pc = "draw")
       /\ <>[](pc = "draw" => Range(Displayed) = Wanted(k) /\ IsInjective(Displayed))

\* When interfaces stop coming, going and changing, bmon comes to display those the
\* policy admits, and nothing else, unless an input is hindered: what is gone leaves
\* although nothing reports it any more, whatever was missed before is found, and no
\* input spoils what another has read.
Converges ==
    \A k \in Kernels \ {NoFile} :
        <>[](kernel = k /\ \A i \in DOMAIN inputs : ~Hindered(inputs[i], k)) => ComesToShow(k)

\* The claim of the manual (bmon.8:55-58): the policy defines which interfaces are
\* displayed, wherever they stand.  The code does not see to it: proc and dummy return
\* at the first interface it denies (in_proc.c:153, in_dummy.c:106).
PolicyDecides ==
    \A k \in Kernels \ {NoFile} : <>[](kernel = k) => ComesToShow(k)
=============================================================================
