# Verification of bmon

TLA+ models of bmon, a terminal bandwidth monitor, with the configurations that
check them and the proofs about them. Source paths are relative to the
repository; `element.c` is `src/element.c`.

## The system

bmon is one single-threaded process. Its main loop polls the keyboard, takes a
reading every read interval, frees elements that have not been reported for a
while, draws, and sleeps. Nothing runs concurrently inside the process; what
makes it hard to test is time (slow readings, late wake-ups, counters that wrap
around meanwhile), mutation of linked lists while they are walked, state that
survives from one round to a much later one (selections, totals, history
indices) and the order in which the environment shows and hides interfaces.

| component | state | operations | interacts with |
|---|---|---|---|
| main loop (`bmon.c`, `utils.c`) | `rtiming`: next and last read; sleep time | one round: keys, test, read, free, draw, sleep | calls every other part; `rt_last_read` stamps every update |
| groups (`group.c`) | `group_list`, `current_group`, headers | lookup and create, select, walk | lists of elements |
| elements (`element.c`) | `g_elements`, `e_childs`, `e_parent`, `e_lifecycles`, `e_flags`, `g_current`, `g_nelements`, policy | lookup and create, lifesign, check if dead, free, select | attributes, policy, the selection of other groups |
| attributes (`attr.c`) | per direction: total, current, previous, reset, rate, time of calculation; sorted list, selection | update, notify, reset, select | histories |
| histories (`history.c`) | ring of slots, index, previous total, last update | update, alloc, attach, select | graph reads the ring |
| graphs (`graph.c`) | table and scale | refill | history |
| modules (`module.c`, `input.c`, `output.c`) | flags per module, `s_nmod` | register, configure and probe, default, init, run, shutdown | main loop, `quit()` |
| inputs (`in_netlink.c`, `in_proc.c`, `in_sysctl.c`, `in_dummy.c`, `in_null.c`) | kernel caches; dummy counters | read | elements, attributes |
| curses (`out_curses.c`) | toggles, `current_element`, `current_attr`, line budget | keys, draw | selection, reset of counters |
| ascii, format (`out_ascii.c`, `out_format.c`) | options, token list | draw | elements, attributes |
| configuration (`conf.c`, `element_cfg.c`, argument parsing) | intervals, lifetime, variances, definitions | parse | everything reads it |
| units (`unit.c`) | unit tables | divisor | output |

What makes each part correct:

* main loop: the schedule does not drift, nothing is read early, a delay is
  caught up before the loop sleeps again, readings go on for ever;
* elements and groups: the lists hold the allocated elements and nothing else,
  counts agree, nobody outlives its parent, a selection never points at freed
  memory, every reading counts every lifetime down once, what is stale leaves
  and only what is stale leaves, the keys visit everything;
* attributes: totals are exact over wrap-arounds, resets show what came since,
  rates neither spike nor fall below the traffic by more than a slow reading shifts
  from one interval to another;
* histories: the graph shows the last slots in order, each slot is the mean of
  what came since the one before, gaps take their room;
* modules: only what works is run, something is always run, everything is shut
  down once;
* inputs: a reading updates what the kernel has and nothing else, however links
  come, go and move, and the screen comes to show just that;
* curses: a key acts on what the screen shows, the selected element is on it,
  no section runs into the next, the keys reach every attribute and pass no
  element unseen;
* configuration and units: what bmon runs with is what the strongest source
  says, in whatever order the sources come, and a value is shown in the fraction
  that fits it.

Not all of this is so. Where the code does not keep what the manual or a comment
promises, TLC shows it (see Findings).

PROJECT.json lists the hazards behind these, each at its line.

## Modules

| module | models | extends |
|---|---|---|
| `Elements` | elements, groups, lifetimes, selection: the abstract forest as a pre-order per group | |
| `ElementTree` | the same with the linked lists and pointer walks of the code; implements `Elements` | INSTANCE `Elements` |
| `Lemmas` | lemmas on lists, on remainders, and on induction and recursion over the naturals | |
| `ElementsProofs` | inductive invariants and theorems about `Elements` and `Netlink` | `Netlink`, `Lemmas` |
| `ReadLoop` | timing of `main()` and the timestamp arithmetic | |
| `ReadLoopProofs` | theorems | `ReadLoop` |
| `Counter` | one direction of a counter attribute | |
| `CounterProofs` | theorems | `Counter` |
| `Sampling` | a counter read by the main loop: the composition | INSTANCE `ReadLoop`, `Counter` |
| `SamplingProofs` | theorems, the refinement of `ReadLoop` among them | `Sampling`, INSTANCE `ReadLoopProofs` |
| `History` | the ring of mean rates of one attribute and its columns in the graph | |
| `HistoryProofs` | theorems | `History`, `Lemmas` |
| `Modules` | input and output modules from the command line to `exit()` | |
| `Netlink` | the netlink input: links and traffic control taken to elements; the composition with the forest | `Elements` |
| `Readers` | the inputs proc, sysctl and dummy, alone and one after the other; the composition with the forest | `Elements` |
| `Policy` | the rules of the policy, from the string to the decision | |
| `AttrList` | the sorted attributes of an element and the selection among them | |
| `Curses` | keys, dialogs and the line budget of the curses output, on the selection of the forest | `AttrList`, INSTANCE `Elements` |
| `CursesProofs` | theorems | `Curses`, `Lemmas` |
| `Units` | the table of a unit and the choice of a divisor | |
| `Startup` | the configuration files and the command line | `Policy`, `Units` |
| `MainProofs` | inductive invariants and theorems about `Startup` and `Modules` | `Startup`, `Modules`, `Lemmas` |
| `MCElements`, `MCElementTree`, `MCNetlink`, `MCReaders`, `MCModules`, `MCCurses`, `MCStartup` | what TLC needs: rules, kernels, files, forests, symmetry | |

Operators whose comment says "Mutant" are deliberate mistakes, named beside the
definition they would replace. They take no part in any specification; replacing
the definition by one of them makes TLC report the property PROJECT.json names,
which shows that the property depends on the code being right there.

### Elements and ElementTree

`pc` is where the main loop is: `keys` (`output_pre()`), `read`
(`input_read()`), `reap` and `free` (`free_unused_elements()`), `draw`
(`output_draw()`). The handlers are split only where the code works through a
list, so that one step frees one element; `pc` keeps the rest of the program
out meanwhile.

| action | code |
|---|---|
| `KeyDown`, `KeyUp`, `KeyGroupNext`, `KeyGroupPrev` | `handle_input()`: `element_select_next/prev()`, `group_select_next/prev()`, followed by `curses_draw()` |
| `StartRead` | `reset_update_flags()` |
| `ObserveKnown/New/Denied` | an input's `group_lookup()`, `element_lookup(ELEMENT_CREAT)`, `element_notify_update()`, `element_lifesign(e, 1)` |
| `CheckIfDead`, `NextGroup` | `group_foreach_recursive(element_check_if_dead)` |
| `ElementFree` | one level of `element_free()` with the move of the selection |
| `Draw` | `element_current()` in `curses_draw()` |

In `Elements` the forest of a group is one sequence, its depth-first pre-order.
The operations on it are short and can be proved about; that the linked lists,
`list_add_tail()`, the climb of `element_select_next()` and the recursive walk
with its saved next pointers amount to them is what `ElementTree` shows: its
`ImplementsElements` is `Elements!Spec` under the mapping that flattens the
lists. An input may report any name in any order, with any live element of the
group as parent; this covers every input module, and parents that appear after
their children or vanish before them.

`age` is auxiliary and counts readings since the last lifesign. `Lifecycles` is
`get_lifecycles()`, `Wrap` stands for 2^32.

### ReadLoop

A round is `OutputPre`, then `BeginRead` and `EndRead` or `NotDue`, then `GoOn`
or `BeginSleep` and `Wake`, after the comments E, NR, LR, RI, ST and C of
`main()`. Timestamps are pairs with the carry and borrow of `utils.c`. The time
that keys, a reading and a late wake-up take is chosen by the environment below
`Keys`, `Reading` and `Late`. The conversion of the read interval from a float
is taken to be exact. How long the loop sleeps is computed from E, before the
reading, and the sleep begins after it: a sleep that follows a slow reading can
pass the next reading by up to the time the reading took. `CaughtUp` says what
the test at `bmon.c:365` is for, and `OnTime` bounds what the sleep can cost.

### Counter and Sampling

`Count` and `Restart` are the kernel; `Update` is `attr_update()` followed by
`calc_counter_rate()`; `ResetCounter` is the key `r`. `flow`, `flow_read` and
`flow_reset` are auxiliary: what was really counted; so is `restarted`, which
tells that the kernel has started its counter again. `Delay` is the time from E,
with which a reading is stamped, to the moment the counter is read. Rates are
fractions of `1/Precision` that truncate. `Sampling` replaces the free choice of
reading times by those of `ReadLoop`: a reading is stamped with E
(`StampOfReading`), and the counter is read later, when the reading has come to it
(`Delayed`, `Sample`), after any time up to `Reading`; traffic flows meanwhile.
A slow reading counts traffic for the interval before that belongs to the one
after it, so that the next rate may be below the traffic by what came in that
time. `RateNotUnder` allows for this, and for no more.

### History

`Update` is `history_update()` for one direction of an attribute, called
from `attr_notify_update()`; `Store`, `Discard`, `TooEarly` and `FirstUpdate`
are its paths, which differ for counters and for rates and percentages.
`Column(i)` is what `fill_table()` reads for its i-th column, through
`history_data()`. `log` is auxiliary: what was stored, before it was cut to the
width of a slot. Type, interval and width are those of the definitions; they are
chosen in `Init` and never change. The interval is below the read interval,
equal to it (the per-second history by default) or above it (minutes, hours,
days), which take different branches of the code. `Means` is the division in
single precision: any number near enough to the quotient (`IsQuotient`, one part in
`Accuracy`), and where the result does not fit, or the divisor is 0, whatever a
conversion from float can give (`Unconvertible`).

### Modules

`pc` is where `main()` is, or how the program ended; `at` is the place of the
walk over subsystems and modules, so that a failure may come between any two of
them.

| action | code |
|---|---|
| `Set` | `-i`, `-o`: `module_set()` with `module_configure()` of each module asked for |
| `LeaveEarly`, `EndArgs` | the other options, the configuration file, the end of the arguments |
| `ActivateDefault`, `ModuleInit`, `NextSubsystem` | `module_init()` |
| `Abort` | `BUG()` |
| `RunModule`, `NextPhase` | `module_foreach_run_enabled()` and its `_pre`; the main loop |
| `Quit`, `Exit` | `quit()`; `exit()` with `sig_exit()`; both call `do_shutdown()` |

Which modules have a probe, an initialisation, a shutdown or disable themselves
is given by constants; which fail is chosen by the environment. `probed`,
`ready`, `lost` and `closed` are auxiliary.

### Netlink

`Resync` begins a reading with any content of the kernel's caches. `todo` is
what the walks over them have still to visit: `DoLink` and `HandleTc` take its
head to an element by the actions of `Elements` and put in front what hangs
below it, as the recursion of `handle_tc()`, `handle_qdisc()` and
`handle_class()` does; the policy cuts off what is below a denied element.
`Parents` is the lookup of a link's master, with the name that
`rtnl_link_i2name()` leaves uninitialized when the master is not cached.
`ResyncFails` is the way on which the module disables itself. `calm` is
auxiliary and counts readings since the kernel last changed.

### Readers and Policy

`inputs` are the enabled inputs in the order in which
`module_foreach_run_enabled()` runs them. An input opens what it reads
(`ProcOpen`; `SysctlSize` and `SysctlList`, the two calls of `sysctl()` between
which the interfaces may change; `DummyOpen`), and `ReadLine` takes the lines
to elements by the actions of `Elements`. A line that is malformed, an interface
that is down and a message of another type are kinds of lines, and each input
passes over or stops at those that its code does. `Skip` is what follows when
`element_lookup()` returns NULL: proc and dummy return from the reading, sysctl
goes on. `Change` is external. Attributes are left out.

What is to be displayed (`Wanted`) is defined from what the inputs have and what
the policy admits, without the readers' stops. That bmon comes to show just that
is `PolicyDecides`, which the code does not keep; `Converges` says the same as long
as nothing an input stops at stands before an interface that is wanted
(`Hindered`).

`Policy` has the operators `ParsePolicy`, `MatchMask` and `ElementAllowed`, and
`Wildcard`, the manual's definition of a rule, as the reference. `MCReaders`
computes what `Elements` calls `Admitted` and `Rules` from a policy string with
them, `Startup` the lists that `element_allowed()` works on.

### Curses and AttrList

`pc` is `keys` when `curses_pre()` waits for a key, `redraw` when
`handle_input()` has returned 1, `draw` when a reading is over. There is one
action per key, with the statics it changes (`KeyToggle` and `KeySelect` stand
for keys that differ in one argument); `Draw` is `curses_draw()`, which is also
where the dialogs come and go, `current_element` and `current_attr` are set and
`list_length` is computed. `Reading` leaves any of a few forests and any
selection that points into it, which is what `Elements` shows of a reading. The
terminal may have another size at every drawing.

`Tries` and `Plan` are the budget of `draw_content()`: which sections are
switched off until the list has room. What the sections ask for (`ListReq`,
`GraphReq`, ...) and what they take when they are drawn (`ListRows`,
`GraphRows`, ...) are translated from different functions of the code, and
`NothingCutOff` compares them. The two differ where the last row of information
is full: `draw_info()` then goes one row further and draws lines on it, and
`LastRowFull` allows that row to be the one of the status bar. The page keys are functions of the number of
moves, evaluated over sets of one selection.

In `AttrList` the list head, which `attr_select_last()` takes for an attribute,
is a value of its own.

### Startup and Units

`stage` is where `main()` is between its first line and `module_init()`.

| action | code |
|---|---|
| `ConfInitPre` | `conf_init_pre()`: the default configuration |
| `ParseArgsPre`, `EndArgsPre` | the first pass over the command line, for `-f`, `-h` and `-v` |
| `ConfigfileRead` | the file of `-f`, or the system's and then the user's |
| `ParseArgsPost` | the second pass, one argument a step |
| `ConfInitPost` | `conf_init_post()` with `element_parse_policy()` |

`Read` is `cfg_parse()` followed by the functions that take the sections unit,
history, attr and element to tables. libconfuse keeps the sections of all files,
so each file reads those of the files before it again. The differences between
the tables (the first definition of an attribute stands, the last of a history
and of the fractions of a unit, flags of an element are only added to) come out
of `ReadAttr`, `ReadHistory`, `AddDiv` and `NewFlags`. getopt is external: an
argument has a style (attached, after `=`, in a word of its own), and the two
passes differ in what they make of it. The first pass stops at a value that
stands for itself behind an option it does not know, and takes the letters
attached to such an option for options (`PreMeans`). At a word that is no
option the second pass may stop or go on (`ConfInitPost`): glibc keeps the '+' of
the first pass until `optind` is set to 0, other libraries do not. `-i` and `-o` add to
`modules`; whether the modules work is a matter of `Modules`. Reading a list of sections is a fold
(`After`), and `Split`, `MatchMask` and `Wildcard` are recursive functions: the
module declares no RECURSIVE operator, so that it can be proved about.

`meant` is auxiliary: what the user had in mind, the rules and modules of which
the texts on the command line are made. `Joined`, `RuleText`, `PolicyText`,
`TvText`, `ModuleText` and `ModulesText` write them the way the manual says.
What bmon may be started with is bounded by `DefaultsAssumption`,
`FilesAssumption` (of a title libconfuse keeps one section in a file, the
fractions of a unit ascend), `ArgumentsAssumption` (an argument that takes a
value has one) and `MeaningAssumption` (no name holds a character that separates
names; what is behind an `-i` or `-o` is the text of the modules that are meant,
unless bmon ends there).

The file that is given (`FileGiven`) is the one behind the first `-f`, wherever it
stands. `Precedence` holds it against `configfile` where the first pass can
come to it (`IsInFront`), and `GivenIsRead`, which the code does not keep, wherever
it stands. Both speak of command lines of options (`Wordless`), all that the manual
knows.

`Units` has `unit_divisor()` and the fractions of a unit; divisors are fractions
of `1/Scale`, since bits have 0.125. The value is rounded to a float when it is
compared with a divisor (`FloatOf`: `Mantissa` is 2^24, `Ulps` the distances
between floats), and divided as a double, which is exact below 2^53.

## Runs

| run | module, bounds | shows |
|---|---|---|
| `elements` | `MCElements`: 4 addresses, 2 groups, 3 names, lifetime 2 | the safety properties of elements, 313 k states |
| `element_tree` | `MCElementTree`: the same | `ImplementsElements` |
| `read_loop` | second 4, interval 6, sleep 3, readings up to 9, 80 ticks | `NoDrift`, `NeverEarly`, `CaughtUp`, `ReadsGoOn` |
| `counter` | widths 16 and 256, readings 1 to 4 apart, one restart, 8 ticks | `TotalExact`, `ShownSinceReset`, `NoSpike`, `TotalNeverFalls` |
| `counter_64_restart` | a 64-bit counter that restarts (`Width64` stands for 2^64) | violation of `TotalNeverFalls` |
| `sampling` | interval 5, readings of up to 1 tick with the counter read before or after it, wake-ups late by 1 | `RateNotUnder`, `OnTime` |
| `history` | ring of 3, history intervals of half, 1 and 2 read intervals, gaps short, long and normal, counters and rates, slots of 4 and 256 | `GraphIsRecent`, `MeansAddUp` |
| `modules` | `MCModules`: three inputs, two outputs, up to two asked for in each subsystem | `ClosedOnce`, `RunsReady`, `SomethingRuns` |
| `netlink` | `MCNetlink`: three links, one the master of another, each of each, or a chain of three, three levels of traffic control, one object denied, 6 addresses, lifetime 2 | `ReadsWhole`, `Settles` |
| `readers` | `MCReaders`: proc and dummy in both orders, sysctl alone; four files with denied, malformed and foreign lines; no file; a policy of five rules | `Converges` |
| `curses` | `MCCurses`: three forests with up to four elements in two groups, five screens, an element with three attributes, up to two graphs | `CachedIsCurrent`, `SelectedIsMarked`, `NothingCutOff`, `LeftReachesAll`, `PageSkipsNothing` |
| `startup` | `MCStartup`: command lines of up to three of thirteen arguments; two files of eighteen kinds each; policies of one rule of three characters or two of two; `-i` and `-o` with up to two modules and two options; floats of three bits | `Precedence`, `DefinitionsStand`, `DivisorFits`, `PolicyAsWritten`, `ModparamAsWritten` |

Why the bounds are enough. Four addresses in two groups give a parent with
children on two levels beside another tree, a whole subtree freed at once,
addresses that are reused, and a current group other than the one freed from.
Three names give one the policy denies, one its rule selects and one it does
not. A lifetime of two readings tells the reading that updates an element, after
which it has one left, from the first that misses it, which frees it. The read loop passes several seconds and intervals that are no
multiple of each other, so that carries, borrows and delays of every size below
the bound meet. A counter of width 16 with up to 3 per tick wraps around more
than once in a run, and so does the total of width 32. A ring of three slots
turns around several times before the horizon, and its gaps include one that
marks more slots than the ring has. The links of `netlink` have every relation
a link has to another (none, slave, master, both), order and presence change at
every reading, and six addresses suffice for the twins this makes: with fewer
the run stops in a deadlock. The chain of three is there for `SettleTime`: a
lifetime of readings is enough as long as no master has a master, but of a chain
only every second link stays at top level, and each such pair settles only
after the twins before it are gone; with a single lifetime in place of
`SettleTime` TLC finds `Settles` violated. With a lifetime of one reading
nothing is ever shown (see Findings), so `Settles` asks for more than that.
The files of `readers` hide an interface by another, by state, by a foreign
message and by the policy, and one name is both an interface's and dummy's. The
forests of `curses` are longer than the list on the small screens and shorter on
the large one, and each way to make room that `draw_content()` has is needed by
one of the five screens with some sections on. Dialogs, and screens shrunk below
the minimum, are followed only over the default display (`RareOnDefault`): no
toggle reads them. `startup` varies one respect at a time, because what the
parts of `main()` share are only the option values; within each, the inputs are
all sequences up to a length that puts every separator, every place an option
can be set, and every pair of sections beside every other.
Symmetry is used only in runs without
liveness, over addresses and groups, which no definition orders.

Deadlock is checked for elements and the netlink input, which never stop.
`Modules`, `Readers`, `Curses` and `Startup` stop when bmon has ended, or, for
`Startup`, when it is ready. The other modules follow time up to a `Horizon`,
where they stop.

Fairness. `ReadLoop` (`FairSpec`) and `Readers` (`ReadersSpec`) assume weak
fairness of the loop's own steps: bmon is a process the kernel schedules, its
calls return, and a reading reports finitely many things. Nothing is assumed of
the user, of what inputs report, or of how long anything takes below its bound;
`Converges` asks only for what holds once interfaces rest.

## Proofs

TLAPS proves, for every value of the constants that satisfies the named
assumptions of the modules:

* `ElementsProofs`, for any addresses, groups, names, policy and lifetime.
  * `TypeOK`, `SelectionLive`, `ListsExact`, `CountExact`, `NoOrphans`. None is
    inductive by itself. The invariant `IInv` adds where the reaping walk stands,
    that a child stands behind its parent, and that the selection of a group is
    one of its elements whatever group is current. The argument that
    `element_free()` leaves no stale selection is `Deselect`: after `SelectPrev`
    only one group's selection has changed, to an element of that group, and if
    it is still the victim it is cleared.
  * `PreOrder`, by `Between`: what stands between an element and a child of it
    has its parent between them or is a child itself. A new element comes behind
    the last descendant of its parent, and only an element without children leaves.
  * `CountedOnce` and `StaleIsDropped`, by `LInv`: `Since(e)` is the age with the
    current reading counted if the walk has passed `e`; the lifetime left is
    always `Lifecycles` less that (`Counted`), nothing but the element at the
    walk's place is overdue (`NoneOverdue`), and that is what is freed
    (`DeadAtPlace`). No element changes sides of the walk while others leave.
    `StaleIsDropped` asks for a lifetime of one reading at least; one of none
    never ends (see Findings).
  * `UpUndoesDown` and `DownVisitsAll`. For the latter the elements of all groups
    are put in one ring (`ElementAt`), of as many places as there are live
    elements; a Down moves to the next place (`DownInRing`), and induction over
    the number of moves does the rest.
  * `ReadsWhole`, for any links, masters, trees of traffic control, kernels and
    policy, if traffic control hangs below a link in the end (`TcAssumption`).
    What the walk has visited and what it has still to visit share the kernel's
    tree between them: `Underway` says that nothing is twice in `todo`
    (`TodoDistinct`) or there after it was updated (`TodoFresh`), that no two
    elements of a name are updated in one reading (`UpdatedOnce`), only what
    should be and below what is updated for its parent (`UpdatedRightly`), and
    that what should be reported is updated, to do, or below something that is
    to do (`NoneMissed`). It rests on `Registered`: no two elements have the same
    name and parent, and an element in use has an admitted name.
    `NetlinkIsObserving`: each step of the input is a step of `Elements` or
    leaves its variables alone, so the step properties proved of `Elements`
    hold of it.
  * `Settles`, for any number of links, any lifetime and any chains and pairs of
    masters. `AtTop` is where each link belongs: one without a master at top
    level, any other there if its master does not belong there, and of a pair, each
    the master of the other, the one that is there first. `From(l)` is the
    calm reading from which on link `l` is put right, `Lost(l)` the one after
    which no element of it is put at top level by mistake; `LinkFacts` shows that
    they follow each other up a chain of masters (`InTime`) and that all lie
    before `SettleTime`. The invariant `SInv` says of each way in which an element
    can be where it does not belong that it is as old as the calm, less `Lost`
    (`OnTop`, `Unreported`, `OffPlace`, `Twins`), so a lifetime later it is gone
    (`AgeBound`); and of what has been put right that it stays so: each link
    below the element it should be (`Put`), one at top level with an element
    there that is updated (`Stay`), one of each pair at top level (`OneOfPair`),
    and nothing that is to be reported freed with a parent (`Kept`). A report
    finds a link's master as it should be (`ReportPutsRight`), or is the first of
    a pair, before anything on that pair is due (`ReportChooses`); what is
    freed leaves all that alone, because it was not updated and nothing is below
    it (`Freed`, `FreeMoves`). The proof uses the order in which elements are freed
    (`Between`) and the lifetimes (`LInv`), and assumes that masters form no other
    loop than a pair (`MasterAssumption`), which is necessary (see Findings).
* `ReadLoopProofs`: `TypeOK`, `NoDrift`, `NeverEarly`, `CaughtUp`; `OnTime` when
  `SleepTime <= Second` and a round's delays are less than a read interval. The lemmas say that the operations on timestamps
  are those on ticks; `Schedule` and `Punctual` are the inductive invariants.
* `CounterProofs`: `TypeOK` for every configuration; `TotalExact`,
  `ShownSinceReset` and `NoSpike` for a 32-bit counter that wraps around at most
  once between readings, as long as the kernel does not start it again. The
  invariant relates kernel, flow and total modulo the widths. `TotalNeverFalls`
  for a 32-bit counter that may start again (`Followed`): each reading adds less
  than 2^32, and no two have the same stamp, so the total of 64 bits is not full
  before 2^32 ticks (`Accumulated`); the `counter` run satisfies it.
* `SamplingProofs`: `Sampling` implements `ReadLoop` (`SamplingIsReadLoop`, a
  step simulation), so the invariants of `ReadLoopProofs` hold of it. On top of
  them `OnTime` under the hypotheses it has there, and `RateNotUnder` under
  `Roomy`: the delays of a round leave room for the rate's interval between two
  readings, and the counter turns at most once meanwhile; the `sampling` run
  satisfies it. Its invariant follows the stamp of the last update through the
  round (`Near`), the time a reading takes to come to the counter, and the flow
  since then.
* `HistoryProofs`: `GraphIsRecent`, by the invariant `RingIsLog`, that going back
  from the index the ring holds the log; `MeansAddUp` for counters that grow by no more than some `Rate` a tick,
  where `Rate` times the longest time a slot may stand for, and what one reading
  counts, are below 2^64. The `history` run satisfies this with a rate of 8. The
  invariant `Paced` ties the previous total of the ring to the newest entry.
* `MainProofs`, from `main()` to the modules.
  * `Precedence`, `DefinitionsStand`, `DivisorFits`, `PolicyAsWritten` and
    `ModparamAsWritten`, for any files, command lines, rules, modules and values.
    Each speaks of what bmon is ready with, and of the whole of what it was given;
    the invariants say the same of what it has come past so far. `Steady`:
    `configfile` is the first file of those that the first pass has met, and every
    option has the last value that the second pass has met, else that of the
    strongest of the files read so far (`FilesRead`). `Defined`: of those files,
    sections, histories, attributes, units and elements hold what the strongest,
    the first, or all of them say (`SectionsStand`, `HistoriesStand`, `AttrsStand`,
    `UnitsStand`, `ElementsStand`); reading the sections of earlier files again
    changes none of it. `ModulesRead` and `PolicyParsed`: the modules are those of
    the arguments passed, the policy that of the option.
  * What the folds over sections leave is told by `PlacesFact`, `HistoriesFact`,
    `AttrsFact`, `ElementsFact`, `DivsFact` and `UnitsFact`. Of texts: `SplitJoined`,
    that splitting what was joined gives back the pieces; `CutFacts`, `TvFact`,
    `ModuleFact`, `ModulesFact`, that a type and its value, a module and its
    options, and a list of them come back from their texts;
    `TokensFact` and `ParsePolicyFact`, that the policy has the rules it was written
    of. `MaskFacts`: a mask never matches more than the manual's wildcard says, and
    the same where no character behind a `*` comes twice in the name.
    `FloatFact`: the float of a value is nearer to it than one part in `Mantissa`,
    and no smaller than a divisor that the value reaches.
  * `ClosedOnce`, `RunsReady` and `SomethingRuns`, for any lists of modules and any
    of them failing. The invariant `MInv` says what the flag of `do_shutdown()`
    tells (`FlagTells`), that a subsystem with `s_nmod` above 0 has a module that
    is enabled or was lost (`Counted`), that the subsystems the walk has passed were
    given one (`Activated`), and which of the enabled modules have been initialised
    so far (`InitReached`).
* `CursesProofs`, for any elements, attributes, screens and options and any
  forests that are what `Elements` is proved to keep (`ForestAssumption`):
  `CachedIsCurrent`, inductive together with `TypeOK`, in which the selection
  points into the forest or nowhere; `SelectedIsMarked` and `NothingCutOff`,
  which follow from the two by arithmetic on the budget of lines (`PlanCases`:
  the four ways in which `draw_content()` makes room); `LeftReachesAll`, by a ring
  of the attributes and the list head; `PageSkipsNothing`, for which
  `LengthKept` says that the length the page keys move by is the one that was
  drawn, `ElementsOnce` that an element has one line, and `Walked` that i moves
  down lead i lines further down at most, titles aside, unless they end above or
  in an empty group; the windows before and after such a move meet
  (`WindowsMeet`).

`Lemmas` proves induction as a statement about sets of naturals
(`NatSetInduction`) and from it that a recursion over the naturals has a solution
(`RecursionExists`); the library states both with operators as parameters. What a
fold or a recursive function computes is then proved along the table of its
intermediate values.

Only model-checked:

* `ReadsGoOn` and `Converges`: fairness and `ENABLED` are out of the prover's
  reach.
* `ImplementsElements`: the walks of `ElementTree` are RECURSIVE operators over
  trees, and what they compute for every tree needs induction over data.

## Findings

The run `counter_64_restart` ends in a violation of what a comment says, which
PROJECT.json quotes: a 64-bit counter that restarts makes the total fall
(`attr.c:558`).

Seven more claims of the manual and of comments are stated beside the properties,
each with the lines it is made in. None is among the runs of PROJECT.json, but each
has a configuration of its own, that of the module's run with the one claim in
place of its properties (`MCReadersPolicy.cfg` with denied interfaces in front),
and under it TLC finds the claim violated:

* `FreedOnlyWhenStale` (`MCElementsLifetime.cfg`): an element leaves one reading
  before it has gone without updates for its lifetime, because the reading that
  updates it counts down too (`element.c:324`; `bmon.8:83-86`).
* `PolicyDecides` (`MCReadersPolicy.cfg`): with `-p eth0`, proc shows nothing when
  `lo` comes first in the file (`in_proc.c:153`), and `!dummy1` hides every dummy
  device behind it and the groups after the first (`in_dummy.c:106`); the manual
  has the policy decide (`bmon.8:55-58`).
* `LinesEndLastRow` (`MCCursesFullRow.cfg`): vertical lines on the row of the status
  bar, below a full last row of information, though they are to be drawn when it is
  incomplete (`out_curses.c:833`, comment at `out_curses.c:854-857`).
* `GivenIsRead` (`MCStartupFile.cfg`): a `-f` behind an option with a separate value,
  as in `-r 6 -f x`, is silently ignored, and `-pifx` reads the file `x`
  (`bmon.c:129`; `bmon.8:50-53`).
* `ConfigfileIsKnown` (`MCStartupConfigfile.cfg`): `--configfile` ends bmon in the
  second pass, which does not know it (`bmon.c:168`; `bmon.8:50-53`).
* `LifetimeIsSet` (`MCStartupLifetime.cfg`): `-L` stores an integer in an option that
  is a float (`bmon.c:226`, `conf.c:86`): libconfuse stops bmon with an assertion or
  refuses it (`bmon.8:83-86`).
* `ShownAboveOne` (`MCStartupUnits.cfg`): a value just below a fraction, as 2^30 - 1,
  is shown below 1 (`unit.c:88`, comment at `unit.c:70-71`).

Others were met while modelling and are not stated; the bounds and assumptions of
the passing runs leave them out:

* with a lifetime between one and two read intervals an element is freed in the
  very reading that updated it (`element.c:324`); below one read interval
  `get_lifecycles()` is 0, which the unsigned counter wraps around, and such an
  element is in effect never freed. `Elements` allows both lifetimes and what is
  proved holds for them; the properties about lifetimes run with two readings.
* late readings that are caught up come so close together that
  `calc_counter_rate()` skips the second one, and what that one counted never
  shows in a rate (`attr.c:578`). `RateNotUnder` holds when delays fit into a
  read interval.
* with a read interval above the history interval every update is discarded, and
  `history_store_data()` returns before it allocates the slots: the graph stays
  blank instead of marked unknown (`history.c:83`, comment at
  `history.c:172-177`). `History` runs with intervals from the read interval up.
* with a sleep time above a second `main()` sleeps past the next reading, because
  it shortens the sleep only when less than a second is left (`bmon.c:368`):
  `OnTime` is proved for `SleepTime <= Second`. Below that a sleep passes it only
  by what the reading before it took.
* `activate_default()` never tries a second module: `module_set()` quits when the
  first one cannot be probed (`input.c:48-52`, `module.c:153`). `bmon.8:104-107` names
  `proc` as the fallback of `netlink`.
* netlink: a link stays below its master's element when the master goes down,
  and is freed with it in the reading that has just updated it
  (`element.c:204`); `bmon.8:85-86` has elements displayed for a lifetime without
  updates. `Settles` shows that it comes back.
* netlink: `do_link()` takes the index of a master for one of the same network
  namespace (`in_netlink.c:778-784`). Where it is one of another, as that of a
  veth's peer can be, a link may come out as its own master, or three as a loop.
  Then the screen never comes to rest: the link at top level hides itself below
  itself, is freed with that, and comes back. `MasterAssumption` leaves such loops
  out; with the link that is its own master, or a loop of three, among `Kernels`
  and without the assumption TLC finds `Settles` violated.
* history: the history of a rate or a percentage holds the mean change of the
  value, not the value, and a value that falls shows as 2^64 less the
  difference (`history.c:92`); the first is divided by 0 (`history.c:95`). With
  a history interval above the read interval `history_update()` returns at every
  update, because the time since an update that was never made stays 0
  (`history.c:162-194`): such a history stays empty.
* history: a mean that, cut to the width, is the slot's largest value reads as
  unknown, and a larger one is shown cut (`history.c:101`); the default is 64 bits.
* policy: a `*` runs to the first occurrence of the next character
  (`element.c:52`), so that `*th0` does not match `tth0`; the manual says any
  number of any character (`bmon.8:200`). `PolicyAsWritten` exempts such rules.
* curses: `h` on the list head after Left on the first attribute, and `r` before
  any screen was large enough, use memory that is not what the code takes it
  for (`attr.c:376`, `out_curses.c:1107`): the action `Undefined`. The comment
  that calls for `element_current()` before drawing is not kept on screens that
  are too small.
* curses: when info or the details are switched off to make room, the list is
  shortened by its own required length as well (`out_curses.c:916`), and the
  message about the minimum of lines is off by one (`out_curses.c:943`). The page
  keys may pass a line unseen when they cross two group titles. A `gheight` of 0
  ends in `BUG()`. The help names the key `H` where the code has `h`.
* startup: `-peth0` prints the help, because the first pass reads the letters as
  options.
* startup: an element that one file hides stays hidden whatever a later file
  says; a user's definition of an attribute never overrides the system's; a
  history interval of 0 takes the read interval of the files, not that of `-r`;
  `ignore_overflows` is not declared for attributes, so no file can set it; a
  `unit_exp` of n selects the n-th fraction and 0 none, and no option sets it.

## Not modelled, and the plan

The properties that are left to state: the scaling of columns in `graph.c`
(`Graph`), the tokens of format strings in `out_format.c` (`Format`), and the
values netlink, proc and sysctl take to attributes.

The proof that is left is the refinement of `Elements` by `ElementTree`, key by
key, for which the walks have to be written without recursion over trees.

Not planned: `out_ascii.c` and `out_format.c` beyond their tokens, drawing, the
sections color and layout of the configuration, libconfuse, getopt, libnl,
curses, and the parsing of `/proc` and of BSD's sysctl, which are input and
output without a protocol. Of the command line the word `--` is left out, and an
`-f` at the end of what is attached to another option, which takes the next word.
A negative `ngraph` is not modelled either.
