------------------------------ MODULE Startup ------------------------------
(***************************************************************************)
(* From main() to module_init() (src/bmon.c, src/conf.c): the default        *)
(* configuration, a first pass over the command line for -f, the files, a    *)
(* second pass for the other options, and what comes of it: the options'    *)
(* values, the policy, the modules asked for, and the definitions of units, *)
(* histories, attributes and elements.                                      *)
(*                                                                          *)
(* libconfuse, which parses the files, and getopt_long() are external.      *)
(*                                                                          *)
(* An argument is [opt, style, value]: its short name, or the long one where *)
(* it has no short one or is told apart; a value is attached to a short      *)
(* option ("attached"), stands behind the '=' of a long one ("equals") or in *)
(* a word of its own ("separate"), or there is none ("none").  The opt       *)
(* "word" is a word that is no option.  A text is a sequence of characters,  *)
(* and so are numbers, which only pass through.  The word "--", and an -f at *)
(* the end of what is attached to another option, are left out.             *)
(***************************************************************************)
EXTENDS Policy, Units, Functions

CONSTANTS
    Starts,         \* what bmon is started with
    Defaults,       \* global_opts: the options' values by default
    DefaultConfig,  \* default_config: a file
    None            \* no file, no value

VARIABLES
    argv,        \* the command line
    files,       \* the file of the "system" and the one of the "user", or None, and by
                 \* name those that can be "given" by -f
    meant,       \* auxiliary: what the user has written the texts for
    stage,       \* where main() is; "ready", "quit", "exit" or "aborted" in the end
    optind,
    configfile,
    conf,        \* external: the options' values
    sections,    \* external: the sections of all files so far, per kind
    units, histories, attrs, elements,    \* by name
    modules,     \* what module_set() was called for, per subsystem
    policy       \* the lists allowed and denied

input == <<argv, files, meant>>
definitions == <<units, histories, attrs, elements>>
startup == <<input, stage, optind, configfile, conf, sections, definitions, modules, policy>>

Kinds == {"unit", "history", "attr", "element"}

StartupInit ==
    /\ \E s \in Starts : argv = s.argv /\ files = s.files /\ meant = s.meant
    /\ stage = "default" /\ optind = 1 /\ configfile = None
    /\ conf = Defaults /\ sections = [k \in Kinds |-> <<>>]
    /\ units = <<>> /\ histories = <<>> /\ attrs = <<>> /\ elements = <<>>
    /\ modules = [ss \in {"input", "output"} |-> <<>>]
    /\ policy = ParsePolicy(<<>>)

GoTo(s) == stage' = s /\ optind' = 1

\* quit(), or exit().
Leave(s) ==
    /\ stage' = s
    /\ UNCHANGED <<input, optind, configfile, conf, sections, definitions, modules, policy>>

-----------------------------------------------------------------------------
(***************************************************************************)
(* The files.                                                               *)
(***************************************************************************)
\* step taken with each of list in turn, from the first on.
After(step(_, _), base, list) ==
    LET after[i \in 0 .. Len(list)] == IF i = 0 THEN base ELSE step(after[i - 1], list[i])
    IN  after[Len(list)]

\* External: cfg_parse() replaces a section of the same title.
Place(secs, new) ==
    LET same == {i \in DOMAIN secs : secs[i].title = new.title}
    IN  IF same = {} THEN Append(secs, new) ELSE [i \in DOMAIN secs |-> IF i \in same THEN new ELSE secs[i]]
PlaceAll(secs, list) == After(Place, secs, list)

Parse(file) == [k \in Kinds |-> PlaceAll(sections[k], file[k])]

Get(table, name, new) == IF name \in DOMAIN table THEN table[name] ELSE new
Enter(table, name, entry) == [n \in DOMAIN table \cup {name} |-> IF n = name THEN entry ELSE table[n]]
Over(new, old) == [n \in DOMAIN new \cup DOMAIN old |-> IF n \in DOMAIN new THEN new[n] ELSE old[n]]

\* configfile_read_units()
AddDivs(unit, variants) == After(AddDiv, unit, variants)
ReadUnit(table, sec) ==
    IF sec.variants = <<>> THEN table
    ELSE Enter(table, sec.title, AddDivs(Get(table, sec.title, UnitAdd), sec.variants))
ReadUnits(table, list) == After(ReadUnit, table, list)

\* add_div() and configfile_read_units(): ntxt is the number of names.
UnitIsWrong(sec) ==
    \E v \in Range(sec.variants) :
        v.title \notin Variants \/ (v.div # <<>> /\ v.ntxt # Len(v.div))

\* configfile_read_history(): an interval of 0 is the read interval, as it is now.
HistoryOf(read_interval, sec) ==
    [interval |-> IF sec.interval = <<"0">> THEN read_interval ELSE sec.interval, type |-> sec.type]

\* Mutant: a definition stands once it is made, as one of an attribute does.
ReadHistoryOnce(read_interval, table, sec) ==
    IF sec.title \in DOMAIN table THEN table ELSE Enter(table, sec.title, HistoryOf(read_interval, sec))

ReadHistory(read_interval, table, sec) ==
    Enter(table, sec.title, HistoryOf(read_interval, sec))
ReadHistories(read_interval, table, list) ==
    After(LAMBDA t, sec : ReadHistory(read_interval, t, sec), table, list)

HistoryIsWrong(sec) == sec.type \notin {"8bit", "16bit", "32bit", "64bit"}

\* configfile_read_attrs(), attr_def_add(): the first definition of a name stands.
ReadAttr(table, sec) ==
    IF sec.title \in DOMAIN table THEN table
    ELSE Enter(table, sec.title, [unit |-> sec.unit, type |-> sec.type])
ReadAttrs(table, list) == After(ReadAttr, table, list)

AttrIsWrong(table, sec) ==
    sec.unit \notin DOMAIN table \/ sec.type \notin {"counter", "rate", "percent"}

\* configfile_read_element_cfg(): flags are only added to.
NewFlags(old, sec) == old.flags \cup {IF sec.show THEN "show" ELSE "hide"}

\* Of several numbers the last that is not 0.
NonZero(old, all) == After(LAMBDA n, m : IF m = <<"0">> THEN n ELSE m, old, all)

ReadElement(table, sec) ==
    LET old == Get(table, sec.title, [flags |-> {}, rxmax |-> <<"0">>, txmax |-> <<"0">>])
    IN  Enter(table, sec.title, [flags |-> NewFlags(old, sec),
                                 rxmax |-> NonZero(old.rxmax, <<sec.max, sec.rxmax>>),
                                 txmax |-> NonZero(old.txmax, <<sec.max, sec.txmax>>)])
ReadElements(table, list) == After(ReadElement, table, list)

\* configfile_read_...() of all sections, those of the files before included.
ReadSections(secs, read_interval) ==
    /\ units' = ReadUnits(units, secs["unit"])
    /\ histories' = ReadHistories(read_interval, histories, secs["history"])
    /\ attrs' = ReadAttrs(attrs, secs["attr"])
    /\ elements' = ReadElements(elements, secs["element"])

IsWrong(secs) ==
    \/ \E sec \in Range(secs["unit"]) : UnitIsWrong(sec)
    \/ \E sec \in Range(secs["history"]) : HistoryIsWrong(sec)
    \/ \E table \in {ReadUnits(units, secs["unit"])}, sec \in Range(secs["attr"]) :
          AttrIsWrong(table, sec)

\* cfg_parse() of a file and its sections, then on to the stage next.
Read(file, next) ==
    \E secs \in {Parse(file)}, values \in {Over(file.opts, conf)} :
        \/ /\ file.malformed \/ IsWrong(secs)
           /\ Leave("quit")
        \/ /\ ~file.malformed /\ ~IsWrong(secs)
           /\ conf' = values
           /\ sections' = secs
           /\ ReadSections(secs, values["read_interval"])
           /\ GoTo(next)
           /\ UNCHANGED <<input, configfile, modules, policy>>

\* conf_init_pre()
ConfInitPre == stage = "default" /\ Read(DefaultConfig, "pre")

\* conf_read(): bmon quits where there is no file that must be there.
ConfRead(file, must, next) ==
    \/ /\ file = None /\ must
       /\ Leave("quit")
    \/ /\ file = None /\ ~must
       /\ GoTo(next)
       /\ UNCHANGED <<input, configfile, conf, sections, definitions, modules, policy>>
    \/ /\ file # None
       /\ Read(file, next)

\* configfile_read()
ConfigfileRead ==
    \/ stage = "files" /\ configfile # None /\ ConfRead(Get(files["given"], configfile, None), TRUE, "post")
    \/ stage = "files" /\ configfile = None /\ ConfRead(files["system"], FALSE, "user")
    \/ stage = "user" /\ ConfRead(files["user"], FALSE, "post")

-----------------------------------------------------------------------------
(***************************************************************************)
(* The command line.                                                        *)
(***************************************************************************)
Arg == argv[optind]
NextArg == optind' = optind + 1 /\ UNCHANGED <<input, stage, sections, definitions, policy>>

TakesFile(a) == a.opt \in {"f", "configfile"}

\* parse_args_pre(): getopt stops at a word, and takes the value of an option that
\* this pass does not know for one (the '+').
StopsPre(a) == a.opt = "word" \/ (a.style = "separate" /\ ~TakesFile(a))

\* What is attached to an option that this pass does not know are more options: the
\* first that it does know counts, and of -f the value is what is left.
Cluster(a) == IF a.style = "attached" /\ ~TakesFile(a) THEN {i \in DOMAIN a.value : a.value[i] \in {"f", "h", "v", "V"}} ELSE {}
PreMeans(a) ==
    IF Cluster(a) = {} THEN a
    ELSE LET i == Min(Cluster(a))
         IN  [opt |-> a.value[i], style |-> "attached", value |-> SubSeq(a.value, i + 1, Len(a.value))]

LeavesPre(a) == PreMeans(a).opt \in {"h", "help", "v", "V", "version"}

\* set_configfile(): the first call counts.
\* Mutant: the last one does.
SetConfigfileAgain(file) == file

SetConfigfile(file) == IF configfile = None THEN file ELSE configfile

ParseArgsPre ==
    /\ stage = "pre" /\ optind <= Len(argv) /\ ~StopsPre(Arg)
    /\ \/ /\ LeavesPre(Arg)
          /\ Leave("exit")
       \/ /\ TakesFile(PreMeans(Arg))
          /\ configfile' = SetConfigfile(PreMeans(Arg).value)
          /\ NextArg /\ UNCHANGED <<conf, modules>>
       \/ /\ ~LeavesPre(Arg) /\ ~TakesFile(PreMeans(Arg))
          /\ NextArg /\ UNCHANGED <<configfile, conf, modules>>

EndArgsPre ==
    /\ stage = "pre" /\ (optind <= Len(argv) => StopsPre(Arg))
    /\ GoTo("files")
    /\ UNCHANGED <<input, configfile, conf, sections, definitions, modules, policy>>

\* The options parse_args_post() stores, and what it stores.
OptionOf ==
    [p |-> "policy", r |-> "read_interval", R |-> "rate_interval", s |-> "sleep_time",
     a |-> "show_all", U |-> "use_si", b |-> "use_bit"]
Stored(a) == IF a.opt \in {"a", "U", "b"} THEN TRUE ELSE a.value

\* parse_tv(): the type, up to the first '=', and the value.
First(text, c) == Min({i \in DOMAIN text : text[i] = c} \cup {Len(text) + 1})
ParseTv(text) ==
    LET cut == First(text, "=")
    IN  [type |-> SubSeq(text, 1, cut - 1),
         value |-> IF cut > Len(text) THEN None ELSE SubSeq(text, cut + 1, Len(text))]

\* parse_module(): the name, up to the first ':', and the options.
\* Mutant: a ':' in an option cuts it off.
ParseModuleToLast(text) ==
    LET parts == Split(text, ":")
    IN  [name |-> parts[1],
         attrs |-> IF Len(parts) = 1 THEN <<>>
                   ELSE LET opts == Split(parts[Len(parts)], ";") IN [i \in DOMAIN opts |-> ParseTv(opts[i])]]

ParseModule(text) ==
    LET cut == First(text, ":")
        opts == Split(SubSeq(text, cut + 1, Len(text)), ";")
    IN  [name |-> SubSeq(text, 1, cut - 1),
         attrs |-> IF cut > Len(text) THEN <<>> ELSE [i \in DOMAIN opts |-> ParseTv(opts[i])]]

\* parse_module_param()
ParseModuleParam(text) == LET all == Split(text, ",") IN [i \in DOMAIN all |-> ParseModule(all[i])]

\* input_set() and output_set().
SubsysOf == [i |-> "input", o |-> "output"]
IsListing(text) == [k \in DOMAIN text |-> Lower(text[k])] = <<"l", "i", "s", "t">>

IsUnknownPost(a) == a.opt \notin DOMAIN OptionOf \cup DOMAIN SubsysOf \cup {"L", "f", "word"}

ParseArgsPost ==
    /\ stage = "post" /\ optind <= Len(argv)
    /\ \/ /\ Arg.opt \in DOMAIN OptionOf
          /\ conf' = [conf EXCEPT ![OptionOf[Arg.opt]] = Stored(Arg)]
          /\ NextArg /\ UNCHANGED <<configfile, modules>>
       \/ /\ Arg.opt = "L"              \* cfg_setint() of a float: libconfuse asserts, or refuses
          /\ \/ Leave("aborted")
             \/ NextArg /\ UNCHANGED <<configfile, conf, modules>>
       \/ /\ Arg.opt \in DOMAIN SubsysOf /\ IsListing(Arg.value)
          /\ Leave("exit")
       \/ /\ Arg.opt \in DOMAIN SubsysOf /\ ~IsListing(Arg.value)
          /\ \/ Leave("quit")           \* no name, or no such module or none that works (see Modules)
             \/ /\ <<>> \notin Range(Split(Arg.value, ","))
                /\ modules' = [modules EXCEPT ![SubsysOf[Arg.opt]] = @ \o ParseModuleParam(Arg.value)]
                /\ NextArg /\ UNCHANGED <<configfile, conf>>
       \/ /\ Arg.opt \in {"f", "word"}
          /\ NextArg /\ UNCHANGED <<configfile, conf, modules>>
       \/ /\ IsUnknownPost(Arg)         \* "Aborting..."
          /\ Leave("quit")

\* conf_init_post(): the options are taken over, element_parse_policy().  A getopt that
\* keeps the '+' of the first pass, as one does until optind is set to 0, has
\* stopped at the first word; another passes over the words.
ConfInitPost ==
    /\ stage = "post" /\ (optind <= Len(argv) => Arg.opt = "word")
    /\ policy' = ParsePolicy(conf["policy"])
    /\ GoTo("ready")
    /\ UNCHANGED <<input, configfile, conf, sections, definitions, modules>>

StartupNext == ConfInitPre \/ ParseArgsPre \/ EndArgsPre \/ ConfigfileRead \/ ParseArgsPost \/ ConfInitPost

StartupSpec == StartupInit /\ [][StartupNext]_startup

-----------------------------------------------------------------------------
Ready == stage = "ready"

\* bmon.8 knows options only.
Wordless == \A i \in DOMAIN argv : argv[i].opt # "word"

\* The file the user has given, "Set alternative path to configuration file"
\* (bmon.8:50-53), wherever on the command line: the first one of several.
Given == {i \in DOMAIN argv : TakesFile(argv[i])}
FileGiven == IF Given = {} THEN None ELSE argv[Min(Given)].value

\* Nothing in front of that keeps the first pass from it, and no value of another
\* option holds an f that it could take for a -f.
IsInFront ==
    /\ \A i \in Given : \A j \in 1 .. i - 1 : argv[j].style = "separate" => TakesFile(argv[j])
    /\ \A i \in DOMAIN argv : argv[i].style = "attached" /\ ~TakesFile(argv[i]) => "f" \notin Range(argv[i].value)

\* The files that are in force, the weakest first.
With(list, file) == IF file = None THEN list ELSE Append(list, file)
InForce ==
    IF configfile # None THEN <<DefaultConfig, files["given"][configfile]>>
    ELSE With(With(<<DefaultConfig>>, files["system"]), files["user"])

\* The strongest and the weakest file of a list for which Says holds, as a set.
Strongest(list, Says(_)) ==
    LET saying == {i \in DOMAIN list : Says(list[i])}
    IN  IF saying = {} THEN {} ELSE {list[Max(saying)]}
Weakest(list, Says(_)) ==
    LET saying == {i \in DOMAIN list : Says(list[i])}
    IN  IF saying = {} THEN {} ELSE {list[Min(saying)]}

FileValue(list, o) ==
    LET strongest == Strongest(list, LAMBDA f : o \in DOMAIN f.opts)
    IN  IF strongest = {} THEN Defaults[o] ELSE (CHOOSE f \in strongest : TRUE).opts[o]

\* When bmon comes to its modules, every option has the value of its last
\* appearance on the command line, else of the strongest file, which is the one
\* in configfile if there is one, else the user's and then the system's, else its
\* default, in whatever order the arguments stand; and the file is the one given,
\* if the first pass can come to it.  (Not so -L, see LifetimeIsSet.)
Precedence ==
    Ready /\ Wordless =>
        /\ IsInFront => configfile = FileGiven
        /\ \A o \in DOMAIN Defaults :
              LET args == {i \in DOMAIN argv : argv[i].opt \in DOMAIN OptionOf /\ OptionOf[argv[i].opt] = o}
              IN  conf[o] = IF args # {} THEN Stored(argv[Max(args)]) ELSE FileValue(InForce, o)

\* -f sets the file that is read (bmon.8:50-53), also behind other options.  The code
\* does not see to it: the first pass stops at the value of an option it does not
\* know, and takes an f that is attached to one for a -f (bmon.c:127-143).
GivenIsRead == Ready /\ Wordless /\ Given # {} => configfile = FileGiven

\* --configfile is an option of bmon (bmon.8:50).  The code does not see to it: the
\* second pass does not know it and aborts (bmon.c:168-180, 233-235).
ConfigfileIsKnown == stage = "post" /\ optind <= Len(argv) /\ TakesFile(Arg) => ~IsUnknownPost(Arg)

\* -L sets the lifetime (bmon.8:83-86).  The code does not see to it: the option is a
\* float, and is set as an integer (bmon.c:226, conf.c:86).
LifetimeIsSet ==
    Ready /\ Wordless =>
        LET args == {i \in DOMAIN argv : argv[i].opt = "L"}
        IN  args # {} => conf["lifetime"] = argv[Max(args)].value

Titles(f, k) == {f[k][i].title : i \in DOMAIN f[k]}
Section(f, k, title) == CHOOSE sec \in Range(f[k]) : sec.title = title

\* Of several definitions of a history the strongest file's stands, of an
\* attribute the weakest's; a history with an interval of 0 has the read interval
\* of the files, wherever each of the two stands.
DefinitionsStand ==
    Ready =>
        /\ \A f \in Range(InForce) : \A title \in Titles(f, "history") :
              f \in Strongest(InForce, LAMBDA g : title \in Titles(g, "history")) =>
                LET sec == Section(f, "history", title)
                IN  histories[title] =
                      [interval |-> IF sec.interval = <<"0">> THEN FileValue(InForce, "read_interval") ELSE sec.interval,
                       type |-> sec.type]
        /\ \A f \in Range(InForce) : \A title \in Titles(f, "attr") :
              f \in Weakest(InForce, LAMBDA g : title \in Titles(g, "attr")) =>
                attrs[title] = [unit |-> Section(f, "attr", title).unit, type |-> Section(f, "attr", title).type]

\* The fractions the strongest file gives a variant of a unit.
Fractions(title, variant) ==
    LET Gives(f) == \E sec \in Range(f["unit"]) : sec.title = title /\
                        \E v \in Range(sec.variants) : v.title = variant /\ v.div # <<>>
    IN  UNION {{v.div : v \in {x \in Range(Section(f, "unit", title).variants) : x.title = variant}} :
                  f \in Strongest(InForce, Gives)}
UsedFractions(title) ==
    LET wanted == IF conf["use_bit"] THEN "bit" ELSE IF conf["use_si"] THEN "si" ELSE "default"
    IN  UNION {Range(list) : list \in IF Fractions(title, wanted) # {} THEN Fractions(title, wanted)
                                      ELSE Fractions(title, "default")}

\* The fraction a value is shown in, and those that do not exceed the value.
Shown(title, value) == UnitDivisor(FList(units[title], conf["use_bit"], conf["use_si"]), value, DYNAMIC_EXP)
Fitting(title, value) == {f \in UsedFractions(title) : f.div <= Scale * value}

\* A value is shown in the largest fraction of its unit that does not exceed it, of
\* those that the strongest file gives for the variant the user wants, or the default
\* one; or in a larger one that exceeds it by no more than the value's rounding to a
\* float; and no digits behind the point are left out unless they are zeroes.
DivisorFits ==
    Ready => \A title \in DOMAIN units, value \in meant.values :
        LET shown == Shown(title, value)
        IN  /\ \/ /\ shown \in UsedFractions(title)
                  /\ \A f \in Fitting(title, value) : f.div <= shown.div
                  /\ Mantissa * (shown.div - Scale * value) <= Scale * value
               \/ Fitting(title, value) = {} /\ shown = [div |-> Scale, txt |-> ""]
            /\ Digits(value, shown.div) = 0 <=> \E n \in 0 .. value * Scale : n * shown.div = Scale * value

\* The fraction is selected "so that hint is dividied into a small float >= 1.0"
\* (unit.c:70-71).  The code does not see to it: hint is rounded to a float when it is
\* compared (unit.c:88), and a value just below a fraction may be rounded up to it.
ShownAboveOne ==
    Ready => \A title \in DOMAIN units, value \in meant.values :
        Shown(title, value) \in UsedFractions(title) => Shown(title, value).div <= Scale * value

\* How rules, modules and options are written (bmon.8:168-180, 196-206).
Joined(texts, c) ==
    FlattenSeq([i \in DOMAIN texts |-> IF i = 1 THEN texts[i] ELSE <<c>> \o texts[i]])
RuleText(rule) == IF rule.deny THEN <<"!">> \o rule.mask ELSE rule.mask
PolicyText(rules) == Joined([i \in DOMAIN rules |-> RuleText(rules[i])], ",")
TvText(tv) == IF tv.value = None THEN tv.type ELSE tv.type \o <<"=">> \o tv.value
ModuleText(m) ==
    IF m.attrs = <<>> THEN m.name
    ELSE m.name \o <<":">> \o Joined([i \in DOMAIN m.attrs |-> TvText(m.attrs[i])], ";")
ModulesText(ms) == Joined([i \in DOMAIN ms |-> ModuleText(ms[i])], ",")

\* What is shown is what the rules of the policy say, each '*' taken for a
\* wildcard: no rule matches more, and none less where the character behind a '*'
\* is unique in the name; unless a section of a file hides the element, whatever
\* another file says of it, or one shows it (element.c:37-114).  What is empty
\* between two commas is no rule.
PolicyAsWritten ==
    Ready /\ conf["policy"] = PolicyText(meant.rules) => \A name \in meant.names :
        LET flags == Get(elements, name, [flags |-> {}]).flags
            Says(f, show) == \E sec \in Range(f["element"]) : sec.title = name /\ sec.show = show
            rules == {meant.rules[i] : i \in DOMAIN meant.rules} \ {[deny |-> FALSE, mask |-> <<>>]}
            matching == {rule \in rules : Wildcard(rule.mask, name)}
            asked == /\ \A rule \in matching : ~rule.deny
                     /\ (\A rule \in rules : rule.deny) \/ matching # {}
            shown == ElementAllowed(name, flags, policy)
        IN  /\ \A rule \in rules : MatchMask(rule.mask, name) => rule \in matching
            /\ CASE \E f \in Range(InForce) : Says(f, FALSE) -> ~shown
                 [] \E f \in Range(InForce) : Says(f, TRUE) /\ \A g \in Range(InForce) : ~Says(g, FALSE) -> shown
                 [] OTHER -> (\A rule \in rules : IsPlain(rule.mask, name)) => (shown <=> asked)

\* The modules and their options are those the user has written behind -i and -o,
\* in that order, empty types and values and the separators of the other levels
\* included.
AskedBy(i) == Get(meant.modules, i, <<>>)
AskedOf(ss, i) == IF argv[i].opt \in DOMAIN SubsysOf /\ SubsysOf[argv[i].opt] = ss THEN AskedBy(i) ELSE <<>>
ModparamAsWritten ==
    Ready /\ Wordless =>
        \A ss \in {"input", "output"} : modules[ss] = FlattenSeq([i \in DOMAIN argv |-> AskedOf(ss, i)])

-----------------------------------------------------------------------------
(***************************************************************************)
(* What bmon may be started with.                                           *)
(***************************************************************************)
\* Of a title libconfuse keeps one section in a file, and in a unit one variant.
Titled(list) ==
    /\ list \in Seq(Range(list))
    /\ \A i, j \in DOMAIN list : list[i].title = list[j].title => i = j

\* Fractions are given in ascending order.
Ascending(div) ==
    /\ div \in Seq(Range(div)) /\ \A i \in DOMAIN div : IsDivisor(div[i].div)
    /\ \A i, j \in DOMAIN div : i <= j => div[i].div <= div[j].div

IsFile(f) ==
    /\ \A k \in Kinds : Titled(f[k])
    /\ \A sec \in Range(f["unit"]) : Titled(sec.variants) /\ \A v \in Range(sec.variants) : Ascending(v.div)
    /\ \A sec \in Range(f["element"]) : sec.show \in BOOLEAN

FilesOf(s) == {s.files["system"], s.files["user"]} \cup Range(s.files["given"])

ASSUME DefaultsAssumption ==
    /\ Defaults = [o \in DOMAIN Defaults |-> Defaults[o]]
    /\ {"read_interval", "policy", "use_si", "use_bit", "lifetime"} \subseteq DOMAIN Defaults
ASSUME FilesAssumption ==
    IsFile(DefaultConfig) /\ \A s \in Starts : \A f \in FilesOf(s) \ {None} : IsFile(f)
ASSUME ArgumentsAssumption ==
    \A s \in Starts :
        /\ s.argv \in Seq(Range(s.argv))
        /\ \A i \in DOMAIN s.argv :
              /\ s.argv[i].value # None
              /\ TakesFile(s.argv[i]) => s.argv[i].style # "none"
              /\ s.argv[i].style = "attached" => s.argv[i].value \in Seq(Range(s.argv[i].value))
              /\ PreMeans(s.argv[i]).opt = "f" => PreMeans(s.argv[i]).value \notin {None, <<>>}

\* A text without the characters that separate.
Without(text, chars) == text \in Seq(Range(text)) /\ Range(text) \cap chars = {}

\* A rule, and a module, that can be written.
IsRule(rule) ==
    /\ rule = [deny |-> rule.deny, mask |-> rule.mask] /\ rule.deny \in BOOLEAN
    /\ Without(rule.mask, {","})
    /\ ~rule.deny /\ rule.mask # <<>> => rule.mask[1] # "!"
IsTv(tv) ==
    /\ tv = [type |-> tv.type, value |-> tv.value]
    /\ Without(tv.type, {",", ";", "="}) /\ (tv.value = None \/ Without(tv.value, {",", ";"}))
IsModule(m) ==
    /\ m = [name |-> m.name, attrs |-> m.attrs]
    /\ Without(m.name, {",", ":"})
    /\ m.attrs \in Seq(Range(m.attrs)) /\ \A i \in DOMAIN m.attrs : IsTv(m.attrs[i])

\* What is behind an -i or -o is the text of the modules that are meant, or wrong.
IsWrongName(text) == IsListing(text) \/ <<>> \in Range(Split(text, ","))
ASSUME MeaningAssumption ==
    \A s \in Starts :
        /\ s.meant.rules \in Seq(Range(s.meant.rules))
        /\ s.meant.values \subseteq Nat /\ \A value \in s.meant.values : HasFloat(value)
        /\ \A i \in DOMAIN s.meant.rules : IsRule(s.meant.rules[i])
        /\ \A name \in s.meant.names : name \in Seq(Range(name))
        /\ \A i \in DOMAIN s.argv \cap DOMAIN s.meant.modules :
              LET ms == s.meant.modules[i]
              IN  /\ s.argv[i].opt \in DOMAIN SubsysOf /\ ms # <<>> /\ s.argv[i].value = ModulesText(ms)
                  /\ ms \in Seq(Range(ms)) /\ \A m \in Range(ms) : IsModule(m)
        /\ \A i \in DOMAIN s.argv \ DOMAIN s.meant.modules :
              s.argv[i].opt \in DOMAIN SubsysOf => IsWrongName(s.argv[i].value)
=============================================================================
