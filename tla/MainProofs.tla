----------------------------- MODULE MainProofs -----------------------------
(***************************************************************************)
(* Proofs about what main() does (src/bmon.c, src/conf.c, src/module.c):    *)
(* from the command line and the files to options, definitions, policy and  *)
(* modules (Startup), and then with the modules until bmon ends (Modules).  *)
(***************************************************************************)
EXTENDS Startup, Modules, Lemmas, FiniteSetTheorems, TLAPS

-----------------------------------------------------------------------------
(***************************************************************************)
(* Lists of files.                                                          *)
(***************************************************************************)
\* Of a non-empty set of places the largest is above all of it.
LEMMA MaxIsGreatest ==
  ASSUME NEW n \in Nat, NEW T, T \subseteq 0 .. n, T # {}
  PROVE  Max(T) \in T /\ \A y \in T : y <= Max(T)
<1> DEFINE U == {n - x : x \in T}
<1>1. U \subseteq 0 .. n /\ U # {}
  <2>1. \A x \in T : x \in 0 .. n /\ n - x \in 0 .. n
    OBVIOUS
  <2>2. PICK t : t \in T
    OBVIOUS
  <2>3. n - t \in U
    BY <2>2
  <2> QED
    BY <2>1, <2>3
<1>2. Min(U) \in U /\ \A y \in U : Min(U) <= y
  <2> HIDE DEF U
  <2> QED
    BY <1>1, MinIsLeast
<1>3. PICK m \in T : Min(U) = n - m
  BY <1>2
<1>4. \A y \in T : y <= m
  <2> SUFFICES ASSUME NEW y \in T PROVE y <= m
    OBVIOUS
  <2>1. n - y \in U
    OBVIOUS
  <2>2. n - m <= n - y
    BY <1>2, <1>3, <2>1
  <2> QED
    BY <2>2
<1> QED
  BY <1>4 DEF Max

\* What one more file says is stronger than what the others say.
LEMMA FileValueStep ==
  ASSUME NEW S, NEW list \in Seq(S), NEW f \in S, NEW o
  PROVE  FileValue(Append(list, f), o) =
           IF o \in DOMAIN f.opts THEN f.opts[o] ELSE FileValue(list, o)
<1> DEFINE new == Append(list, f)
           n == Len(list)
           Says(l) == {i \in DOMAIN l : o \in DOMAIN l[i].opts}
           Value(l) == IF Says(l) = {} THEN Defaults[o] ELSE l[Max(Says(l))].opts[o]
<1>1. /\ n \in Nat /\ DOMAIN list = 1 .. n /\ DOMAIN new = 1 .. n + 1
      /\ new[n + 1] = f /\ \A i \in 1 .. n : new[i] = list[i]
  OBVIOUS
<1>2. ASSUME NEW l PROVE FileValue(l, o) = Value(l)
  <2> DEFINE x == l[Max(Says(l))]
             s == IF Says(l) = {} THEN {} ELSE {x}
  <2>1. FileValue(l, o) = IF s = {} THEN Defaults[o] ELSE (CHOOSE g \in s : TRUE).opts[o]
    BY DEF FileValue, Strongest
  <2>2. (CHOOSE g \in {x} : TRUE) = x
    <3> HIDE DEF x
    <3> QED
      OBVIOUS
  <2> HIDE DEF Says, x
  <2> QED
    BY <2>1, <2>2 DEF x
<1>3. CASE o \in DOMAIN f.opts
  <2>1. Says(new) \subseteq 0 .. n + 1 /\ n + 1 \in Says(new)
    BY <1>1, <1>3
  <2>2. Max(Says(new)) = n + 1
    <3> HIDE DEF Says
    <3>1. Max(Says(new)) \in Says(new) /\ \A y \in Says(new) : y <= Max(Says(new))
      BY <2>1, <1>1, MaxIsGreatest
    <3> QED
      BY <1>1, <2>1, <3>1
  <2> QED
    BY <1>1, <1>2, <1>3, <2>1, <2>2
<1>4. CASE o \notin DOMAIN f.opts
  <2>1. Says(new) = Says(list) /\ Says(list) \subseteq 0 .. n
    BY <1>1, <1>4
  <2>2. Says(list) # {} => Max(Says(list)) \in 1 .. n
    <3>1. Says(list) \subseteq 1 .. n
      BY <1>1
    <3> HIDE DEF Says
    <3> QED
      BY <1>1, <2>1, <3>1, MaxIsGreatest
  <2> QED
    <3>1. Value(new) = Value(list)
      <4>1. Says(list) # {} => new[Max(Says(list))] = list[Max(Says(list))]
        BY <1>1, <2>2
      <4> HIDE DEF Says
      <4> QED
        BY ONLY <2>1, <4>1
    <3> HIDE DEF Value
    <3> QED
      BY <1>2, <1>4, <3>1
<1> QED
  BY <1>3, <1>4

-----------------------------------------------------------------------------
(***************************************************************************)
(* Where main() is, what it has read and what it has seen of the command    *)
(* line.                                                                    *)
(***************************************************************************)
Ended == stage \in {"quit", "exit", "aborted"}
Known == {DefaultConfig, files["system"], files["user"]} \cup Range(files["given"])

\* The files that have been read.
FilesRead ==
    CASE stage = "default" -> <<>>
      [] stage \in {"pre", "files"} -> <<DefaultConfig>>
      [] stage = "user" -> With(<<DefaultConfig>>, files["system"])
      [] OTHER -> InForce

\* The -f that the first pass has met, if it can come to all of them.
Met == {i \in Given : stage = "pre" => i < optind}

\* The places at which the second pass has met the option o.
Said(o) ==
    {i \in DOMAIN argv : /\ argv[i].opt \in DOMAIN OptionOf /\ OptionOf[argv[i].opt] = o
                         /\ stage = "ready" \/ (stage = "post" /\ i < optind)}

Placed ==
    /\ argv \in Seq(Range(argv)) /\ \A i \in DOMAIN argv : argv[i].value # None
    /\ \A i \in DOMAIN argv : argv[i].style = "attached" => argv[i].value \in Seq(Range(argv[i].value))
    /\ stage \in {"default", "pre", "files", "user", "post", "ready", "quit", "exit", "aborted"}
    /\ optind \in 1 .. Len(argv) + 1
    /\ conf = [o \in DOMAIN conf |-> conf[o]] /\ DOMAIN Defaults \subseteq DOMAIN conf

\* configfile is the first file the first pass has met.
FileFound ==
    /\ stage \in {"default", "user"} => configfile = None
    /\ stage # "default" /\ Wordless /\ IsInFront =>
          configfile = IF Met = {} THEN None ELSE argv[Min(Met)].value

\* Every option has the last value said, else the strongest of the files read.
OptionsSet ==
    \A o \in DOMAIN Defaults :
        conf[o] = IF Said(o) # {} THEN Stored(argv[Max(Said(o))]) ELSE FileValue(FilesRead, o)

Steady ==
    /\ Placed
    /\ ~Ended => FileFound
    /\ ~Ended /\ (stage = "ready" => Wordless) => OptionsSet

\* Nothing is read, met or said in the beginning.
LEMMA SteadyInit == StartupInit => Steady
<1> SUFFICES ASSUME StartupInit PROVE Steady
  OBVIOUS
<1>1. PICK s \in Starts : argv = s.argv
  BY DEF StartupInit
<1>2. /\ stage = "default" /\ optind = 1 /\ configfile = None /\ conf = Defaults
  BY DEF StartupInit
<1>3. /\ argv \in Seq(Range(argv)) /\ \A i \in DOMAIN argv : argv[i].value # None
      /\ \A i \in DOMAIN argv : argv[i].style = "attached" => argv[i].value \in Seq(Range(argv[i].value))
  BY <1>1, ArgumentsAssumption
<1>4. Placed
  BY <1>2, <1>3, DefaultsAssumption DEF Placed
<1>5. FileFound
  BY <1>2 DEF FileFound
<1>6. OptionsSet
  <2>1. \A o : Said(o) = {}
    BY <1>2 DEF Said
  <2>2. FilesRead = <<>>
    BY <1>2 DEF FilesRead
  <2>3. \A o : FileValue(<<>>, o) = Defaults[o]
    BY DEF FileValue, Strongest
  <2> QED
    BY <1>2, <2>1, <2>2, <2>3 DEF OptionsSet
<1> QED
  BY <1>4, <1>5, <1>6 DEF Steady

\* main() leaves all as it is when it quits.
LEMMA LeaveSteady == ASSUME Steady, NEW s \in {"quit", "exit", "aborted"}, Leave(s) PROVE Steady'
BY DEF Leave, input, definitions, Steady, Placed, Ended

\* What reading a file does to options and places, unless bmon quits.
LEMMA ReadFacts ==
  ASSUME NEW file, NEW next, Read(file, next)
  PROVE  \/ Leave("quit")
         \/ /\ conf' = Over(file.opts, conf)
            /\ stage' = next /\ optind' = 1
            /\ UNCHANGED <<input, configfile, modules, policy>>
BY DEF Read, GoTo

\* A file that has been read is stronger than those before it.
LEMMA ReadSteady ==
  ASSUME Steady, ~Ended, NEW file \in Known, NEW next \in {"pre", "user", "post"},
         \A o : Said(o) = {}, stage # "ready", FilesRead \in Seq(Known),
         Read(file, next), stage' = next => FileFound' /\ FilesRead' = Append(FilesRead, file)
  PROVE  Steady'
<1>1. CASE Leave("quit")
  BY <1>1, LeaveSteady
<1>2. CASE /\ conf' = Over(file.opts, conf)
           /\ stage' = next /\ optind' = 1
           /\ UNCHANGED <<input, configfile, modules, policy>>
  <2>1. UNCHANGED <<argv, files>> /\ stage' = next /\ optind' = 1 /\ stage' # "ready"
    BY <1>2 DEF input
  <2>2. /\ conf' = [o \in DOMAIN file.opts \cup DOMAIN conf |-> IF o \in DOMAIN file.opts THEN file.opts[o] ELSE conf[o]]
    BY <1>2 DEF Over
  <2>3. Placed'
    <3>1. conf' = [o \in DOMAIN conf' |-> conf'[o]] /\ DOMAIN Defaults \subseteq DOMAIN conf'
      BY <2>2 DEF Steady, Placed
    <3>2. 1 \in 1 .. Len(argv) + 1
      BY DEF Steady, Placed
    <3> QED
      BY <2>1, <3>1, <3>2 DEF Steady, Placed
  <2>4. \A o : Said(o)' = {}
    <3> SUFFICES ASSUME NEW o, NEW i \in DOMAIN argv, i < 1 PROVE FALSE
      BY <2>1 DEF Said
    <3> QED
      BY DEF Steady, Placed
  <2>5. FilesRead' = Append(FilesRead, file)
    BY <2>1
  <2>6. ASSUME NEW o \in DOMAIN Defaults PROVE conf'[o] = FileValue(FilesRead', o)
    <3>1. FileValue(Append(FilesRead, file), o) = IF o \in DOMAIN file.opts THEN file.opts[o] ELSE FileValue(FilesRead, o)
      BY FileValueStep
    <3>2. o \in DOMAIN conf /\ conf[o] = FileValue(FilesRead, o)
      BY DEF Steady, Placed, OptionsSet
    <3> QED
      BY <2>2, <2>5, <3>1, <3>2
  <2>7. OptionsSet'
    <3> SUFFICES ASSUME NEW o \in DOMAIN Defaults
                 PROVE  conf'[o] = IF Said(o)' # {} THEN Stored(argv[Max(Said(o))])' ELSE FileValue(FilesRead, o)'
      BY DEF OptionsSet
    <3>1. FileValue(FilesRead', o) = FileValue(FilesRead, o)'
      BY DEF FileValue, Strongest
    <3> QED
      BY <2>4, <2>6, <3>1
  <2>8. FileFound'
    BY <2>1
  <2> QED
    BY <2>3, <2>7, <2>8 DEF Steady
<1> QED
  BY <1>1, <1>2, ReadFacts

\* The first and the last of the places in a set, seen so far or met next.
LEMMA PlaceFacts ==
  ASSUME NEW n \in Nat, NEW T, T \subseteq 1 .. n, NEW x \in 1 .. n, \A y \in T : y < x
  PROVE  /\ T # {} => Min(T) \in T /\ Max(T) \in T /\ Min(T \cup {x}) = Min(T)
         /\ T = {} => Min(T \cup {x}) = x
         /\ Max(T \cup {x}) = x
<1> DEFINE U == T \cup {x}
<1>1. T \subseteq 0 .. n /\ U \subseteq 0 .. n /\ U # {}
  OBVIOUS
<1>2. Min(U) \in U /\ \A y \in U : Min(U) <= y
  <2> HIDE DEF U
  <2> QED
    BY <1>1, MinIsLeast
<1>3. Max(U) \in U /\ \A y \in U : y <= Max(U)
  <2> HIDE DEF U
  <2> QED
    BY <1>1, MaxIsGreatest
<1>4. T # {} => Min(T) \in T /\ (\A y \in T : Min(T) <= y) /\ Max(T) \in T
  BY <1>1, MinIsLeast, MaxIsGreatest
<1>5. Max(U) = x
  <2> HIDE DEF U
  <2>1. x \in U /\ \A y \in U : y <= x
    BY DEF U
  <2>2. U \subseteq Nat
    BY <1>1
  <2> HIDE DEF U
  <2>3. Max(U) \in Nat /\ x \in Nat /\ Max(U) <= x /\ x <= Max(U)
    BY <1>3, <2>1, <2>2
  <2> QED
    BY <2>3
<1>6. ASSUME T = {} PROVE Min(U) = x
  BY <1>2, <1>6
<1>7. ASSUME T # {} PROVE Min(U) = Min(T)
  <2>0. Min(T) \in T /\ Min(T) \in 1 .. n
    BY <1>4, <1>7
  <2>1. Min(T) \in U /\ Min(T) < x
    BY <2>0
  <2>2. Min(U) <= Min(T) /\ (Min(U) = x \/ Min(U) \in T)
    BY <1>2, <2>1
  <2>3. Min(T) \in Nat /\ Min(U) \in Nat /\ x \in Nat
    <3>1. Min(U) \in 0 .. n
      BY <1>1, <1>2
    <3> QED
      BY <2>0, <3>1
  <2>4. Min(U) \in T => Min(T) <= Min(U)
    BY <1>4, <1>7
  <2> QED
    BY <2>1, <2>2, <2>3, <2>4
<1> QED
  BY <1>4, <1>5, <1>6, <1>7

\* Where no option has an f in its value, the first pass takes for a -f what is one.
LEMMA PreMeansFact ==
  ASSUME Placed, IsInFront, NEW i \in DOMAIN argv
  PROVE  /\ TakesFile(PreMeans(argv[i])) <=> TakesFile(argv[i])
         /\ TakesFile(argv[i]) => PreMeans(argv[i]) = argv[i]
<1> DEFINE a == argv[i]
           C == Cluster(a)
<1>1. CASE C = {}
  BY <1>1 DEF PreMeans
<1>2. CASE C # {}
  <2>1. /\ a.style = "attached" /\ ~TakesFile(a) /\ a.value \in Seq(Range(a.value))
        /\ C = {k \in DOMAIN a.value : a.value[k] \in {"f", "h", "v", "V"}} /\ "f" \notin Range(a.value)
    BY <1>2 DEF Cluster, IsInFront, Placed
  <2>2. C \subseteq 0 .. Len(a.value) /\ Len(a.value) \in Nat
    BY <2>1
  <2>3. Min(C) \in C
    <3> HIDE DEF C
    <3> QED
      BY <1>2, <2>2, MinIsLeast
  <2>4. a.value[Min(C)] \in {"h", "v", "V"}
    BY <2>1, <2>3 DEF Range
  <2>5. PreMeans(a).opt = a.value[Min(C)]
    BY <1>2 DEF PreMeans
  <2> HIDE DEF C, a
  <2>6. PreMeans(a).opt # "f" /\ PreMeans(a).opt # "configfile"
    BY <2>4, <2>5
  <2> QED
    BY <2>1, <2>6 DEF TakesFile, a
<1> QED
  BY <1>1, <1>2

\* Which -f the first pass has met when it goes on, and all of them in the end.
LEMMA ParseArgsPreSteady == ASSUME Steady, ParseArgsPre PROVE Steady'
<1>1. CASE Leave("exit")
  BY <1>1, LeaveSteady
<1>2. CASE /\ configfile' = IF TakesFile(PreMeans(Arg)) THEN SetConfigfile(PreMeans(Arg).value) ELSE configfile
           /\ NextArg /\ UNCHANGED <<conf, modules>>
  <2>1. /\ stage = "pre" /\ optind <= Len(argv) /\ ~Ended
        /\ UNCHANGED <<argv, files, stage, conf>> /\ optind' = optind + 1
    BY <1>2 DEF ParseArgsPre, NextArg, input, Ended
  <2>2. /\ argv \in Seq(Range(argv)) /\ Len(argv) \in Nat /\ DOMAIN argv = 1 .. Len(argv)
        /\ optind \in 1 .. Len(argv) /\ Placed
        /\ \A i \in DOMAIN argv : argv[i].value # None
    BY <2>1 DEF Steady, Placed
  <2>3. Placed'
    BY <2>1, <2>2 DEF Placed
  <2>4. FileFound
    BY <2>1 DEF Steady
  <2> DEFINE M == Met
  <2>6. M \subseteq 1 .. Len(argv) /\ \A y \in M : y < optind
    BY <2>1, <2>2 DEF Met, Given
  <2>7. Met' = IF TakesFile(Arg) THEN M \cup {optind} ELSE M
    <3>1. Met' = {i \in Given : i < optind + 1}
      BY <2>1 DEF Met, Given
    <3>2. optind \in Given <=> TakesFile(Arg)
      BY <2>2 DEF Given, Arg
    <3>3. Given \subseteq 1 .. Len(argv) /\ M = {i \in Given : i < optind}
      BY <2>1, <2>2 DEF Given, Met
    <3> DEFINE all == Given
    <3> HIDE DEF M, all
    <3>4. {i \in all : i < optind + 1} = IF optind \in all THEN M \cup {optind} ELSE M
      <4>1. all \subseteq Nat /\ optind \in Nat
        <5>1. \A i \in 1 .. Len(argv) : i \in Nat
          BY <2>2
        <5> QED
          BY <3>3, <2>2, <5>1 DEF all
      <4>2. \A i \in all : i < optind + 1 <=> i < optind \/ i = optind
        BY <4>1
      <4> QED
        BY <3>3, <4>1, <4>2 DEF all
    <3> QED
      BY <3>1, <3>2, <3>4 DEF all
  <2>8. /\ M # {} => Min(M) \in M /\ Max(M) \in M /\ Min(M \cup {optind}) = Min(M)
        /\ M = {} => Min(M \cup {optind}) = optind
    <3> HIDE DEF M
    <3> QED
      BY <2>2, <2>6, PlaceFacts
  <2>10. ASSUME Wordless, IsInFront
         PROVE  configfile' = IF Met' = {} THEN None ELSE argv[Min(Met')].value
    <3>1. configfile = IF M = {} THEN None ELSE argv[Min(M)].value
      BY <2>1, <2>4, <2>10 DEF FileFound
    <3>2. configfile' = IF TakesFile(Arg) THEN SetConfigfile(Arg.value) ELSE configfile
      BY <1>2, <2>2, <2>10, PreMeansFact DEF Arg
    <3> HIDE DEF M
    <3>3. M # {} => argv[Min(M)].value # None
      BY <2>2, <2>6, <2>8
    <3> QED
      BY <2>2, <2>7, <2>8, <3>1, <3>2, <3>3 DEF SetConfigfile, Arg
  <2>11. FileFound'
    <3>1. (Wordless' <=> Wordless) /\ (IsInFront' <=> IsInFront)
      BY <2>1 DEF Wordless, IsInFront, Given
    <3> QED
      BY <2>1, <2>10, <3>1 DEF FileFound
  <2>12. OptionsSet'
    <3>1. FilesRead' = FilesRead /\ \A o : Said(o)' = Said(o)
      BY <2>1 DEF FilesRead, Said
    <3> QED
      BY <2>1, <3>1 DEF Steady, OptionsSet, Said, FilesRead
  <2> QED
    BY <2>3, <2>11, <2>12 DEF Steady
<1> QED
  BY <1>1, <1>2 DEF ParseArgsPre

\* The file found in the first pass is the one it ends with.
LEMMA EndArgsPreSteady == ASSUME Steady, EndArgsPre PROVE Steady'
<1>1. /\ stage = "pre" /\ ~Ended /\ (optind <= Len(argv) => StopsPre(Arg))
      /\ stage' = "files" /\ optind' = 1 /\ UNCHANGED <<argv, files, configfile, conf>>
  BY DEF EndArgsPre, GoTo, input, Ended
<1>2. /\ argv \in Seq(Range(argv)) /\ Len(argv) \in Nat /\ DOMAIN argv = 1 .. Len(argv)
      /\ optind \in 1 .. Len(argv) + 1
  BY DEF Steady, Placed
<1>3. Placed'
  BY <1>1, <1>2 DEF Steady, Placed
<1>4. ASSUME Wordless, IsInFront PROVE Met' = Met
  <2>1. Met' = Given
    BY <1>1 DEF Met, Given
  <2>2. ASSUME NEW i \in Given, ~(i < optind) PROVE FALSE
    <3>1. i \in 1 .. Len(argv) /\ TakesFile(argv[i]) /\ optind \in 1 .. Len(argv)
      BY <1>2, <2>2 DEF Given
    <3>2. argv[optind].style = "separate" /\ ~TakesFile(argv[optind])
      BY <1>1, <1>2, <1>4, <3>1 DEF StopsPre, Arg, Wordless
    <3>3. optind \in 1 .. i - 1
      BY <2>2, <3>1, <3>2
    <3> QED
      BY <1>4, <2>2, <3>2, <3>3 DEF IsInFront
  <2> QED
    BY <1>1, <2>1, <2>2 DEF Met
<1>5. FileFound'
  <2>1. (Wordless' <=> Wordless) /\ (IsInFront' <=> IsInFront)
    BY <1>1 DEF Wordless, IsInFront, Given
  <2> QED
    BY <1>1, <1>4, <2>1 DEF Steady, FileFound
<1>6. OptionsSet'
  <2>1. FilesRead' = FilesRead /\ \A o : Said(o)' = Said(o)
    BY <1>1 DEF FilesRead, Said
  <2> QED
    BY <1>1, <2>1 DEF Steady, OptionsSet, Said, FilesRead
<1> QED
  BY <1>3, <1>5, <1>6 DEF Steady

\* Nothing has been said before the second pass.
LEMMA NotYetSaid == ASSUME stage \in {"default", "pre", "files", "user"} PROVE \A o : Said(o) = {}
BY DEF Said

\* A file is read, behind those that have been read, or there is none.
FileIsRead(file, next) ==
    /\ file # None \/ file = DefaultConfig
    /\ Read(file, next) /\ stage' = next /\ stage' \in {"pre", "user", "post"}
    /\ FilesRead' = Append(FilesRead, file)
NoFileIsRead(next) ==
    /\ GoTo(next) /\ stage' \in {"user", "post"}
    /\ UNCHANGED <<input, configfile, conf, sections, definitions, modules, policy>>
    /\ FilesRead' = FilesRead

\* The default configuration is the first file that is read.
LEMMA ConfInitPreCases ==
  ASSUME Steady, ConfInitPre
  PROVE  Leave("quit") \/ (FileIsRead(DefaultConfig, "pre") /\ FileFound')
<1>1. stage = "default" /\ Read(DefaultConfig, "pre")
  BY DEF ConfInitPre
<1>2. FilesRead = <<>> /\ configfile = None
  BY <1>1 DEF FilesRead, Steady, Ended, FileFound
<1>3. SUFFICES ASSUME ~Leave("quit") PROVE FileIsRead(DefaultConfig, "pre") /\ FileFound'
  OBVIOUS
<1>4. UNCHANGED <<argv, files, configfile>> /\ stage' = "pre" /\ optind' = 1
  BY <1>1, <1>3, ReadFacts DEF input
<1>5. Met' = {}
  <2> SUFFICES ASSUME NEW i \in DOMAIN argv, i < 1 PROVE FALSE
    BY <1>4 DEF Met, Given
  <2> QED
    BY DEF Steady, Placed
<1> QED
  BY <1>1, <1>2, <1>4, <1>5 DEF FileIsRead, FileFound, FilesRead

\* configfile_read() reads the file given, or the one of the system and then the
\* user's, of those that are there.
LEMMA ConfigfileReadCases ==
  ASSUME Steady, ConfigfileRead
  PROVE  /\ stage \in {"files", "user"} /\ FilesRead \in Seq(Known)
         /\ \/ Leave("quit")
            \/ \E file \in Known, next \in {"user", "post"} : FileIsRead(file, next) /\ FileFound'
            \/ \E next \in {"user", "post"} : NoFileIsRead(next) /\ FileFound'
<1>1. stage \in {"files", "user"} /\ FileFound
  BY DEF ConfigfileRead, Ended, Steady
<1>4. ASSUME UNCHANGED <<argv, files, configfile>>, stage' \in {"user", "post"}, stage' = "user" => configfile = None
      PROVE  FileFound' /\ InForce' = InForce
  <2>1. Met' = Met
    BY <1>1, <1>4 DEF Met, Given
  <2>2. (Wordless' <=> Wordless) /\ (IsInFront' <=> IsInFront)
    BY <1>4 DEF Wordless, IsInFront, Given
  <2>3. FileFound'
    BY <1>1, <1>4, <2>1, <2>2 DEF FileFound
  <2> QED
    BY <1>4, <2>3 DEF InForce
<1>5. ASSUME NEW file \in Known, NEW next \in {"user", "post"}, NEW list, ConfRead(file, FALSE, next),
             FilesRead = list, next = "user" => configfile = None,
             stage' = next /\ UNCHANGED <<argv, files, configfile>> => FilesRead' = With(list, file)
      PROVE  \/ Leave("quit")
             \/ FileIsRead(file, next) /\ FileFound'
             \/ NoFileIsRead(next) /\ FileFound'
  <2>1. CASE file = None
    <3>1. GoTo(next) /\ UNCHANGED <<input, configfile, conf, sections, definitions, modules, policy>>
      BY <1>5, <2>1 DEF ConfRead
    <3>2. stage' = next /\ UNCHANGED <<argv, files, configfile>>
      BY <3>1 DEF GoTo, input
    <3>3. FilesRead' = FilesRead
      BY <1>5, <2>1, <3>2 DEF With
    <3> QED
      BY <1>4, <1>5, <3>1, <3>2, <3>3 DEF NoFileIsRead
  <2>2. CASE file # None
    <3>1. Read(file, next)
      BY <1>5, <2>2 DEF ConfRead
    <3>2. SUFFICES ASSUME ~Leave("quit") PROVE FileIsRead(file, next) /\ FileFound'
      OBVIOUS
    <3>3. stage' = next /\ UNCHANGED <<argv, files, configfile>>
      BY <3>1, <3>2, ReadFacts DEF input
    <3>4. FilesRead' = Append(FilesRead, file)
      BY <1>5, <2>2, <3>3 DEF With
    <3> QED
      BY <1>4, <1>5, <2>2, <3>1, <3>3, <3>4 DEF FileIsRead
  <2> QED
    BY <2>1, <2>2
<1>6. CASE stage = "files" /\ configfile # None
  <2> DEFINE file == Get(files["given"], configfile, None)
  <2>1. ConfRead(file, TRUE, "post")
    BY <1>6 DEF ConfigfileRead
  <2>2. FilesRead = <<DefaultConfig>> /\ FilesRead \in Seq(Known)
    BY <1>6 DEF FilesRead, Known
  <2>3. SUFFICES ASSUME file # None, Read(file, "post"), ~Leave("quit")
                 PROVE  file \in Known /\ FileIsRead(file, "post") /\ FileFound'
    BY <1>1, <2>1, <2>2 DEF ConfRead
  <2>4. file = files["given"][configfile] /\ configfile \in DOMAIN files["given"]
    BY <2>3 DEF Get
  <2>5. file \in Known
    BY <2>4 DEF Known, Range
  <2>7. InForce = Append(FilesRead, file)
    BY <1>6, <2>2, <2>4 DEF InForce
  <2> HIDE DEF file
  <2>8. stage' = "post" /\ UNCHANGED <<argv, files, configfile>>
    BY <2>3, ReadFacts DEF input
  <2>9. FileFound' /\ FilesRead' = Append(FilesRead, file)
    BY <1>4, <2>7, <2>8 DEF FilesRead
  <2> QED
    BY <2>3, <2>5, <2>8, <2>9 DEF FileIsRead
<1>7. CASE stage = "files" /\ configfile = None
  <2>1. ConfRead(files["system"], FALSE, "user")
    BY <1>7 DEF ConfigfileRead
  <2>2. FilesRead = <<DefaultConfig>> /\ FilesRead \in Seq(Known) /\ files["system"] \in Known
    BY <1>7 DEF FilesRead, Known
  <2>3. ASSUME stage' = "user", UNCHANGED <<argv, files, configfile>>
        PROVE  FilesRead' = With(<<DefaultConfig>>, files["system"])
    BY <2>3 DEF FilesRead
  <2> QED
    BY <1>1, <1>5, <1>7, <2>1, <2>2, <2>3
<1>8. CASE stage = "user"
  <2>1. ConfRead(files["user"], FALSE, "post") /\ configfile = None
    BY <1>1, <1>8 DEF ConfigfileRead, FileFound
  <2>2. FilesRead = With(<<DefaultConfig>>, files["system"])
    BY <1>8 DEF FilesRead
  <2>3. FilesRead \in Seq(Known) /\ files["user"] \in Known /\ InForce = With(FilesRead, files["user"])
    <3>1. With(<<DefaultConfig>>, files["system"]) \in Seq(Known)
      BY DEF With, Known
    <3> QED
      BY <2>1, <2>2, <3>1 DEF Known, InForce
  <2>4. ASSUME stage' = "post", UNCHANGED <<argv, files, configfile>> PROVE FilesRead' = With(FilesRead, files["user"])
    BY <1>4, <2>3, <2>4 DEF FilesRead
  <2> QED
    BY <1>1, <1>5, <1>8, <2>1, <2>3, <2>4
<1> QED
  BY <1>1, <1>6, <1>7, <1>8

\* The options are as they were when there is no file.
LEMMA NoFileSteady ==
  ASSUME Steady, ~Ended, \A o : Said(o) = {}, stage # "ready", NEW next, NoFileIsRead(next), FileFound'
  PROVE  Steady'
<1>1. UNCHANGED <<argv, files, conf>> /\ stage' = next /\ optind' = 1 /\ stage' \in {"user", "post"}
  BY DEF NoFileIsRead, GoTo, input
<1>2. Placed'
  <2>1. 1 \in 1 .. Len(argv) + 1
    BY DEF Steady, Placed
  <2> QED
    BY <1>1, <2>1 DEF Steady, Placed
<1>3. ASSUME NEW o PROVE Said(o)' = {}
  <2> SUFFICES ASSUME NEW i \in DOMAIN argv, i < 1 PROVE FALSE
    BY <1>1 DEF Said
  <2> QED
    BY DEF Steady, Placed
<1>4. \A o : FileValue(FilesRead', o) = FileValue(FilesRead, o)'
  BY DEF FileValue, Strongest
<1>5. OptionsSet'
  <2>1. FilesRead' = FilesRead
    BY DEF NoFileIsRead
  <2>2. ASSUME NEW o \in DOMAIN Defaults PROVE conf'[o] = FileValue(FilesRead', o)
    BY <1>1, <2>1 DEF Steady, OptionsSet
  <2> QED
    BY <1>3, <1>4, <2>2 DEF OptionsSet
<1> QED
  BY <1>1, <1>2, <1>5 DEF Steady

\* The default configuration is read before any option is.
LEMMA ConfInitPreSteady == ASSUME Steady, ConfInitPre PROVE Steady'
<1>1. stage = "default" /\ ~Ended /\ FilesRead = <<>> /\ DefaultConfig \in Known /\ FilesRead \in Seq(Known)
  BY DEF ConfInitPre, Ended, FilesRead, Known
<1> QED
  BY <1>1, ConfInitPreCases, NotYetSaid, ReadSteady, LeaveSteady DEF FileIsRead

\* A file is read before any option is taken over.
LEMMA ConfigfileReadSteady == ASSUME Steady, ConfigfileRead PROVE Steady'
<1>1. stage \in {"files", "user"} /\ FilesRead \in Seq(Known) /\ ~Ended
  BY ConfigfileReadCases DEF Ended
<1>2. \A o : Said(o) = {}
  BY <1>1, NotYetSaid
<1>3. ASSUME NEW file \in Known, NEW next \in {"user", "post"}, FileIsRead(file, next), FileFound'
      PROVE  Steady'
  BY <1>1, <1>2, <1>3, ReadSteady DEF FileIsRead
<1>4. ASSUME NEW next \in {"user", "post"}, NoFileIsRead(next), FileFound' PROVE Steady'
  BY <1>1, <1>2, <1>4, NoFileSteady
<1> QED
  BY <1>3, <1>4, ConfigfileReadCases, LeaveSteady

\* An option that is said is the last one said.
LEMMA ParseArgsPostSteady == ASSUME Steady, ParseArgsPost PROVE Steady'
<1>1. stage = "post" /\ ~Ended /\ optind <= Len(argv)
  BY DEF ParseArgsPost, Ended
<1>2. CASE \E s \in {"quit", "exit", "aborted"} : Leave(s)
  BY <1>2, LeaveSteady
<1>3. CASE /\ NextArg /\ UNCHANGED configfile
           /\ \/ /\ Arg.opt \in DOMAIN OptionOf
                 /\ conf' = [conf EXCEPT ![OptionOf[Arg.opt]] = Stored(Arg)]
              \/ Arg.opt \notin DOMAIN OptionOf /\ conf' = conf
  <2>1. UNCHANGED <<argv, files, stage, configfile>> /\ optind' = optind + 1
    BY <1>3 DEF NextArg, input
  <2>2. /\ argv \in Seq(Range(argv)) /\ Len(argv) \in Nat /\ DOMAIN argv = 1 .. Len(argv)
        /\ optind \in 1 .. Len(argv)
        /\ conf = [o \in DOMAIN conf |-> conf[o]] /\ DOMAIN Defaults \subseteq DOMAIN conf
    BY <1>1 DEF Steady, Placed
  <2>3. conf' = [o \in DOMAIN conf' |-> conf'[o]] /\ DOMAIN conf' = DOMAIN conf
    BY <1>3, <2>2
  <2>4. Placed'
    BY <2>1, <2>2, <2>3 DEF Steady, Placed
  <2>5. FilesRead' = FilesRead /\ Met' = Met
    BY <1>1, <2>1 DEF FilesRead, Met, Given, InForce
  <2>6. FileFound'
    <3>1. (Wordless' <=> Wordless) /\ (IsInFront' <=> IsInFront)
      BY <2>1 DEF Wordless, IsInFront, Given
    <3> QED
      BY <1>1, <2>1, <2>5, <3>1 DEF Steady, FileFound
  <2>7. ASSUME NEW o \in DOMAIN Defaults
        PROVE  conf'[o] = IF Said(o)' # {} THEN Stored(argv[Max(Said(o)')]) ELSE FileValue(FilesRead, o)
    <3> DEFINE M == Said(o)
    <3>1. conf[o] = IF M # {} THEN Stored(argv[Max(M)]) ELSE FileValue(FilesRead, o)
      BY <1>1 DEF Steady, OptionsSet
    <3>2. M \subseteq 1 .. Len(argv) /\ \A y \in M : y < optind
      BY <1>1, <2>2 DEF Said
    <3>3. Said(o)' = IF Arg.opt \in DOMAIN OptionOf /\ OptionOf[Arg.opt] = o THEN M \cup {optind} ELSE M
      BY <1>1, <2>1, <2>2 DEF Said, Arg
    <3>4. Max(M \cup {optind}) = optind
      <4> HIDE DEF M
      <4> QED
        BY <2>2, <3>2, PlaceFacts
    <3>5. conf'[o] = IF Arg.opt \in DOMAIN OptionOf /\ OptionOf[Arg.opt] = o THEN Stored(Arg) ELSE conf[o]
      BY <1>3, <2>2
    <3> HIDE DEF M
    <3> QED
      BY <3>1, <3>3, <3>4, <3>5 DEF Arg
  <2>8. OptionsSet'
    <3>1. \A o : FileValue(FilesRead', o) = FileValue(FilesRead, o)'
      BY DEF FileValue, Strongest
    <3> QED
      BY <2>1, <2>5, <2>7, <3>1 DEF OptionsSet, Stored
  <2> QED
    BY <2>4, <2>6, <2>8 DEF Steady
<1>4. /\ DOMAIN OptionOf \cap (DOMAIN SubsysOf \cup {"L", "f", "word"}) = {}
  BY DEF OptionOf, SubsysOf
<1>5. CASE /\ Arg.opt \in DOMAIN OptionOf
           /\ conf' = [conf EXCEPT ![OptionOf[Arg.opt]] = Stored(Arg)]
           /\ NextArg /\ UNCHANGED <<configfile, modules>>
  BY <1>3, <1>5
<1>6. CASE Arg.opt \in DOMAIN SubsysOf \cup {"L", "f", "word"} /\ NextArg /\ UNCHANGED <<configfile, conf>>
  BY <1>3, <1>4, <1>6
<1> QED
  BY <1>2, <1>5, <1>6 DEF ParseArgsPost

\* The options stay as they are once the command line is read.
LEMMA ConfInitPostSteady == ASSUME Steady, ConfInitPost PROVE Steady'
<1>1. /\ stage = "post" /\ ~Ended /\ (optind <= Len(argv) => Arg.opt = "word") /\ stage' = "ready" /\ optind' = 1
      /\ UNCHANGED <<argv, files, configfile, conf>>
  BY DEF ConfInitPost, GoTo, input, Ended
<1>2. argv \in Seq(Range(argv)) /\ Len(argv) \in Nat /\ DOMAIN argv = 1 .. Len(argv) /\ optind \in 1 .. Len(argv) + 1
  BY DEF Steady, Placed
<1>3. Placed'
  BY <1>1, <1>2 DEF Steady, Placed
<1>4. Given' = Given /\ InForce' = InForce /\ (Wordless' <=> Wordless) /\ (IsInFront' <=> IsInFront)
  BY <1>1 DEF Given, InForce, Wordless, IsInFront
<1>5. FileFound'
  BY <1>1, <1>4 DEF Steady, FileFound, Met
<1>6. ASSUME Wordless PROVE OptionsSet'
  <2>0. optind > Len(argv)
    BY <1>1, <1>2, <1>6 DEF Wordless, Arg
  <2>1. FilesRead' = FilesRead
    BY <1>1, <1>4 DEF FilesRead
  <2>2. \A o : Said(o)' = Said(o)
    BY <1>1, <1>2, <2>0 DEF Said
  <2>3. \A o : FileValue(FilesRead', o) = FileValue(FilesRead, o)'
    BY DEF FileValue, Strongest
  <2> QED
    BY <1>1, <2>1, <2>2, <2>3 DEF Steady, OptionsSet, Stored
<1> QED
  BY <1>1, <1>3, <1>4, <1>5, <1>6 DEF Steady

\* Nothing changes while main() does nothing.
LEMMA StutterSteady == ASSUME Steady, UNCHANGED startup PROVE Steady'
<1>1. UNCHANGED <<argv, files, stage, optind, configfile, conf>>
  BY DEF startup, input
<1>2. Given' = Given /\ InForce' = InForce /\ (Wordless' <=> Wordless) /\ (IsInFront' <=> IsInFront)
  BY <1>1 DEF Given, InForce, Wordless, IsInFront
<1>3. FilesRead' = FilesRead /\ Met' = Met /\ \A o : Said(o)' = Said(o)
  BY <1>1, <1>2 DEF FilesRead, Met, Said
<1>4. \A o : FileValue(FilesRead', o) = FileValue(FilesRead, o)'
  BY DEF FileValue, Strongest
<1>5. Placed'
  BY <1>1 DEF Steady, Placed
<1>6. Ended' = Ended
  BY <1>1 DEF Ended
<1>7. FileFound => FileFound'
  BY <1>1, <1>2, <1>3 DEF FileFound
<1>8. OptionsSet => OptionsSet'
  BY <1>1, <1>3, <1>4 DEF OptionsSet, Stored
<1> QED
  BY <1>1, <1>2, <1>5, <1>6, <1>7, <1>8 DEF Steady

\* bmon has found the first -f, if it can come to it, and every option is that of its
\* last appearance so far, else of the strongest file read so far: what is so at every
\* step from main() to module_init().
THEOREM SteadyAlways == StartupSpec => []Steady
<1>1. ASSUME Steady, [StartupNext]_startup PROVE Steady'
  BY <1>1, ConfInitPreSteady, ParseArgsPreSteady, EndArgsPreSteady, ConfigfileReadSteady,
     ParseArgsPostSteady, ConfInitPostSteady, StutterSteady DEF StartupNext
<1> QED
  BY <1>1, SteadyInit, PTL DEF StartupSpec

\* An option has the value of its last appearance on the command line, else of the
\* strongest file that is read, else its default; and the file is the one given, if no
\* value of another option is in front of it or holds an f.
THEOREM PrecedenceHolds == StartupSpec => []Precedence
<1>1. ASSUME Steady, Ready, Wordless
      PROVE  /\ IsInFront => configfile = FileGiven
             /\ \A o \in DOMAIN Defaults :
                   LET args == {i \in DOMAIN argv : argv[i].opt \in DOMAIN OptionOf /\ OptionOf[argv[i].opt] = o}
                   IN  conf[o] = IF args # {} THEN Stored(argv[Max(args)]) ELSE FileValue(InForce, o)
  <2>1. FileFound /\ OptionsSet /\ stage = "ready"
    BY <1>1 DEF Steady, Ended, Ready
  <2>2. Met = Given
    BY <2>1 DEF Met, Given
  <2>3. IsInFront => configfile = FileGiven
    BY <1>1, <2>1, <2>2 DEF FileFound, FileGiven
  <2> QED
    BY <2>1, <2>3 DEF OptionsSet, Said, FilesRead
<1>2. Steady => Precedence
  BY <1>1 DEF Precedence
<1> QED
  BY <1>2, SteadyAlways, PTL

-----------------------------------------------------------------------------
(***************************************************************************)
(* Sections, taken one after the other.                                     *)
(***************************************************************************)
\* What is done with one section after the other, in one operator.
Taken(kind, ri, x, sec) ==
    CASE kind = "place" -> Place(x, sec)
      [] kind = "history" -> ReadHistory(ri, x, sec)
      [] kind = "attr" -> ReadAttr(x, sec)
      [] kind = "element" -> ReadElement(x, sec)
      [] kind = "unit" -> ReadUnit(x, sec)
      [] kind = "div" -> AddDiv(x, sec)
IsTaken(f, kind, ri, base, list, n) ==
    f = [i \in 0 .. n |-> IF i = 0 THEN base ELSE Taken(kind, ri, f[i - 1], list[i])]

\* What takes one section after the other is defined, whatever is done with them.
LEMMA TakenExists ==
  ASSUME NEW kind, NEW ri, NEW base, NEW list, NEW n \in Nat
  PROVE  \E f : IsTaken(f, kind, ri, base, list, n)
<1> DEFINE I == {m \in Nat : \E f : IsTaken(f, kind, ri, base, list, m)}
<1>1. 0 \in I
  <2> DEFINE f == [i \in 0 .. 0 |-> base]
  <2>1. f = [i \in 0 .. 0 |-> IF i = 0 THEN base ELSE Taken(kind, ri, f[i - 1], list[i])]
    OBVIOUS
  <2> QED
    BY <2>1 DEF IsTaken
<1>2. ASSUME NEW m \in Nat, m \in I PROVE m + 1 \in I
  <2>1. PICK f : f = [i \in 0 .. m |-> IF i = 0 THEN base ELSE Taken(kind, ri, f[i - 1], list[i])]
    BY <1>2 DEF IsTaken
  <2> DEFINE new == Taken(kind, ri, f[m], list[m + 1])
             h == [i \in 0 .. m + 1 |-> IF i = m + 1 THEN new ELSE f[i]]
  <2>2. ASSUME NEW i \in 0 .. m + 1
        PROVE  h[i] = IF i = 0 THEN base ELSE Taken(kind, ri, h[i - 1], list[i])
    <3>1. CASE i = m + 1
      <4>1. i # 0 /\ h[i] = new /\ h[i - 1] = f[m]
        BY <3>1
      <4> QED
        BY <3>1, <4>1
    <3>2. CASE i # m + 1
      <4>1. i \in 0 .. m /\ h[i] = f[i] /\ (i # 0 => i - 1 \in 0 .. m /\ h[i - 1] = f[i - 1])
        BY <3>2
      <4>2. f[i] = IF i = 0 THEN base ELSE Taken(kind, ri, f[i - 1], list[i])
        BY <2>1, <4>1
      <4> HIDE DEF h
      <4> QED
        BY <4>1, <4>2
    <3> QED
      BY <3>1, <3>2
  <2>3. h = [i \in 0 .. m + 1 |-> IF i = 0 THEN base ELSE Taken(kind, ri, h[i - 1], list[i])]
    BY <2>2
  <2> HIDE DEF h
  <2>4. IsTaken(h, kind, ri, base, list, m + 1)
    BY <2>3 DEF IsTaken
  <2> QED
    BY <2>4
<1>3. n \in I
  <2> HIDE DEF I
  <2> QED
    BY <1>1, <1>2, NatSetInduction
<1> QED
  BY <1>3

\* cfg_parse() takes one section of a file after the other.
LEMMA PlaceSteps ==
  ASSUME NEW base, NEW list, Len(list) \in Nat
  PROVE  \E f : /\ f[0] = base /\ PlaceAll(base, list) = f[Len(list)]
                /\ \A i \in 1 .. Len(list) : f[i] = Place(f[i - 1], list[i])
<1> DEFINE n == Len(list)
           G(f) == f = [i \in 0 .. n |-> IF i = 0 THEN base ELSE Place(f[i - 1], list[i])]
<1>1. \E f : G(f)
  <2>1. PICK f : IsTaken(f, "place", 0, base, list, n)
    BY TakenExists
  <2>2. G(f)
    BY <2>1 DEF IsTaken, Taken
  <2> QED
    BY <2>2
<1> DEFINE f == CHOOSE f : G(f)
<1>2. G(f)
  <2> HIDE DEF G
  <2> QED
    BY <1>1
<1>3. PlaceAll(base, list) = f[n]
  BY DEF After, PlaceAll
<1> HIDE DEF f
<1>4. f[0] = base /\ \A i \in 1 .. n : f[i] = Place(f[i - 1], list[i])
  BY <1>2
<1> QED
  BY <1>3, <1>4

\* configfile_read_history() takes one section after the other.
LEMMA HistorySteps ==
  ASSUME NEW ri, NEW base, NEW list, Len(list) \in Nat
  PROVE  \E f : /\ f[0] = base /\ ReadHistories(ri, base, list) = f[Len(list)]
                /\ \A i \in 1 .. Len(list) : f[i] = ReadHistory(ri, f[i - 1], list[i])
<1> DEFINE n == Len(list)
           G(f) == f = [i \in 0 .. n |-> IF i = 0 THEN base ELSE ReadHistory(ri, f[i - 1], list[i])]
<1>1. \E f : G(f)
  <2>1. PICK f : IsTaken(f, "history", ri, base, list, n)
    BY TakenExists
  <2>2. G(f)
    BY <2>1 DEF IsTaken, Taken
  <2> QED
    BY <2>2
<1> DEFINE f == CHOOSE f : G(f)
<1>2. G(f)
  <2> HIDE DEF G
  <2> QED
    BY <1>1
<1>3. ReadHistories(ri, base, list) = f[n]
  BY DEF After, ReadHistories
<1> HIDE DEF f
<1>4. f[0] = base /\ \A i \in 1 .. n : f[i] = ReadHistory(ri, f[i - 1], list[i])
  BY <1>2
<1> QED
  BY <1>3, <1>4

\* configfile_read_attrs() takes one section after the other.
LEMMA AttrSteps ==
  ASSUME NEW base, NEW list, Len(list) \in Nat
  PROVE  \E f : /\ f[0] = base /\ ReadAttrs(base, list) = f[Len(list)]
                /\ \A i \in 1 .. Len(list) : f[i] = ReadAttr(f[i - 1], list[i])
<1> DEFINE n == Len(list)
           G(f) == f = [i \in 0 .. n |-> IF i = 0 THEN base ELSE ReadAttr(f[i - 1], list[i])]
<1>1. \E f : G(f)
  <2>1. PICK f : IsTaken(f, "attr", 0, base, list, n)
    BY TakenExists
  <2>2. G(f)
    BY <2>1 DEF IsTaken, Taken
  <2> QED
    BY <2>2
<1> DEFINE f == CHOOSE f : G(f)
<1>2. G(f)
  <2> HIDE DEF G
  <2> QED
    BY <1>1
<1>3. ReadAttrs(base, list) = f[n]
  BY DEF After, ReadAttrs
<1> HIDE DEF f
<1>4. f[0] = base /\ \A i \in 1 .. n : f[i] = ReadAttr(f[i - 1], list[i])
  BY <1>2
<1> QED
  BY <1>3, <1>4

\* configfile_read_element_cfg() takes one section after the other.
LEMMA ElementSteps ==
  ASSUME NEW base, NEW list, Len(list) \in Nat
  PROVE  \E f : /\ f[0] = base /\ ReadElements(base, list) = f[Len(list)]
                /\ \A i \in 1 .. Len(list) : f[i] = ReadElement(f[i - 1], list[i])
<1> DEFINE n == Len(list)
           G(f) == f = [i \in 0 .. n |-> IF i = 0 THEN base ELSE ReadElement(f[i - 1], list[i])]
<1>1. \E f : G(f)
  <2>1. PICK f : IsTaken(f, "element", 0, base, list, n)
    BY TakenExists
  <2>2. G(f)
    BY <2>1 DEF IsTaken, Taken
  <2> QED
    BY <2>2
<1> DEFINE f == CHOOSE f : G(f)
<1>2. G(f)
  <2> HIDE DEF G
  <2> QED
    BY <1>1
<1>3. ReadElements(base, list) = f[n]
  BY DEF After, ReadElements
<1> HIDE DEF f
<1>4. f[0] = base /\ \A i \in 1 .. n : f[i] = ReadElement(f[i - 1], list[i])
  BY <1>2
<1> QED
  BY <1>3, <1>4

\* configfile_read_units() takes one section after the other.
LEMMA UnitSteps ==
  ASSUME NEW base, NEW list, Len(list) \in Nat
  PROVE  \E f : /\ f[0] = base /\ ReadUnits(base, list) = f[Len(list)]
                /\ \A i \in 1 .. Len(list) : f[i] = ReadUnit(f[i - 1], list[i])
<1> DEFINE n == Len(list)
           G(f) == f = [i \in 0 .. n |-> IF i = 0 THEN base ELSE ReadUnit(f[i - 1], list[i])]
<1>1. \E f : G(f)
  <2>1. PICK f : IsTaken(f, "unit", 0, base, list, n)
    BY TakenExists
  <2>2. G(f)
    BY <2>1 DEF IsTaken, Taken
  <2> QED
    BY <2>2
<1> DEFINE f == CHOOSE f : G(f)
<1>2. G(f)
  <2> HIDE DEF G
  <2> QED
    BY <1>1
<1>3. ReadUnits(base, list) = f[n]
  BY DEF After, ReadUnits
<1> HIDE DEF f
<1>4. f[0] = base /\ \A i \in 1 .. n : f[i] = ReadUnit(f[i - 1], list[i])
  BY <1>2
<1> QED
  BY <1>3, <1>4

\* And it takes one variant of a unit after the other.
LEMMA DivSteps ==
  ASSUME NEW base, NEW list, Len(list) \in Nat
  PROVE  \E f : /\ f[0] = base /\ AddDivs(base, list) = f[Len(list)]
                /\ \A i \in 1 .. Len(list) : f[i] = AddDiv(f[i - 1], list[i])
<1> DEFINE n == Len(list)
           G(f) == f = [i \in 0 .. n |-> IF i = 0 THEN base ELSE AddDiv(f[i - 1], list[i])]
<1>1. \E f : G(f)
  <2>1. PICK f : IsTaken(f, "div", 0, base, list, n)
    BY TakenExists
  <2>2. G(f)
    BY <2>1 DEF IsTaken, Taken
  <2> QED
    BY <2>2
<1> DEFINE f == CHOOSE f : G(f)
<1>2. G(f)
  <2> HIDE DEF G
  <2> QED
    BY <1>1
<1>3. AddDivs(base, list) = f[n]
  BY DEF After, AddDivs
<1> HIDE DEF f
<1>4. f[0] = base /\ \A i \in 1 .. n : f[i] = AddDiv(f[i - 1], list[i])
  BY <1>2
<1> QED
  BY <1>3, <1>4

\* A section replaces the one of its title.
LEMMA PlaceFact ==
  ASSUME NEW secs, NEW new, Titled(secs)
  PROVE  /\ Titled(Place(secs, new))
         /\ \A sec : sec \in Range(Place(secs, new)) <=>
                        sec = new \/ (sec \in Range(secs) /\ sec.title # new.title)
<1> DEFINE S == Range(secs) \cup {new}
           same == {i \in DOMAIN secs : secs[i].title = new.title}
           R == Place(secs, new)
<1>1. secs \in Seq(S) /\ DOMAIN secs = 1 .. Len(secs) /\ Len(secs) \in Nat
  <2>1. secs \in Seq(Range(secs))
    BY DEF Titled
  <2> QED
    BY <2>1
<1>2. CASE same = {}
  <2>1. R = Append(secs, new)
    BY <1>2 DEF Place
  <2>2. /\ R \in Seq(S) /\ DOMAIN R = 1 .. Len(secs) + 1 /\ R[Len(secs) + 1] = new
        /\ \A i \in 1 .. Len(secs) : R[i] = secs[i]
    BY <1>1, <2>1
  <2>3. \A i \in 1 .. Len(secs) : secs[i].title # new.title
    BY <1>1, <1>2
  <2> HIDE DEF R
  <2>4. \A sec : sec \in Range(R) <=> sec = new \/ sec \in Range(secs)
    BY <1>1, <2>2 DEF Range
  <2>5. \A i, j \in DOMAIN R : R[i].title = R[j].title => i = j
    BY <1>1, <2>2, <2>3 DEF Titled
  <2>6. R \in Seq(Range(R))
    BY <2>2, <2>4 DEF Range
  <2>7. \A sec \in Range(secs) : sec.title # new.title
    BY <1>1, <2>3 DEF Range
  <2> QED
    BY <2>4, <2>5, <2>6, <2>7 DEF Titled, R
<1>3. CASE same # {}
  <2>1. R = [i \in DOMAIN secs |-> IF i \in same THEN new ELSE secs[i]]
    BY <1>3 DEF Place
  <2>2. PICK k \in DOMAIN secs : secs[k].title = new.title
    BY <1>3
  <2>3. \A i \in DOMAIN secs : i # k => secs[i].title # new.title
    BY <2>2 DEF Titled
  <2>4. same = {k}
    BY <2>2, <2>3
  <2>5. DOMAIN R = DOMAIN secs /\ R[k] = new /\ \A i \in DOMAIN secs : i # k => R[i] = secs[i]
    BY <2>1, <2>2, <2>4
  <2>6. R \in Seq(Range(R))
    <3>1. R = [i \in 1 .. Len(secs) |-> R[i]]
      BY <1>1, <2>1
    <3> HIDE DEF R
    <3>2. \A i \in 1 .. Len(secs) : R[i] \in Range(R)
      BY <1>1, <2>5 DEF Range
    <3> QED
      BY <1>1, <3>1, <3>2
  <2> HIDE DEF R
  <2>7. \A i, j \in DOMAIN R : R[i].title = R[j].title => i = j
    BY <2>2, <2>3, <2>5 DEF Titled
  <2>8. ASSUME NEW sec PROVE sec \in Range(R) <=> sec = new \/ (sec \in Range(secs) /\ sec.title # new.title)
    <3>1. sec \in Range(R) => sec = new \/ (sec \in Range(secs) /\ sec.title # new.title)
      BY <2>2, <2>3, <2>5 DEF Range
    <3>2. new \in Range(R)
      BY <2>2, <2>5 DEF Range
    <3>3. sec \in Range(secs) /\ sec.title # new.title => sec \in Range(R)
      BY <2>2, <2>3, <2>5 DEF Range
    <3> QED
      BY <3>1, <3>2, <3>3
  <2> QED
    BY <2>6, <2>7, <2>8 DEF Titled, R
<1> QED
  BY <1>2, <1>3

\* No title is behind itself in a list.
LEMMA TitledFact ==
  ASSUME NEW list, Titled(list)
  PROVE  /\ Len(list) \in Nat /\ DOMAIN list = 1 .. Len(list)
         /\ \A i, j \in 1 .. Len(list) : i < j => list[i].title # list[j].title
<1>1. list \in Seq(Range(list))
  BY DEF Titled
<1>2. Len(list) \in Nat /\ DOMAIN list = 1 .. Len(list)
  BY <1>1
<1> QED
  BY <1>2 DEF Titled

\* The sections of a file replace those of their titles.
LEMMA PlacesFact ==
  ASSUME NEW secs, NEW list, Titled(secs), Titled(list)
  PROVE  /\ Titled(PlaceAll(secs, list))
         /\ \A sec : sec \in Range(PlaceAll(secs, list)) <=>
               \/ sec \in Range(list)
               \/ sec \in Range(secs) /\ \A new \in Range(list) : sec.title # new.title
<1> DEFINE n == Len(list)
<1>1. n \in Nat /\ DOMAIN list = 1 .. n /\ \A i, j \in 1 .. n : i < j => list[i].title # list[j].title
  BY TitledFact
<1>2. PICK f : /\ f[0] = secs /\ PlaceAll(secs, list) = f[n]
               /\ \A i \in 1 .. n : f[i] = Place(f[i - 1], list[i])
  BY TitledFact, PlaceSteps
<1> HIDE DEF n
<1> DEFINE P(i) == /\ Titled(f[i])
                   /\ \A sec : sec \in Range(f[i]) <=>
                         \/ \E j \in 1 .. i : sec = list[j]
                         \/ sec \in Range(secs) /\ \A j \in 1 .. i : sec.title # list[j].title
           I == {i \in Nat : i <= n => P(i)}
<1>3. 0 \in I
  BY <1>2
<1>4. ASSUME NEW i \in Nat, i \in I PROVE i + 1 \in I
  <2> SUFFICES ASSUME i + 1 <= n PROVE P(i + 1)
    OBVIOUS
  <2>1. P(i) /\ i + 1 \in 1 .. n /\ (i + 1) - 1 = i
    BY <1>1, <1>4
  <2>2. f[i + 1] = Place(f[i], list[i + 1])
    BY <1>2, <2>1
  <2>3. /\ Titled(f[i + 1])
        /\ \A sec : sec \in Range(f[i + 1]) <=>
              sec = list[i + 1] \/ (sec \in Range(f[i]) /\ sec.title # list[i + 1].title)
    BY <2>1, <2>2, PlaceFact
  <2>4. \A j \in 1 .. i : list[j].title # list[i + 1].title
    BY <1>1, <2>1
  <2>5. \A j : j \in 1 .. i + 1 <=> j \in 1 .. i \/ j = i + 1
    OBVIOUS
  <2>6. ASSUME NEW sec
        PROVE  sec \in Range(f[i + 1]) <=>
                  \/ \E j \in 1 .. i + 1 : sec = list[j]
                  \/ sec \in Range(secs) /\ \A j \in 1 .. i + 1 : sec.title # list[j].title
    BY <2>1, <2>3, <2>4, <2>5
  <2> QED
    BY <2>3, <2>6
<1>5. P(n)
  <2>1. n \in I
    <3> HIDE DEF I
    <3> QED
      BY <1>1, <1>3, <1>4, NatSetInduction
  <2> QED
    BY <1>1, <2>1
<1> QED
  <2>1. \A sec : sec \in Range(list) <=> \E j \in 1 .. n : sec = list[j]
    BY <1>1 DEF Range
  <2>2. \A sec : (\A new \in Range(list) : sec.title # new.title) <=> (\A j \in 1 .. n : sec.title # list[j].title)
    BY <2>1
  <2> QED
    BY <1>2, <1>5, <2>1, <2>2

\* A table is a function.
IsTable(t) == t = [n \in DOMAIN t |-> t[n]]

\* Every history that is read is that of its section.
LEMMA HistoriesFact ==
  ASSUME NEW ri, NEW base, NEW list, Titled(list)
  PROVE  \A sec \in Range(list) :
           LET R == ReadHistories(ri, base, list)
           IN  sec.title \in DOMAIN R /\ R[sec.title] = HistoryOf(ri, sec)
<1> DEFINE n == Len(list)
<1>1. n \in Nat /\ DOMAIN list = 1 .. n /\ \A i, j \in 1 .. n : i < j => list[i].title # list[j].title
  BY TitledFact
<1>2. PICK f : /\ f[0] = base /\ ReadHistories(ri, base, list) = f[n]
               /\ \A i \in 1 .. n : f[i] = ReadHistory(ri, f[i - 1], list[i])
  BY TitledFact, HistorySteps
<1> HIDE DEF n
<1> DEFINE P(i) == \A j \in 1 .. i : /\ list[j].title \in DOMAIN f[i]
                                     /\ f[i][list[j].title] = HistoryOf(ri, list[j])
           I == {i \in Nat : i <= n => P(i)}
<1>3. 0 \in I
  OBVIOUS
<1>4. ASSUME NEW i \in Nat, i \in I PROVE i + 1 \in I
  <2> SUFFICES ASSUME i + 1 <= n PROVE P(i + 1)
    OBVIOUS
  <2>1. P(i) /\ i + 1 \in 1 .. n /\ (i + 1) - 1 = i
    BY <1>1, <1>4
  <2> DEFINE name == list[i + 1].title
             entry == HistoryOf(ri, list[i + 1])
  <2>2. f[i + 1] = Enter(f[i], name, entry)
    BY <1>2, <2>1 DEF ReadHistory
  <2>3. \A j \in 1 .. i : list[j].title # name
    BY <1>1, <2>1
  <2>4. /\ DOMAIN f[i + 1] = DOMAIN f[i] \cup {name} /\ f[i + 1][name] = entry
        /\ \A x \in DOMAIN f[i] : x # name => f[i + 1][x] = f[i][x]
    <3> HIDE DEF name, entry
    <3> QED
      BY <2>2 DEF Enter
  <2>5. ASSUME NEW j \in 1 .. i + 1
        PROVE  list[j].title \in DOMAIN f[i + 1] /\ f[i + 1][list[j].title] = HistoryOf(ri, list[j])
    <3>1. CASE j \in 1 .. i
      <4> HIDE DEF name, entry
      <4> QED
        BY <2>1, <2>3, <2>4, <3>1
    <3>2. CASE j = i + 1
      BY <2>4, <3>2
    <3> QED
      BY <3>1, <3>2
  <2> QED
    BY <2>5
<1>5. P(n)
  <2>1. n \in I
    <3> HIDE DEF I
    <3> QED
      BY <1>1, <1>3, <1>4, NatSetInduction
  <2> QED
    BY <1>1, <2>1
<1> QED
  <2>1. \A sec : sec \in Range(list) <=> \E j \in 1 .. n : sec = list[j]
    BY <1>1 DEF Range
  <2> QED
    BY <1>2, <1>5, <2>1

\* The attributes that are there stay, and those of other titles come to them.
LEMMA AttrsFact ==
  ASSUME NEW base, NEW list, Titled(list)
  PROVE  LET R == ReadAttrs(base, list)
         IN  /\ \A name : name \in DOMAIN R <=> name \in DOMAIN base \/ \E sec \in Range(list) : sec.title = name
             /\ \A name \in DOMAIN base : R[name] = base[name]
             /\ \A sec \in Range(list) : sec.title \notin DOMAIN base =>
                  R[sec.title] = [unit |-> sec.unit, type |-> sec.type]
<1> DEFINE n == Len(list)
<1>1. n \in Nat /\ DOMAIN list = 1 .. n /\ \A i, j \in 1 .. n : i < j => list[i].title # list[j].title
  BY TitledFact
<1>2. PICK f : /\ f[0] = base /\ ReadAttrs(base, list) = f[n]
               /\ \A i \in 1 .. n : f[i] = ReadAttr(f[i - 1], list[i])
  BY TitledFact, AttrSteps
<1> HIDE DEF n
<1> DEFINE P(i) == /\ \A name : name \in DOMAIN f[i] <=>
                         name \in DOMAIN base \/ \E j \in 1 .. i : list[j].title = name
                   /\ \A name \in DOMAIN base : f[i][name] = base[name]
                   /\ \A j \in 1 .. i : list[j].title \notin DOMAIN base =>
                        f[i][list[j].title] = [unit |-> list[j].unit, type |-> list[j].type]
           I == {i \in Nat : i <= n => P(i)}
<1>3. 0 \in I
  BY <1>2
<1>4. ASSUME NEW i \in Nat, i \in I PROVE i + 1 \in I
  <2> SUFFICES ASSUME i + 1 <= n PROVE P(i + 1)
    OBVIOUS
  <2> DEFINE sec == list[i + 1]
             entry == [unit |-> sec.unit, type |-> sec.type]
  <2>1. P(i) /\ i + 1 \in 1 .. n /\ (i + 1) - 1 = i
    BY <1>1, <1>4
  <2>2. f[i + 1] = IF sec.title \in DOMAIN f[i] THEN f[i] ELSE Enter(f[i], sec.title, entry)
    BY <1>2, <2>1 DEF ReadAttr
  <2>3. \A j \in 1 .. i : list[j].title # sec.title
    BY <1>1, <2>1
  <2>4. \A j : j \in 1 .. i + 1 <=> j \in 1 .. i \/ j = i + 1
    OBVIOUS
  <2>5. sec.title \in DOMAIN f[i] => sec.title \in DOMAIN base
    BY <2>1, <2>3
  <2> DEFINE titled == sec.title
  <2>0. IF titled \in DOMAIN f[i] THEN f[i + 1] = f[i] ELSE f[i + 1] = Enter(f[i], titled, entry)
    BY <2>2
  <2>6. /\ DOMAIN f[i + 1] = DOMAIN f[i] \cup {sec.title}
        /\ \A name \in DOMAIN f[i] : f[i + 1][name] = f[i][name]
        /\ sec.title \notin DOMAIN base => f[i + 1][sec.title] = entry
    <3>1. titled \in DOMAIN f[i] => titled \in DOMAIN base
      BY <2>5
    <3> HIDE DEF entry, titled
    <3>2. /\ DOMAIN f[i + 1] = DOMAIN f[i] \cup {titled}
          /\ \A x \in DOMAIN f[i] : f[i + 1][x] = f[i][x]
          /\ titled \notin DOMAIN base => f[i + 1][titled] = entry
      BY <2>0, <3>1 DEF Enter
    <3> QED
      BY <3>2 DEF titled
  <2> HIDE DEF entry
  <2>7. ASSUME NEW x
        PROVE  x \in DOMAIN f[i + 1] <=> x \in DOMAIN base \/ \E j \in 1 .. i + 1 : list[j].title = x
    BY <2>1, <2>4, <2>6
  <2>8. \A name \in DOMAIN base : f[i + 1][name] = base[name]
    BY <2>1, <2>6
  <2>9. ASSUME NEW j \in 1 .. i + 1, list[j].title \notin DOMAIN base
        PROVE  f[i + 1][list[j].title] = [unit |-> list[j].unit, type |-> list[j].type]
    <3>1. CASE j \in 1 .. i
      BY <2>1, <2>6, <2>9, <3>1
    <3>2. CASE j = i + 1
      BY <2>6, <2>9, <3>2 DEF entry
    <3> QED
      BY <3>1, <3>2
  <2> QED
    BY <2>7, <2>8, <2>9
<1>5. P(n)
  <2>1. n \in I
    <3> HIDE DEF I
    <3> QED
      BY <1>1, <1>3, <1>4, NatSetInduction
  <2> QED
    BY <1>1, <2>1
<1> QED
  <2>1. \A sec : sec \in Range(list) <=> \E j \in 1 .. n : sec = list[j]
    BY <1>1 DEF Range
  <2> QED
    BY <1>2, <1>5, <2>1

\* What a section says of its element, and what all have said of it.
FlagOf(sec) == IF sec.show THEN "show" ELSE "hide"
FlagsIn(t, name) == IF name \in DOMAIN t THEN t[name].flags ELSE {}

\* The flags of an element are added to.
LEMMA ElementsFact ==
  ASSUME NEW base, NEW list, Titled(list)
  PROVE  \A name, x : x \in FlagsIn(ReadElements(base, list), name) <=>
            x \in FlagsIn(base, name) \/ \E sec \in Range(list) : sec.title = name /\ x = FlagOf(sec)
<1> DEFINE n == Len(list)
<1>1. n \in Nat /\ DOMAIN list = 1 .. n
  BY TitledFact
<1>2. PICK f : /\ f[0] = base /\ ReadElements(base, list) = f[n]
               /\ \A i \in 1 .. n : f[i] = ReadElement(f[i - 1], list[i])
  BY TitledFact, ElementSteps
<1> HIDE DEF n
<1> DEFINE P(i) == \A name, x : x \in FlagsIn(f[i], name) <=>
                      x \in FlagsIn(base, name) \/ \E j \in 1 .. i : list[j].title = name /\ x = FlagOf(list[j])
           I == {i \in Nat : i <= n => P(i)}
<1>3. 0 \in I
  BY <1>2
<1>4. ASSUME NEW i \in Nat, i \in I PROVE i + 1 \in I
  <2> SUFFICES ASSUME i + 1 <= n PROVE P(i + 1)
    OBVIOUS
  <2> DEFINE sec == list[i + 1]
  <2>1. P(i) /\ i + 1 \in 1 .. n /\ (i + 1) - 1 = i
    BY <1>1, <1>4
  <2>2. f[i + 1] = ReadElement(f[i], sec)
    BY <1>2, <2>1
  <2>3. ASSUME NEW name
        PROVE  FlagsIn(f[i + 1], name) = IF name = sec.title THEN FlagsIn(f[i], name) \cup {FlagOf(sec)}
                                         ELSE FlagsIn(f[i], name)
    <3> DEFINE old == Get(f[i], sec.title, [flags |-> {}, rxmax |-> <<"0">>, txmax |-> <<"0">>])
               rx == NonZero(old.rxmax, <<sec.max, sec.rxmax>>)
               tx == NonZero(old.txmax, <<sec.max, sec.txmax>>)
    <3>1. f[i + 1] = Enter(f[i], sec.title, [flags |-> NewFlags(old, sec), rxmax |-> rx, txmax |-> tx])
      BY <2>2 DEF ReadElement
    <3>2. NewFlags(old, sec) = FlagsIn(f[i], sec.title) \cup {FlagOf(sec)}
      BY DEF NewFlags, FlagsIn, FlagOf, Get
    <3> DEFINE entry == [flags |-> NewFlags(old, sec), rxmax |-> rx, txmax |-> tx]
               title == sec.title
    <3>3. entry.flags = FlagsIn(f[i], title) \cup {FlagOf(sec)} /\ f[i + 1] = Enter(f[i], title, entry)
      BY <3>1, <3>2
    <3> HIDE DEF entry
    <3>4. FlagsIn(f[i + 1], name) = IF name = title THEN entry.flags ELSE FlagsIn(f[i], name)
      <4> HIDE DEF title
      <4> QED
        BY <3>3 DEF Enter, FlagsIn
    <3> QED
      BY <3>3, <3>4
  <2>4. \A j : j \in 1 .. i + 1 <=> j \in 1 .. i \/ j = i + 1
    OBVIOUS
  <2>5. ASSUME NEW name, NEW x
        PROVE  x \in FlagsIn(f[i + 1], name) <=>
                  x \in FlagsIn(base, name) \/ \E j \in 1 .. i + 1 : list[j].title = name /\ x = FlagOf(list[j])
    <3>1. x \in FlagsIn(f[i], name) <=>
             x \in FlagsIn(base, name) \/ \E j \in 1 .. i : list[j].title = name /\ x = FlagOf(list[j])
      BY <2>1
    <3>2. x \in FlagsIn(f[i + 1], name) <=> x \in FlagsIn(f[i], name) \/ (name = sec.title /\ x = FlagOf(sec))
      BY <2>3
    <3> QED
      BY <2>4, <3>1, <3>2
  <2> QED
    BY <2>5
<1>5. P(n)
  <2>1. n \in I
    <3> HIDE DEF I
    <3> QED
      BY <1>1, <1>3, <1>4, NatSetInduction
  <2> QED
    BY <1>1, <2>1
<1> QED
  <2>1. \A sec : sec \in Range(list) <=> \E j \in 1 .. n : sec = list[j]
    BY <1>1 DEF Range
  <2> QED
    BY <1>2, <1>5, <2>1

\* The fractions that are given for a variant replace those it has.
LEMMA DivsFact ==
  ASSUME NEW unit, NEW list, Titled(list)
  PROVE  /\ DOMAIN AddDivs(unit, list) = DOMAIN unit
         /\ \A x \in Range(list) : x.title \in DOMAIN unit /\ x.div # <<>> => AddDivs(unit, list)[x.title] = x.div
         /\ \A v \in DOMAIN unit : (\A x \in Range(list) : x.title = v => x.div = <<>>) =>
               AddDivs(unit, list)[v] = unit[v]
<1> DEFINE n == Len(list)
<1>1. n \in Nat /\ DOMAIN list = 1 .. n /\ \A i, j \in 1 .. n : i < j => list[i].title # list[j].title
  BY TitledFact
<1>2. PICK f : /\ f[0] = unit /\ AddDivs(unit, list) = f[n]
               /\ \A i \in 1 .. n : f[i] = AddDiv(f[i - 1], list[i])
  BY TitledFact, DivSteps
<1> HIDE DEF n
<1> DEFINE P(i) == /\ DOMAIN f[i] = DOMAIN unit
                   /\ \A j \in 1 .. i : list[j].title \in DOMAIN unit /\ list[j].div # <<>> =>
                         f[i][list[j].title] = list[j].div
                   /\ \A v \in DOMAIN unit : (\A j \in 1 .. i : list[j].title = v => list[j].div = <<>>) =>
                         f[i][v] = unit[v]
           I == {i \in Nat : i <= n => P(i)}
<1>3. 0 \in I
  BY <1>2
<1>4. ASSUME NEW i \in Nat, i \in I PROVE i + 1 \in I
  <2> SUFFICES ASSUME i + 1 <= n PROVE P(i + 1)
    OBVIOUS
  <2> DEFINE new == list[i + 1]
  <2>1. P(i) /\ i + 1 \in 1 .. n /\ (i + 1) - 1 = i
    BY <1>1, <1>4
  <2>2. f[i + 1] = IF new.div = <<>> THEN f[i] ELSE [f[i] EXCEPT ![new.title] = new.div]
    <3>1. i + 1 \in 1 .. n /\ (i + 1) - 1 = i
      BY <2>1
    <3>2. f[i + 1] = AddDiv(f[(i + 1) - 1], list[i + 1])
      BY ONLY <1>2, <3>1
    <3> QED
      BY ONLY <3>1, <3>2 DEF AddDiv
  <2>3. \A j \in 1 .. i : list[j].title # new.title
    BY <1>1, <2>1
  <2>4. \A j : j \in 1 .. i + 1 <=> j \in 1 .. i \/ j = i + 1
    OBVIOUS
  <2>5. DOMAIN f[i + 1] = DOMAIN unit
    BY <2>1, <2>2
  <2>6. ASSUME NEW j \in 1 .. i + 1, list[j].title \in DOMAIN unit, list[j].div # <<>>
        PROVE  f[i + 1][list[j].title] = list[j].div
    <3>1. CASE j \in 1 .. i
      BY <2>1, <2>2, <2>3, <2>6, <3>1
    <3>2. CASE j = i + 1
      BY <2>1, <2>2, <2>6, <3>2
    <3> QED
      BY <3>1, <3>2
  <2>7. ASSUME NEW v \in DOMAIN unit, \A j \in 1 .. i + 1 : list[j].title = v => list[j].div = <<>>
        PROVE  f[i + 1][v] = unit[v]
    BY <2>1, <2>2, <2>4, <2>7
  <2> QED
    BY <2>5, <2>6, <2>7
<1>5. P(n)
  <2>1. n \in I
    <3> HIDE DEF I
    <3> QED
      BY <1>1, <1>3, <1>4, NatSetInduction
  <2> QED
    BY <1>1, <2>1
<1> QED
  <2>1. \A x : x \in Range(list) <=> \E j \in 1 .. n : x = list[j]
    BY <1>1 DEF Range
  <2> QED
    BY <1>2, <1>5, <2>1

\* A unit has what was added to what it had, or what it had.
LEMMA UnitsFact ==
  ASSUME NEW base, NEW list, Titled(list)
  PROVE  LET R == ReadUnits(base, list)
         IN  /\ \A name : name \in DOMAIN R <=>
                   name \in DOMAIN base \/ \E sec \in Range(list) : sec.title = name /\ sec.variants # <<>>
             /\ \A sec \in Range(list) : sec.variants # <<>> =>
                   R[sec.title] = AddDivs(Get(base, sec.title, UnitAdd), sec.variants)
             /\ \A name \in DOMAIN base :
                   (\A sec \in Range(list) : sec.title = name => sec.variants = <<>>) => R[name] = base[name]
<1> DEFINE n == Len(list)
           New(sec) == AddDivs(Get(base, sec.title, UnitAdd), sec.variants)
<1>1. n \in Nat /\ DOMAIN list = 1 .. n /\ \A i, j \in 1 .. n : i < j => list[i].title # list[j].title
  BY TitledFact
<1>2. PICK f : /\ f[0] = base /\ ReadUnits(base, list) = f[n]
               /\ \A i \in 1 .. n : f[i] = ReadUnit(f[i - 1], list[i])
  BY TitledFact, UnitSteps
<1> HIDE DEF n
<1> DEFINE P(i) == /\ \A name : name \in DOMAIN f[i] <=>
                         name \in DOMAIN base \/ \E j \in 1 .. i : list[j].title = name /\ list[j].variants # <<>>
                   /\ \A j \in 1 .. i : list[j].variants # <<>> => f[i][list[j].title] = New(list[j])
                   /\ \A name \in DOMAIN base :
                         (\A j \in 1 .. i : list[j].title = name => list[j].variants = <<>>) => f[i][name] = base[name]
           I == {i \in Nat : i <= n => P(i)}
<1>3. 0 \in I
  BY <1>2
<1>4. ASSUME NEW i \in Nat, i \in I PROVE i + 1 \in I
  <2> SUFFICES ASSUME i + 1 <= n PROVE P(i + 1)
    OBVIOUS
  <2> DEFINE new == list[i + 1]
             title == new.title
             divs == New(new)
             some == new.variants # <<>>
  <2>1. P(i) /\ i + 1 \in 1 .. n /\ (i + 1) - 1 = i
    BY <1>1, <1>4
  <2>3. \A j \in 1 .. i : list[j].title # title
    BY <1>1, <2>1
  <2>2. f[i + 1] = IF some THEN Enter(f[i], title, divs) ELSE f[i]
    <3>1. f[i + 1] = ReadUnit(f[i], new)
      BY <1>2, <2>1
    <3>2. Get(f[i], title, UnitAdd) = Get(base, title, UnitAdd)
      BY <2>1, <2>3 DEF Get
    <3> QED
      BY <3>1, <3>2 DEF ReadUnit
  <2>4. \A j : j \in 1 .. i + 1 <=> j \in 1 .. i \/ j = i + 1
    OBVIOUS
  <2>5. /\ some => /\ f[i + 1][title] = divs /\ DOMAIN f[i + 1] = DOMAIN f[i] \cup {title}
                   /\ \A x \in DOMAIN f[i] : x # title => f[i + 1][x] = f[i][x]
        /\ ~some => f[i + 1] = f[i]
    <3> HIDE DEF title, divs, some
    <3> QED
      BY <2>2 DEF Enter
  <2> HIDE DEF New
  <2>6. ASSUME NEW name
        PROVE  name \in DOMAIN f[i + 1] <=>
                  name \in DOMAIN base \/ \E j \in 1 .. i + 1 : list[j].title = name /\ list[j].variants # <<>>
    BY <2>1, <2>4, <2>5
  <2>7. ASSUME NEW j \in 1 .. i + 1, list[j].variants # <<>> PROVE f[i + 1][list[j].title] = New(list[j])
    <3>1. CASE j \in 1 .. i
      BY <2>1, <2>3, <2>5, <2>7, <3>1
    <3>2. CASE j = i + 1
      BY <2>5, <2>7, <3>2
    <3> QED
      BY <3>1, <3>2
  <2>8. ASSUME NEW name \in DOMAIN base,
               \A j \in 1 .. i + 1 : list[j].title = name => list[j].variants = <<>>
        PROVE  f[i + 1][name] = base[name]
    BY <2>1, <2>4, <2>5, <2>8
  <2> QED
    BY <2>6, <2>7, <2>8
<1>5. P(n)
  <2>1. n \in I
    <3> HIDE DEF I
    <3> QED
      BY <1>1, <1>3, <1>4, NatSetInduction
  <2> QED
    BY <1>1, <2>1
<1> QED
  <2>1. \A sec : sec \in Range(list) <=> \E j \in 1 .. n : sec = list[j]
    BY <1>1 DEF Range
  <2> HIDE DEF New
  <2>2. /\ \A name : name \in DOMAIN f[n] <=>
              name \in DOMAIN base \/ \E sec \in Range(list) : sec.title = name /\ sec.variants # <<>>
        /\ \A sec \in Range(list) : sec.variants # <<>> => f[n][sec.title] = New(sec)
        /\ \A name \in DOMAIN base :
              (\A sec \in Range(list) : sec.title = name => sec.variants = <<>>) => f[n][name] = base[name]
    BY <1>5, <2>1
  <2> QED
    BY <1>2, <2>2 DEF New

-----------------------------------------------------------------------------
(***************************************************************************)
(* What the files read so far say of histories, attributes, units and       *)
(* elements.                                                                *)
(***************************************************************************)
\* sec stands in a list of files: none behind its own has one of that title.
StandsIn(list, k, sec) ==
    \E i \in DOMAIN list : /\ sec \in Range(list[i][k])
                           /\ \A j \in DOMAIN list : j > i => sec.title \notin Titles(list[j], k)
FirstIn(list, k, sec) ==
    \E i \in DOMAIN list : /\ sec \in Range(list[i][k])
                           /\ \A j \in DOMAIN list : j < i => sec.title \notin Titles(list[j], k)

\* f gives a variant of a unit these fractions; they are the last that are given.
Gives(f, title, v, div) ==
    \E sec \in Range(f["unit"]) : sec.title = title /\
        \E x \in Range(sec.variants) : x.title = v /\ x.div # <<>> /\ x.div = div
GivenIn(list, title, v, div) ==
    \E i \in DOMAIN list : /\ Gives(list[i], title, v, div)
                           /\ \A j \in DOMAIN list : j > i => \A d : ~Gives(list[j], title, v, d)

\* What is started with, and only files that can be parsed are read.
Started == \E s \in Starts : argv = s.argv /\ files = s.files /\ meant = s.meant
FilesThere == FilesRead \in Seq(Known) /\ \A i \in DOMAIN FilesRead : IsFile(FilesRead[i])

\* Of each title the section of the last file is kept.
SectionsStand ==
    \A k \in Kinds : Titled(sections[k]) /\ \A sec : sec \in Range(sections[k]) <=> StandsIn(FilesRead, k, sec)

\* The definitions are those of the last file, those of the first one, the last
\* fractions that are given, and all the flags.
HistoriesStand ==
    \A sec : StandsIn(FilesRead, "history", sec) =>
        histories[sec.title] = HistoryOf(FileValue(FilesRead, "read_interval"), sec)
AttrsStand ==
    /\ \A name : name \in DOMAIN attrs <=> \E i \in DOMAIN FilesRead : name \in Titles(FilesRead[i], "attr")
    /\ \A sec : FirstIn(FilesRead, "attr", sec) => attrs[sec.title] = [unit |-> sec.unit, type |-> sec.type]
UnitOf(title) == Get(units, title, UnitAdd)
UnitsStand ==
    \A title : /\ DOMAIN UnitOf(title) = Variants
               /\ \A v \in Variants :
                     /\ \A div : GivenIn(FilesRead, title, v, div) => UnitOf(title)[v] = div
                     /\ (\A i \in DOMAIN FilesRead : \A div : ~Gives(FilesRead[i], title, v, div)) => UnitOf(title)[v] = <<>>
ElementsStand ==
    \A name, x : x \in FlagsIn(elements, name) <=>
        \E i \in DOMAIN FilesRead : \E sec \in Range(FilesRead[i]["element"]) : sec.title = name /\ x = FlagOf(sec)

AllStand ==
    FilesThere /\ SectionsStand /\ HistoriesStand /\ AttrsStand /\ UnitsStand /\ ElementsStand
Defined == Started /\ (~Ended => AllStand)

-----------------------------------------------------------------------------
\* What one more file changes.
LEMMA StandsStep ==
  ASSUME NEW S, NEW list \in Seq(S), NEW f \in S, NEW k, NEW sec
  PROVE  /\ StandsIn(Append(list, f), k, sec) <=>
               sec \in Range(f[k]) \/ (StandsIn(list, k, sec) /\ sec.title \notin Titles(f, k))
         /\ FirstIn(Append(list, f), k, sec) <=>
               \/ FirstIn(list, k, sec)
               \/ sec \in Range(f[k]) /\ \A j \in DOMAIN list : sec.title \notin Titles(list[j], k)
<1> DEFINE n == Len(list)
           new == Append(list, f)
           Has(l, i) == sec \in Range(l[i][k])
           Hides(l, j) == sec.title \in Titles(l[j], k)
<1>1. /\ n \in Nat /\ DOMAIN list = 1 .. n /\ DOMAIN new = 1 .. n + 1
      /\ Has(new, n + 1) <=> sec \in Range(f[k])
      /\ Hides(new, n + 1) <=> sec.title \in Titles(f, k)
      /\ \A i \in 1 .. n : (Has(new, i) <=> Has(list, i)) /\ (Hides(new, i) <=> Hides(list, i))
  OBVIOUS
<1>2. \A i : i \in 1 .. n + 1 <=> i \in 1 .. n \/ i = n + 1
  BY <1>1
<1>3. \A i \in 1 .. n : i < n + 1 /\ ~(i > n + 1)
  BY <1>1
<1>4. ~(n + 1 > n + 1) /\ ~(n + 1 < n + 1)
  BY <1>1
<1> HIDE DEF n, new, Has, Hides
<1>5. (\E i \in 1 .. n + 1 : Has(new, i) /\ \A j \in 1 .. n + 1 : j > i => ~Hides(new, j)) <=>
         Has(new, n + 1) \/ ((\E i \in 1 .. n : Has(list, i) /\ \A j \in 1 .. n : j > i => ~Hides(list, j)) /\ ~Hides(new, n + 1))
  <2>1. ASSUME Has(new, n + 1) PROVE \E i \in 1 .. n + 1 : Has(new, i) /\ \A j \in 1 .. n + 1 : j > i => ~Hides(new, j)
    BY <1>1, <1>2, <1>3, <1>4, <2>1
  <2>2. ASSUME NEW i \in 1 .. n, Has(list, i), \A j \in 1 .. n : j > i => ~Hides(list, j), ~Hides(new, n + 1)
        PROVE  \E m \in 1 .. n + 1 : Has(new, m) /\ \A j \in 1 .. n + 1 : j > m => ~Hides(new, j)
    BY <1>1, <1>2, <2>2
  <2>3. ASSUME NEW i \in 1 .. n + 1, Has(new, i), \A j \in 1 .. n + 1 : j > i => ~Hides(new, j), i # n + 1
        PROVE  i \in 1 .. n /\ Has(list, i) /\ (\A j \in 1 .. n : j > i => ~Hides(list, j)) /\ ~Hides(new, n + 1)
    BY <1>1, <1>2, <1>3, <2>3
  <2> QED
    BY <2>1, <2>2, <2>3
<1>6. (\E i \in 1 .. n + 1 : Has(new, i) /\ \A j \in 1 .. n + 1 : j < i => ~Hides(new, j)) <=>
         \/ \E i \in 1 .. n : Has(list, i) /\ \A j \in 1 .. n : j < i => ~Hides(list, j)
         \/ Has(new, n + 1) /\ \A j \in 1 .. n : ~Hides(list, j)
  <2>1. ASSUME NEW i \in 1 .. n, Has(list, i), \A j \in 1 .. n : j < i => ~Hides(list, j)
        PROVE  i \in 1 .. n + 1 /\ Has(new, i) /\ \A j \in 1 .. n + 1 : j < i => ~Hides(new, j)
    BY <1>1, <1>2, <1>3, <2>1
  <2>2. ASSUME Has(new, n + 1), \A j \in 1 .. n : ~Hides(list, j)
        PROVE  \E i \in 1 .. n + 1 : Has(new, i) /\ \A j \in 1 .. n + 1 : j < i => ~Hides(new, j)
    BY <1>1, <1>2, <1>4, <2>2
  <2>3. ASSUME NEW i \in 1 .. n + 1, Has(new, i), \A j \in 1 .. n + 1 : j < i => ~Hides(new, j)
        PROVE  \/ i \in 1 .. n /\ Has(list, i) /\ \A j \in 1 .. n : j < i => ~Hides(list, j)
               \/ Has(new, n + 1) /\ \A j \in 1 .. n : ~Hides(list, j)
    BY <1>1, <1>2, <1>3, <2>3
  <2> QED
    BY <2>1, <2>2, <2>3
<1> QED
  BY <1>1, <1>5, <1>6 DEF StandsIn, FirstIn, Has, Hides, new

\* The fractions given by one more file replace those given before.
LEMMA GivenStep ==
  ASSUME NEW S, NEW list \in Seq(S), NEW f \in S, NEW title, NEW v
  PROVE  /\ \A div : GivenIn(Append(list, f), title, v, div) <=>
               \/ Gives(f, title, v, div)
               \/ GivenIn(list, title, v, div) /\ \A d : ~Gives(f, title, v, d)
         /\ (\A i \in DOMAIN Append(list, f) : \A div : ~Gives(Append(list, f)[i], title, v, div)) <=>
               /\ \A i \in DOMAIN list : \A div : ~Gives(list[i], title, v, div)
               /\ \A div : ~Gives(f, title, v, div)
<1> DEFINE n == Len(list)
           new == Append(list, f)
<1>1. /\ n \in Nat /\ DOMAIN list = 1 .. n /\ DOMAIN new = 1 .. n + 1
      /\ new[n + 1] = f /\ \A i \in 1 .. n : new[i] = list[i]
  OBVIOUS
<1>2. \A i : i \in 1 .. n + 1 <=> i \in 1 .. n \/ i = n + 1
  BY <1>1
<1>3. (\A i \in 1 .. n : n + 1 > i /\ ~(i > n + 1)) /\ ~(n + 1 > n + 1)
  BY <1>1
<1> HIDE DEF n, new
<1>4. ASSUME NEW div
      PROVE  GivenIn(new, title, v, div) <=>
               Gives(f, title, v, div) \/ (GivenIn(list, title, v, div) /\ \A d : ~Gives(f, title, v, d))
  <2>1. ASSUME Gives(f, title, v, div) PROVE GivenIn(new, title, v, div)
    BY <1>1, <1>2, <1>3, <2>1 DEF GivenIn
  <2>2. ASSUME NEW i \in 1 .. n, Gives(list[i], title, v, div), \A d : ~Gives(f, title, v, d),
               \A j \in 1 .. n : j > i => \A d : ~Gives(list[j], title, v, d)
        PROVE  GivenIn(new, title, v, div)
    <3>1. \A j \in 1 .. n + 1 : j > i => \A d : ~Gives(new[j], title, v, d)
      BY <1>1, <1>2, <2>2
    <3> QED
      BY <1>1, <1>2, <2>2, <3>1 DEF GivenIn
  <2>3. ASSUME NEW i \in 1 .. n + 1, Gives(new[i], title, v, div), i # n + 1,
               \A j \in 1 .. n + 1 : j > i => \A d : ~Gives(new[j], title, v, d)
        PROVE  GivenIn(list, title, v, div) /\ \A d : ~Gives(f, title, v, d)
    <3>1. i \in 1 .. n /\ Gives(list[i], title, v, div)
      BY <1>1, <1>2, <2>3
    <3>2. \A j \in 1 .. n : j > i => \A d : ~Gives(list[j], title, v, d)
      BY <1>1, <1>2, <2>3
    <3>3. \A d : ~Gives(f, title, v, d)
      BY <1>1, <1>2, <1>3, <2>3, <3>1
    <3> QED
      BY <1>1, <3>1, <3>2, <3>3 DEF GivenIn
  <2>4. ASSUME GivenIn(new, title, v, div)
        PROVE  Gives(f, title, v, div) \/ (GivenIn(list, title, v, div) /\ \A d : ~Gives(f, title, v, d))
    BY <1>1, <2>3, <2>4 DEF GivenIn
  <2>5. ASSUME GivenIn(list, title, v, div), \A d : ~Gives(f, title, v, d) PROVE GivenIn(new, title, v, div)
    BY <1>1, <2>2, <2>5 DEF GivenIn
  <2> QED
    BY <2>1, <2>4, <2>5
<1>5. (\A i \in DOMAIN new : \A div : ~Gives(new[i], title, v, div)) <=>
         (\A i \in DOMAIN list : \A div : ~Gives(list[i], title, v, div)) /\ \A div : ~Gives(f, title, v, div)
  BY <1>1, <1>2
<1> QED
  BY <1>4, <1>5 DEF new

-----------------------------------------------------------------------------
\* What is started with is legal, and so are the files.
LEMMA KnownFiles ==
  ASSUME Started, NEW f \in Known, f # None \/ f = DefaultConfig
  PROVE  IsFile(f)
<1>1. PICK s \in Starts : files = s.files
  BY DEF Started
<1>2. f = DefaultConfig \/ f \in FilesOf(s) \ {None}
  BY <1>1 DEF Known, FilesOf
<1> QED
  BY <1>2, FilesAssumption

\* What bmon is started with stays.
LEMMA InputStays == ASSUME [StartupNext]_startup PROVE UNCHANGED input
BY DEF StartupNext, startup, ConfInitPre, ParseArgsPre, EndArgsPre, ConfigfileRead, ParseArgsPost, ConfInitPost,
       ConfRead, Read, Leave, NextArg

\* bmon goes on as it was started.
LEMMA StartedStays == ASSUME Started, UNCHANGED input PROVE Started'
BY DEF Started, input

\* No file is read and nothing defined in the beginning.
LEMMA DefinedInit == StartupInit => Defined
<1> SUFFICES ASSUME StartupInit PROVE Defined
  OBVIOUS
<1>1. Started
  BY DEF StartupInit, Started
<1>2. FilesRead = <<>> /\ sections = [k \in Kinds |-> <<>>] /\ attrs = <<>> /\ units = <<>> /\ elements = <<>>
  BY DEF StartupInit, FilesRead
<1>3. FilesThere
  BY <1>2 DEF FilesThere
<1>4. SectionsStand
  <2>1. Titled(<<>>) /\ \A sec : sec \notin Range(<<>>)
    BY DEF Titled, Range
  <2>2. \A k, sec : ~StandsIn(<<>>, k, sec)
    BY DEF StandsIn
  <2> QED
    BY <1>2, <2>1, <2>2 DEF SectionsStand
<1>5. HistoriesStand
  BY <1>2 DEF HistoriesStand, StandsIn
<1>6. AttrsStand
  BY <1>2 DEF AttrsStand, FirstIn
<1>7. UnitsStand
  BY <1>2 DEF UnitsStand, UnitOf, Get, UnitAdd, GivenIn
<1>8. ElementsStand
  BY <1>2 DEF ElementsStand, FlagsIn
<1> QED
  BY <1>1, <1>3, <1>4, <1>5, <1>6, <1>7, <1>8 DEF Defined, AllStand

\* What a file that is read does to sections and definitions.
LEMMA ReadDefines ==
  ASSUME NEW file, NEW next, Read(file, next), ~Leave("quit")
  PROVE  /\ UNCHANGED input
         /\ sections' = Parse(file)
         /\ ReadSections(sections', conf'["read_interval"])
         /\ ~IsWrong(sections')
BY DEF Read

\* The sections that stand when one more file is parsed.
LEMMA SectionsStep ==
  ASSUME SectionsStand, NEW file, IsFile(file), NEW S, FilesRead \in Seq(S), file \in S,
         sections' = Parse(file), FilesRead' = Append(FilesRead, file)
  PROVE  SectionsStand'
<1> SUFFICES ASSUME NEW k \in Kinds
             PROVE  Titled(sections'[k]) /\ \A sec : sec \in Range(sections'[k]) <=> StandsIn(FilesRead', k, sec)
  BY DEF SectionsStand
<1>1. sections'[k] = PlaceAll(sections[k], file[k])
  BY DEF Parse
<1>2. Titled(sections[k]) /\ Titled(file[k])
  BY DEF SectionsStand, IsFile
<1>3. Titled(sections'[k])
  BY <1>1, <1>2, PlacesFact
<1>4. ASSUME NEW sec PROVE sec \in Range(sections'[k]) <=> StandsIn(FilesRead', k, sec)
  <2>1. sec \in Range(sections'[k]) <=>
           sec \in Range(file[k]) \/ (sec \in Range(sections[k]) /\ \A new \in Range(file[k]) : sec.title # new.title)
    BY <1>1, <1>2, PlacesFact
  <2>2. sec.title \notin Titles(file, k) <=> \A new \in Range(file[k]) : sec.title # new.title
    BY DEF Titles, Range
  <2>3. sec \in Range(sections[k]) <=> StandsIn(FilesRead, k, sec)
    BY DEF SectionsStand
  <2> QED
    BY <2>1, <2>2, <2>3, StandsStep
<1> QED
  BY <1>3, <1>4

\* Of several definitions of a history the one of the file read last stands.
LEMMA HistoriesStep ==
  ASSUME SectionsStand', ReadSections(sections', conf'["read_interval"]),
         conf'["read_interval"] = FileValue(FilesRead', "read_interval")
  PROVE  HistoriesStand'
<1> SUFFICES ASSUME NEW sec, StandsIn(FilesRead', "history", sec)
             PROVE  histories'[sec.title] = HistoryOf(conf'["read_interval"], sec)
  <2>1. FileValue(FilesRead, "read_interval")' = FileValue(FilesRead', "read_interval")
    BY DEF FileValue, Strongest
  <2> QED
    BY <2>1 DEF HistoriesStand
<1>1. Titled(sections'["history"]) /\ sec \in Range(sections'["history"])
  BY DEF SectionsStand, Kinds
<1>2. histories' = ReadHistories(conf'["read_interval"], histories, sections'["history"])
  BY DEF ReadSections
<1> QED
  BY <1>1, <1>2, HistoriesFact

\* Of several definitions of an attribute the one of the file read first stands.
LEMMA AttrsStep ==
  ASSUME AttrsStand, SectionsStand, SectionsStand', ReadSections(sections', conf'["read_interval"]),
         NEW file, NEW S, FilesRead \in Seq(S), file \in S, FilesRead' = Append(FilesRead, file)
  PROVE  AttrsStand'
<1> DEFINE secs == sections'["attr"]
<1>1. Titled(secs) /\ \A sec : sec \in Range(secs) <=> StandsIn(FilesRead', "attr", sec)
  BY DEF SectionsStand, Kinds
<1>2. attrs' = ReadAttrs(attrs, secs)
  BY DEF ReadSections
<1> HIDE DEF secs
<1>3. /\ \A name : name \in DOMAIN attrs' <=> name \in DOMAIN attrs \/ \E sec \in Range(secs) : sec.title = name
      /\ \A name \in DOMAIN attrs : attrs'[name] = attrs[name]
      /\ \A sec \in Range(secs) : sec.title \notin DOMAIN attrs =>
            attrs'[sec.title] = [unit |-> sec.unit, type |-> sec.type]
  BY <1>1, <1>2, AttrsFact
<1>4. /\ DOMAIN FilesRead' = DOMAIN FilesRead \cup {Len(FilesRead) + 1}
      /\ FilesRead'[Len(FilesRead) + 1] = file
      /\ \A i \in DOMAIN FilesRead : FilesRead'[i] = FilesRead[i]
  OBVIOUS
\* The titles of what stands are those of the files.
<1>5. ASSUME NEW sec, StandsIn(FilesRead', "attr", sec)
      PROVE  \E i \in DOMAIN FilesRead' : sec.title \in Titles(FilesRead'[i], "attr")
  BY <1>5 DEF StandsIn, Titles, Range
<1>6. ASSUME NEW sec \in Range(file["attr"]) PROVE sec \in Range(secs)
  BY <1>1, <1>6, StandsStep
<1>7. ASSUME NEW name
      PROVE  name \in DOMAIN attrs' <=> \E i \in DOMAIN FilesRead' : name \in Titles(FilesRead'[i], "attr")
  <2>1. name \in DOMAIN attrs <=> \E i \in DOMAIN FilesRead : name \in Titles(FilesRead[i], "attr")
    BY DEF AttrsStand
  <2>2. name \in Titles(file, "attr") <=> \E sec \in Range(file["attr"]) : sec.title = name
    BY DEF Titles, Range
  <2>3. ASSUME name \in DOMAIN attrs'
        PROVE  \E i \in DOMAIN FilesRead' : name \in Titles(FilesRead'[i], "attr")
    <3>1. CASE name \in DOMAIN attrs
      BY <1>4, <2>1, <3>1
    <3>2. CASE \E sec \in Range(secs) : sec.title = name
      BY <1>1, <1>5, <3>2
    <3> QED
      BY <1>3, <2>3, <3>1, <3>2
  <2>4. ASSUME NEW i \in DOMAIN FilesRead', name \in Titles(FilesRead'[i], "attr")
        PROVE  name \in DOMAIN attrs'
    <3>1. CASE i \in DOMAIN FilesRead
      BY <1>3, <1>4, <2>1, <2>4, <3>1
    <3>2. CASE i = Len(FilesRead) + 1
      BY <1>3, <1>4, <1>6, <2>2, <2>4, <3>2
    <3> QED
      BY <1>4, <3>1, <3>2
  <2> QED
    BY <2>3, <2>4
<1>8. ASSUME NEW sec, FirstIn(FilesRead', "attr", sec)
      PROVE  attrs'[sec.title] = [unit |-> sec.unit, type |-> sec.type]
  <2>1. CASE FirstIn(FilesRead, "attr", sec)
    <3>1. \E i \in DOMAIN FilesRead : sec.title \in Titles(FilesRead[i], "attr")
      BY <2>1 DEF FirstIn, Titles, Range
    <3>2. sec.title \in DOMAIN attrs
      BY <3>1 DEF AttrsStand
    <3> QED
      BY <1>3, <2>1, <3>2 DEF AttrsStand
  <2>2. CASE sec \in Range(file["attr"]) /\ \A j \in DOMAIN FilesRead : sec.title \notin Titles(FilesRead[j], "attr")
    <3>1. sec.title \notin DOMAIN attrs
      BY <2>2 DEF AttrsStand
    <3> QED
      BY <1>3, <1>6, <2>2, <3>1
  <2> QED
    BY <1>8, <2>1, <2>2, StandsStep
<1> QED
  BY <1>7, <1>8 DEF AttrsStand

\* The flags of an element are all those that the files read so far give it.
LEMMA ElementsStep ==
  ASSUME ElementsStand, SectionsStand', ReadSections(sections', conf'["read_interval"]),
         NEW file, NEW S, FilesRead \in Seq(S), file \in S, FilesRead' = Append(FilesRead, file)
  PROVE  ElementsStand'
<1> DEFINE secs == sections'["element"]
           Says(f, name, x) == \E sec \in Range(f["element"]) : sec.title = name /\ x = FlagOf(sec)
<1>1. Titled(secs) /\ \A sec : sec \in Range(secs) <=> StandsIn(FilesRead', "element", sec)
  BY DEF SectionsStand, Kinds
<1>2. elements' = ReadElements(elements, secs)
  BY DEF ReadSections
<1> HIDE DEF secs
<1>3. /\ DOMAIN FilesRead' = DOMAIN FilesRead \cup {Len(FilesRead) + 1}
      /\ FilesRead'[Len(FilesRead) + 1] = file
      /\ \A i \in DOMAIN FilesRead : FilesRead'[i] = FilesRead[i]
  OBVIOUS
<1> SUFFICES ASSUME NEW name, NEW x
             PROVE  x \in FlagsIn(elements', name) <=> \E i \in DOMAIN FilesRead' : Says(FilesRead'[i], name, x)
  BY DEF ElementsStand
<1>4. x \in FlagsIn(elements', name) <=>
         x \in FlagsIn(elements, name) \/ \E sec \in Range(secs) : sec.title = name /\ x = FlagOf(sec)
  BY <1>1, <1>2, ElementsFact
<1>5. x \in FlagsIn(elements, name) <=> \E i \in DOMAIN FilesRead : Says(FilesRead[i], name, x)
  BY DEF ElementsStand
<1>6. ASSUME NEW sec \in Range(secs), sec.title = name, x = FlagOf(sec)
      PROVE  \E i \in DOMAIN FilesRead' : Says(FilesRead'[i], name, x)
  BY <1>1, <1>6 DEF StandsIn
<1>7. ASSUME Says(file, name, x) PROVE \E sec \in Range(secs) : sec.title = name /\ x = FlagOf(sec)
  <2>1. PICK sec \in Range(file["element"]) : sec.title = name /\ x = FlagOf(sec)
    BY <1>7
  <2>2. sec \in Range(secs)
    BY <1>1, <2>1, StandsStep
  <2> QED
    BY <2>1, <2>2
<1> HIDE DEF Says
<1> QED
  BY <1>3, <1>4, <1>5, <1>6, <1>7

\* The unit of one title, once all sections are read again.
LEMMA UnitsStep ==
  ASSUME UnitsStand, SectionsStand', FilesThere', ReadSections(sections', conf'["read_interval"]),
         NEW file, NEW S, FilesRead \in Seq(S), file \in S, FilesRead' = Append(FilesRead, file)
  PROVE  UnitsStand'
<1> DEFINE secs == sections'["unit"]
<1>1. Titled(secs) /\ \A sec : sec \in Range(secs) <=> StandsIn(FilesRead', "unit", sec)
  BY DEF SectionsStand, Kinds
<1>2. units' = ReadUnits(units, secs)
  BY DEF ReadSections
<1>3. ASSUME NEW a \in Range(secs), NEW b \in Range(secs), a.title = b.title PROVE a = b
  BY <1>1, <1>3 DEF Titled, Range
<1> HIDE DEF secs
<1> SUFFICES ASSUME NEW title
             PROVE  /\ DOMAIN UnitOf(title)' = Variants
                    /\ \A v \in Variants :
                          /\ \A div : GivenIn(FilesRead', title, v, div) => UnitOf(title)'[v] = div
                          /\ (\A i \in DOMAIN FilesRead' : \A div : ~Gives(FilesRead'[i], title, v, div)) =>
                                UnitOf(title)'[v] = <<>>
  BY DEF UnitsStand
<1> DEFINE old == UnitOf(title)
           new == UnitOf(title)'
<1>4. /\ DOMAIN old = Variants
      /\ \A v \in Variants :
            /\ \A div : GivenIn(FilesRead, title, v, div) => old[v] = div
            /\ (\A i \in DOMAIN FilesRead : \A div : ~Gives(FilesRead[i], title, v, div)) => old[v] = <<>>
  BY DEF UnitsStand
\* A section of the new file is among those that are read.
<1>5. ASSUME NEW v, NEW div, Gives(file, title, v, div)
      PROVE  \E sec \in Range(secs) : /\ sec.title = title
                                      /\ \E x \in Range(sec.variants) : x.title = v /\ x.div # <<>> /\ x.div = div
  <2>1. PICK sec \in Range(file["unit"]) : /\ sec.title = title
                                           /\ \E x \in Range(sec.variants) : x.title = v /\ x.div # <<>> /\ x.div = div
    BY <1>5 DEF Gives
  <2>2. sec \in Range(secs)
    BY <1>1, <2>1, StandsStep
  <2> QED
    BY <2>1, <2>2
<1>6. /\ \A name : name \in DOMAIN units' <=>
            name \in DOMAIN units \/ \E sec \in Range(secs) : sec.title = name /\ sec.variants # <<>>
      /\ \A sec \in Range(secs) : sec.variants # <<>> =>
            units'[sec.title] = AddDivs(Get(units, sec.title, UnitAdd), sec.variants)
      /\ \A name \in DOMAIN units :
            (\A sec \in Range(secs) : sec.title = name => sec.variants = <<>>) => units'[name] = units[name]
  BY <1>1, <1>2, UnitsFact
<1>9. ASSUME NEW v
      PROVE  /\ \A div : GivenIn(FilesRead', title, v, div) <=>
                   \/ Gives(file, title, v, div)
                   \/ GivenIn(FilesRead, title, v, div) /\ \A d : ~Gives(file, title, v, d)
             /\ (\A i \in DOMAIN FilesRead' : \A div : ~Gives(FilesRead'[i], title, v, div)) =>
                   /\ \A i \in DOMAIN FilesRead : \A div : ~Gives(FilesRead[i], title, v, div)
                   /\ \A div : ~Gives(file, title, v, div)
  <2> DEFINE list == FilesRead
             more == FilesRead'
  <2>1. more = Append(list, file) /\ list \in Seq(S)
    OBVIOUS
  <2> HIDE DEF list, more
  <2>2. /\ \A div : GivenIn(more, title, v, div) <=>
              Gives(file, title, v, div) \/ (GivenIn(list, title, v, div) /\ \A d : ~Gives(file, title, v, d))
        /\ (\A i \in DOMAIN more : \A div : ~Gives(more[i], title, v, div)) =>
              /\ \A i \in DOMAIN list : \A div : ~Gives(list[i], title, v, div)
              /\ \A div : ~Gives(file, title, v, div)
    BY <2>1, GivenStep
  <2> QED
    BY <2>2 DEF list, more
<1>7. CASE \A sec \in Range(secs) : sec.title = title => sec.variants = <<>>
  <2>1. new = old
    BY <1>6, <1>7 DEF UnitOf, Get
  <2>2. ASSUME NEW v, NEW div PROVE ~Gives(file, title, v, div)
    <3> SUFFICES ASSUME Gives(file, title, v, div) PROVE FALSE
      OBVIOUS
    <3>1. PICK sec \in Range(secs) : sec.title = title /\ \E x \in Range(sec.variants) : x.title = v
      BY <1>5
    <3>2. sec.variants # <<>>
      BY <3>1 DEF Range
    <3> QED
      BY <1>7, <3>1, <3>2
  <2> HIDE DEF old, new
  <2>3. ASSUME NEW v \in Variants
        PROVE  /\ \A div : GivenIn(FilesRead', title, v, div) => new[v] = div
               /\ (\A i \in DOMAIN FilesRead' : \A div : ~Gives(FilesRead'[i], title, v, div)) => new[v] = <<>>
    BY <1>4, <1>9, <2>1, <2>2
  <2> QED
    BY <1>4, <2>1, <2>3 DEF new
<1>8. CASE \E sec \in Range(secs) : sec.title = title /\ sec.variants # <<>>
  <2>1. PICK sec \in Range(secs) : sec.title = title /\ sec.variants # <<>>
    BY <1>8
  <2>2. new = AddDivs(old, sec.variants)
    BY <1>6, <2>1 DEF UnitOf, Get
  <2>3. StandsIn(FilesRead', "unit", sec) /\ Titled(sec.variants)
    <3>1. StandsIn(FilesRead', "unit", sec)
      BY <1>1
    <3>2. PICK i \in DOMAIN FilesRead' : IsFile(FilesRead'[i]) /\ sec \in Range(FilesRead'[i]["unit"])
      BY <3>1 DEF StandsIn, FilesThere
    <3> QED
      BY <3>1, <3>2 DEF IsFile
  <2> HIDE DEF old, new
  <2>4. /\ DOMAIN new = DOMAIN old
        /\ \A x \in Range(sec.variants) : x.title \in DOMAIN old /\ x.div # <<>> => new[x.title] = x.div
        /\ \A v \in DOMAIN old : (\A x \in Range(sec.variants) : x.title = v => x.div = <<>>) => new[v] = old[v]
    BY <2>2, <2>3, DivsFact
  \* What the section gives is given by the last file that has its title.
  <2>5. ASSUME NEW x \in Range(sec.variants), x.div # <<>>
        PROVE  GivenIn(FilesRead', title, x.title, x.div)
    <3>1. PICK i \in DOMAIN FilesRead' : /\ sec \in Range(FilesRead'[i]["unit"])
                                         /\ \A j \in DOMAIN FilesRead' : j > i => title \notin Titles(FilesRead'[j], "unit")
      BY <2>1, <2>3 DEF StandsIn
    <3>2. Gives(FilesRead'[i], title, x.title, x.div)
      BY <2>1, <2>5, <3>1 DEF Gives
    <3>3. ASSUME NEW j \in DOMAIN FilesRead', j > i, NEW d PROVE ~Gives(FilesRead'[j], title, x.title, d)
      BY <3>1, <3>3 DEF Gives, Titles, Range
    <3> QED
      BY <3>2, <3>3 DEF GivenIn
  \* Only one list is given in the end.
  <2>6. ASSUME NEW v \in Variants, NEW div, GivenIn(FilesRead', title, v, div) PROVE new[v] = div
    <3>1. CASE Gives(file, title, v, div)
      <4>1. PICK s \in Range(secs) : /\ s.title = title
                                     /\ \E x \in Range(s.variants) : x.title = v /\ x.div # <<>> /\ x.div = div
        BY <1>5, <3>1
      <4>2. s = sec
        BY <1>3, <2>1, <4>1
      <4> QED
        BY <1>4, <2>4, <4>1, <4>2
    <3>2. CASE GivenIn(FilesRead, title, v, div) /\ \A d : ~Gives(file, title, v, d)
      <4>1. old[v] = div
        BY <1>4, <3>2
      <4>2. ASSUME NEW x \in Range(sec.variants), x.title = v, x.div # <<>> PROVE x.div = div
        <5>1. GivenIn(FilesRead', title, v, x.div)
          BY <2>5, <4>2
        <5>2. GivenIn(FilesRead, title, v, x.div)
          BY <3>2, <5>1, GivenStep
        <5> QED
          BY <1>4, <4>1, <5>2
      <4> QED
        BY <1>4, <2>4, <4>1, <4>2
    <3> QED
      BY <2>6, <3>1, <3>2, GivenStep
  <2>7. ASSUME NEW v \in Variants, \A i \in DOMAIN FilesRead' : \A div : ~Gives(FilesRead'[i], title, v, div)
        PROVE  new[v] = <<>>
    <3>1. old[v] = <<>>
      BY <1>4, <1>9, <2>7
    <3>2. ASSUME NEW x \in Range(sec.variants), x.title = v PROVE x.div = <<>>
      BY <2>5, <2>7, <3>2 DEF GivenIn
    <3> QED
      BY <1>4, <2>4, <3>1, <3>2
  <2> QED
    BY <1>4, <2>4, <2>6, <2>7 DEF new
<1> QED
  BY <1>7, <1>8

\* A file that is read leaves all as the files say it is.
LEMMA ReadAllStand ==
  ASSUME Defined, Steady', ~Ended, NEW file \in Known, NEW next, FileIsRead(file, next),
         FilesRead \in Seq(Known)
  PROVE  Defined'
<1>1. CASE Leave("quit")
  BY <1>1, StartedStays DEF Leave, Defined, Ended
<1>2. CASE ~Leave("quit")
  <2>1. /\ UNCHANGED input /\ sections' = Parse(file)
        /\ ReadSections(sections', conf'["read_interval"])
    BY <1>2, ReadDefines DEF FileIsRead
  <2>2. IsFile(file) /\ FilesRead' = Append(FilesRead, file) /\ stage' \in {"pre", "user", "post"}
    BY KnownFiles DEF FileIsRead, Defined
  <2>3. AllStand /\ Started'
    BY <2>1, StartedStays DEF Defined
  <2>4. FilesThere'
    <3>1. FilesRead' \in Seq(Known)
      BY <2>2
    <3>2. Known' = Known
      BY <2>1 DEF Known, input
    <3>3. \A i \in DOMAIN FilesRead' : IsFile(FilesRead'[i])
      BY <2>2, <2>3 DEF AllStand, FilesThere
    <3> QED
      BY <3>1, <3>2, <3>3 DEF FilesThere
  <2>5. SectionsStand'
    BY <2>1, <2>2, <2>3, SectionsStep DEF AllStand
  <2>6. conf'["read_interval"] = FileValue(FilesRead', "read_interval")
    <3>1. optind' = 1 /\ ~Ended'
      BY <1>2, <2>2, ReadFacts DEF FileIsRead, Ended
    <3>2. Said("read_interval")' = {}
      <4> SUFFICES ASSUME NEW i \in DOMAIN argv', i < 1 PROVE FALSE
        BY <2>2, <3>1 DEF Said
      <4> QED
        BY DEF Steady, Placed
    <3>3. FileValue(FilesRead, "read_interval")' = FileValue(FilesRead', "read_interval")
      BY DEF FileValue, Strongest
    <3> QED
      BY <2>2, <3>1, <3>2, <3>3, DefaultsAssumption DEF Steady, OptionsSet
  <2>7. HistoriesStand'
    BY <2>1, <2>5, <2>6, HistoriesStep
  <2>8. AttrsStand' /\ ElementsStand' /\ UnitsStand'
    BY <2>1, <2>2, <2>3, <2>4, <2>5, AttrsStep, ElementsStep, UnitsStep DEF AllStand
  <2> QED
    BY <2>3, <2>4, <2>5, <2>7, <2>8 DEF Defined, AllStand
<1> QED
  BY <1>1, <1>2

\* Nothing is defined where no file is read.
LEMMA NothingDefined ==
  ASSUME Defined, ~Ended, UNCHANGED <<input, sections, definitions>>, FilesRead' = FilesRead
  PROVE  Defined'
<1>1. Started' /\ Known' = Known /\ AllStand
  BY StartedStays DEF Defined, Known, input
<1>2. FilesThere'
  BY <1>1 DEF AllStand, FilesThere
<1>3. SectionsStand'
  BY <1>1 DEF AllStand, SectionsStand
<1>4. HistoriesStand'
  <2>1. FileValue(FilesRead, "read_interval")' = FileValue(FilesRead', "read_interval")
    BY DEF FileValue, Strongest
  <2> QED
    BY <1>1, <2>1 DEF AllStand, HistoriesStand, definitions
<1>5. AttrsStand' /\ ElementsStand'
  BY <1>1 DEF AllStand, AttrsStand, ElementsStand, definitions
<1>6. UnitsStand'
  BY <1>1 DEF AllStand, UnitsStand, UnitOf, definitions
<1> QED
  BY <1>1, <1>2, <1>3, <1>4, <1>5, <1>6 DEF Defined, AllStand

\* bmon has ended.
LEMMA EndDefined == ASSUME Started, UNCHANGED input, Ended' PROVE Defined'
BY StartedStays DEF Defined

\* Every step leaves sections and definitions as the files read so far say.
LEMMA DefinedStep == ASSUME Defined, Steady, Steady', [StartupNext]_startup PROVE Defined'
<1>1. UNCHANGED input
  BY InputStays
<1>2. CASE ConfInitPre
  <2>1. ~Ended /\ FilesRead = <<>> /\ FilesRead \in Seq(Known) /\ DefaultConfig \in Known
    BY <1>2 DEF ConfInitPre, Ended, FilesRead, Known
  <2>2. Leave("quit") => Ended'
    BY DEF Leave, Ended
  <2> QED
    BY <1>1, <1>2, <2>1, <2>2, ConfInitPreCases, ReadAllStand, EndDefined DEF Defined
<1>3. CASE ConfigfileRead
  <2>1. ~Ended /\ FilesRead \in Seq(Known)
    BY <1>3, ConfigfileReadCases DEF Ended
  <2>2. Leave("quit") => Ended'
    BY DEF Leave, Ended
  <2>3. ASSUME NEW next, NoFileIsRead(next) PROVE Defined'
    BY <2>1, <2>3, NothingDefined DEF NoFileIsRead
  <2>4. ASSUME NEW file \in Known, NEW next, FileIsRead(file, next) PROVE Defined'
    BY <2>1, <2>4, ReadAllStand
  <2> QED
    BY <1>1, <1>3, <2>2, <2>3, <2>4, ConfigfileReadCases, EndDefined DEF Defined
<1>4. CASE ParseArgsPre \/ EndArgsPre \/ ParseArgsPost \/ ConfInitPost \/ UNCHANGED startup
  <2>1. CASE Ended'
    BY <1>1, <2>1, EndDefined DEF Defined
  <2>2. CASE ~Ended'
    <3>1. UNCHANGED <<sections, definitions>>
      BY <1>4 DEF ParseArgsPre, EndArgsPre, ParseArgsPost, ConfInitPost, Leave, NextArg, startup
    <3>2. ~Ended /\ \/ stage' = stage
                    \/ stage = "pre" /\ stage' = "files"
                    \/ stage = "post" /\ stage' = "ready"
      BY <1>4, <2>2 DEF ParseArgsPre, EndArgsPre, ParseArgsPost, ConfInitPost, Leave, NextArg, startup, GoTo, Ended
    <3>3. stage = "pre" \/ InForce' = InForce
      <4>1. stage = "pre" \/ UNCHANGED <<files, configfile>>
        BY <1>1, <1>4, <2>2 DEF ParseArgsPre, EndArgsPre, ParseArgsPost, ConfInitPost, Leave, Ended, startup, input
      <4> QED
        BY <4>1 DEF InForce
    <3>4. FilesRead' = FilesRead
      BY <1>1, <3>2, <3>3 DEF FilesRead, input
    <3> QED
      BY <1>1, <3>1, <3>2, <3>4, NothingDefined
  <2> QED
    BY <2>1, <2>2
<1> QED
  BY <1>2, <1>3, <1>4 DEF StartupNext

\* Sections, histories, attributes, units and elements are what the files read so
\* far say they are, though all sections are read again with every file.
THEOREM DefinedAlways == StartupSpec => []Defined
<1>1. ASSUME Steady, [StartupNext]_startup PROVE Steady'
  BY <1>1, ConfInitPreSteady, ParseArgsPreSteady, EndArgsPreSteady, ConfigfileReadSteady,
     ParseArgsPostSteady, ConfInitPostSteady, StutterSteady DEF StartupNext
<1>2. StartupInit => Steady /\ Defined
  BY SteadyInit, DefinedInit
<1>3. (Steady /\ Defined) /\ [StartupNext]_startup => (Steady /\ Defined)'
  BY <1>1, DefinedStep
<1> QED
  BY <1>2, <1>3, PTL DEF StartupSpec

\* When it is ready, bmon has read the files in force.
LEMMA ReadyRead == ASSUME Ready, Defined PROVE AllStand /\ FilesRead = InForce
BY DEF Ready, Defined, Ended, FilesRead

\* A file that is the strongest, or the weakest, to define a title.
LEMMA StrongestFact ==
  ASSUME NEW list, list \in Seq(Range(list)), NEW k, NEW title, NEW f, title \in Titles(f, k)
  PROVE  /\ f \in Strongest(list, LAMBDA g : title \in Titles(g, k)) => StandsIn(list, k, Section(f, k, title))
         /\ f \in Weakest(list, LAMBDA g : title \in Titles(g, k)) => FirstIn(list, k, Section(f, k, title))
         /\ Section(f, k, title) \in Range(f[k]) /\ Section(f, k, title).title = title
<1> DEFINE saying == {i \in DOMAIN list : title \in Titles(list[i], k)}
           sec == Section(f, k, title)
<1>1. sec \in Range(f[k]) /\ sec.title = title
  <2>1. \E s \in Range(f[k]) : s.title = title
    BY DEF Titles, Range
  <2> QED
    BY <2>1 DEF Section
<1>2. DOMAIN list = 1 .. Len(list) /\ Len(list) \in Nat /\ saying \subseteq 0 .. Len(list)
  OBVIOUS
<1>3. saying # {} => /\ Max(saying) \in saying /\ \A j \in saying : j <= Max(saying)
                     /\ Min(saying) \in saying /\ \A j \in saying : Min(saying) <= j
  <2> HIDE DEF saying
  <2> QED
    BY <1>2, MaxIsGreatest, MinIsLeast
<1>4. ASSUME f \in Strongest(list, LAMBDA g : title \in Titles(g, k)) PROVE StandsIn(list, k, sec)
  <2>1. saying # {} /\ f = list[Max(saying)]
    BY <1>4 DEF Strongest
  <2> DEFINE m == Max(saying)
  <2>2. m \in DOMAIN list /\ \A j \in DOMAIN list : j > m => title \notin Titles(list[j], k)
    <3>1. m \in DOMAIN list /\ \A j \in saying : j <= m
      BY <1>3, <2>1
    <3> HIDE DEF m
    <3>2. m \in Nat /\ \A j \in DOMAIN list : j \in Nat /\ (title \in Titles(list[j], k) => j \in saying)
      BY <1>2, <3>1
    <3> QED
      BY <3>1, <3>2
  <2> HIDE DEF m, sec
  <2> QED
    BY <1>1, <2>1, <2>2 DEF StandsIn, m
<1>5. ASSUME f \in Weakest(list, LAMBDA g : title \in Titles(g, k)) PROVE FirstIn(list, k, sec)
  <2>1. saying # {} /\ f = list[Min(saying)]
    BY <1>5 DEF Weakest
  <2> DEFINE m == Min(saying)
  <2>2. m \in DOMAIN list /\ \A j \in DOMAIN list : j < m => title \notin Titles(list[j], k)
    <3>1. m \in DOMAIN list /\ \A j \in saying : m <= j
      BY <1>3, <2>1
    <3> HIDE DEF m
    <3>2. m \in Nat /\ \A j \in DOMAIN list : j \in Nat /\ (title \in Titles(list[j], k) => j \in saying)
      BY <1>2, <3>1
    <3> QED
      BY <3>1, <3>2
  <2> HIDE DEF m, sec
  <2> QED
    BY <1>1, <2>1, <2>2 DEF FirstIn, m
<1> QED
  BY <1>1, <1>4, <1>5

\* The strongest file's definition of a history stands, and the weakest file's of
\* an attribute.
THEOREM DefinitionsStandHolds == StartupSpec => []DefinitionsStand
<1>1. ASSUME Defined PROVE DefinitionsStand
  <2> SUFFICES ASSUME Ready PROVE DefinitionsStand
    BY DEF DefinitionsStand
  <2>1. AllStand /\ FilesRead = InForce
    BY <1>1, ReadyRead
  <2>2. InForce \in Seq(Range(InForce))
    <3>1. InForce \in Seq(Known)
      BY <2>1 DEF AllStand, FilesThere
    <3> QED
      BY <3>1 DEF Range
  <2>3. ASSUME NEW f \in Range(InForce), NEW title \in Titles(f, "history"),
               f \in Strongest(InForce, LAMBDA g : title \in Titles(g, "history"))
        PROVE  LET sec == Section(f, "history", title)
               IN  histories[title] =
                     [interval |-> IF sec.interval = <<"0">> THEN FileValue(InForce, "read_interval") ELSE sec.interval,
                      type |-> sec.type]
    <3> DEFINE sec == Section(f, "history", title)
    <3>1. StandsIn(InForce, "history", sec) /\ sec.title = title
      BY <2>2, <2>3, StrongestFact
    <3>2. histories[title] = HistoryOf(FileValue(InForce, "read_interval"), sec)
      BY <2>1, <3>1 DEF AllStand, HistoriesStand
    <3> QED
      BY <3>2 DEF HistoryOf
  <2>4. ASSUME NEW f \in Range(InForce), NEW title \in Titles(f, "attr"),
               f \in Weakest(InForce, LAMBDA g : title \in Titles(g, "attr"))
        PROVE  attrs[title] = [unit |-> Section(f, "attr", title).unit, type |-> Section(f, "attr", title).type]
    <3> DEFINE sec == Section(f, "attr", title)
    <3>1. FirstIn(InForce, "attr", sec) /\ sec.title = title
      BY <2>2, <2>4, StrongestFact
    <3> QED
      BY <2>1, <3>1 DEF AllStand, AttrsStand
  <2> QED
    BY <2>3, <2>4 DEF DefinitionsStand
<1> QED
  BY <1>1, DefinedAlways, PTL

-----------------------------------------------------------------------------
(***************************************************************************)
(* The divisor of a value.                                                  *)
(***************************************************************************)
\* The fractions that the strongest file gives are those of the unit.
LEMMA FractionsFact ==
  ASSUME Defined, Ready, NEW title, NEW v \in Variants
  PROVE  /\ Fractions(title, v) = IF UnitOf(title)[v] = <<>> THEN {} ELSE {UnitOf(title)[v]}
         /\ Ascending(UnitOf(title)[v])
<1> DEFINE list == InForce
           G(f) == \E sec \in Range(f["unit"]) : sec.title = title /\
                     \E x \in Range(sec.variants) : x.title = v /\ x.div # <<>>
           saying == {i \in DOMAIN list : G(list[i])}
           In(f) == {x.div : x \in {y \in Range(Section(f, "unit", title).variants) : y.title = v}}
           unit == UnitOf(title)
<1>1. /\ list \in Seq(Known) /\ \A i \in DOMAIN list : IsFile(list[i])
      /\ \A div : GivenIn(list, title, v, div) => unit[v] = div
      /\ (\A i \in DOMAIN list : \A div : ~Gives(list[i], title, v, div)) => unit[v] = <<>>
  BY ReadyRead DEF AllStand, FilesThere, UnitsStand
<1>2. Fractions(title, v) = UNION {In(f) : f \in IF saying = {} THEN {} ELSE {list[Max(saying)]}}
  BY DEF Fractions, Strongest
<1>3. ASSUME NEW f PROVE G(f) <=> \E div : Gives(f, title, v, div)
  BY DEF Gives
<1>4. CASE saying = {}
  <2>1. unit[v] = <<>>
    BY <1>1, <1>3, <1>4
  <2>2. Fractions(title, v) = {}
    BY <1>2, <1>4
  <2>3. Ascending(<<>>)
    BY DEF Ascending, Range
  <2> QED
    BY <2>1, <2>2, <2>3
<1>5. CASE saying # {}
  <2> DEFINE m == Max(saying)
             f == list[m]
             sec == Section(f, "unit", title)
  <2>1. m \in saying /\ \A j \in saying : j <= m
    <3>1. saying \subseteq 0 .. Len(list) /\ Len(list) \in Nat
      BY <1>1
    <3> HIDE DEF saying
    <3> QED
      BY <1>5, <3>1, MaxIsGreatest
  <2>2. m \in DOMAIN list /\ G(f) /\ IsFile(f)
    BY <1>1, <2>1
  <2>3. ASSUME NEW j \in DOMAIN list, j > m, NEW d PROVE ~Gives(list[j], title, v, d)
    <3>1. j \in Nat /\ m \in Nat
      BY <1>1, <2>2
    <3> HIDE DEF m
    <3>2. ~(j <= m)
      BY <2>3, <3>1
    <3> HIDE DEF saying
    <3>3. j \notin saying
      BY <2>1, <3>2
    <3> QED
      BY <1>3, <3>3 DEF saying
  <2>4. Fractions(title, v) = In(f)
    BY <1>2, <1>5
  <2> HIDE DEF f, m, saying
  <2>5. PICK s \in Range(f["unit"]) : s.title = title /\ \E x \in Range(s.variants) : x.title = v /\ x.div # <<>>
    BY <2>2
  <2>6. sec = s
    <3>1. sec \in Range(f["unit"]) /\ sec.title = title
      BY <2>5 DEF Section
    <3>2. Titled(f["unit"])
      BY <2>2 DEF IsFile, Kinds
    <3> QED
      BY <2>5, <3>1, <3>2 DEF Titled, Range
  <2>7. PICK x \in Range(s.variants) : x.title = v /\ x.div # <<>>
    BY <2>5
  <2>8. Titled(s.variants) /\ Ascending(x.div)
    BY <2>2, <2>5, <2>7 DEF IsFile
  <2>9. \A y \in Range(s.variants) : y.title = v => y = x
    BY <2>7, <2>8 DEF Titled, Range
  <2>10. In(f) = {x.div}
    <3>1. {y \in Range(s.variants) : y.title = v} = {x}
      BY <2>7, <2>9
    <3>2. In(f) = {y.div : y \in {x}}
      BY <2>6, <3>1
    <3> QED
      BY <3>2
  <2>11. unit[v] = x.div
    <3>1. Gives(f, title, v, x.div)
      BY <2>5, <2>7 DEF Gives
    <3>2. GivenIn(list, title, v, x.div)
      BY <2>2, <2>3, <3>1 DEF GivenIn, f
    <3> QED
      BY <1>1, <3>2
  <2> QED
    BY <2>4, <2>7, <2>8, <2>10, <2>11
<1> QED
  BY <1>4, <1>5

\* A set of naturals has a least one.
LEMMA LeastNat ==
  ASSUME NEW T, T \subseteq Nat, T # {}
  PROVE  Min(T) \in T /\ \A y \in T : Min(T) <= y
<1>1. PICK t \in T : TRUE
  OBVIOUS
<1> DEFINE U == {x \in T : x <= t}
<1>2. U \subseteq 0 .. t /\ t \in U /\ t \in Nat
  <2>1. t \in Nat
    BY <1>1
  <2>2. t \in U
    BY <1>1, <2>1
  <2>3. \A x \in U : x \in Nat /\ x <= t
    OBVIOUS
  <2> HIDE DEF U
  <2>4. \A x \in U : x \in 0 .. t
    BY <2>1, <2>3
  <2> QED
    BY <2>1, <2>2, <2>4
<1>3. Min(U) \in U /\ \A y \in U : Min(U) <= y
  <2> HIDE DEF U
  <2> QED
    BY <1>2, MinIsLeast
<1>4. \A y \in T : Min(U) <= y
  <2> SUFFICES ASSUME NEW y \in T PROVE Min(U) <= y
    OBVIOUS
  <2>1. Min(U) \in T /\ Min(U) <= t
    BY <1>3
  <2>2. y \in U \/ t <= y
    BY <1>2
  <2> QED
    BY <1>2, <1>3, <2>1, <2>2
<1> QED
  BY <1>3, <1>4 DEF Min

\* A value of u * q + r, with u the distance of floats, is rounded up by half a distance
\* at most, and that is no more than the value over the mantissa.
LEMMA UlpFact ==
  ASSUME NEW value \in Nat, HasFloat(value)
  PROVE  LET u == Ulp(value)
         IN  /\ u \in Ulps /\ u \in Nat \ {0}
             /\ u # 1 => /\ u % 2 = 0 /\ u \div 2 \in Nat \ {0}
                         /\ Mantissa * (u \div 2) <= value
<1> DEFINE T == {v \in Ulps : value < Mantissa * v}
           u == Ulp(value)
<1>1. T \subseteq Nat /\ T # {} /\ Mantissa \in Nat \ {0} /\ Ulps \subseteq Nat \ {0}
  BY UlpsAssumption DEF HasFloat
<1>2. u \in T /\ \A y \in T : u <= y
  <2> HIDE DEF T
  <2> QED
    BY <1>1, LeastNat DEF Ulp, T
<1>3. u \in Ulps /\ u \in Nat \ {0}
  BY <1>1, <1>2
<1> HIDE DEF u
<1>4. ASSUME u # 1 PROVE u % 2 = 0 /\ u \div 2 \in Nat \ {0} /\ Mantissa * (u \div 2) <= value
  <2> DEFINE half == u \div 2
  <2>1. u % 2 = 0 /\ half \in Ulps
    BY <1>3, <1>4, UlpsAssumption
  <2>2. half \in Nat \ {0} /\ half < u
    BY <1>1, <1>3, <2>1
  <2> HIDE DEF half
  <2>3. half \notin T
    BY <1>2, <1>3, <2>2
  <2>4. Mantissa * half \in Nat
    BY <1>1, <2>2
  <2> QED
    BY <2>1, <2>2, <2>3, <2>4 DEF half
<1> QED
  BY <1>3, <1>4 DEF u

\* A value is rounded to a float near to it, and a divisor it reaches is reached by
\* the float.
LEMMA FloatFact ==
  ASSUME NEW value \in Nat, HasFloat(value)
  PROVE  /\ FloatOf(value) \in Nat
         /\ Mantissa * (FloatOf(value) - value) <= value
         /\ \A d : IsDivisor(d) /\ d <= Scale * value => d <= Scale * FloatOf(value)
<1> DEFINE u == Ulp(value)
           q == value \div u
           r == value % u
           F == FloatOf(value)
<1>1. /\ u \in Ulps /\ u \in Nat \ {0} /\ Mantissa \in Nat \ {0} /\ Mantissa % 2 = 0 /\ Scale \in Nat \ {0}
      /\ u # 1 => u % 2 = 0 /\ u \div 2 \in Nat \ {0} /\ Mantissa * (u \div 2) <= value
  BY UlpFact, UlpsAssumption, ScaleAssumption
<1>2. F = u * q \/ (F = u * (q + 1) /\ ~(2 * r < u))
  <2> DEFINE down == 2 * r < u \/ (2 * r = u /\ q % 2 = 0)
  <2>1. F = u * (IF down THEN q ELSE q + 1)
    BY DEF FloatOf
  <2>2. ~down => ~(2 * r < u)
    OBVIOUS
  <2> HIDE DEF down, u, q, r, F
  <2>3. CASE down
    BY <2>1, <2>3
  <2>4. CASE ~down
    BY <2>1, <2>2, <2>4
  <2> QED
    BY <2>3, <2>4
<1> HIDE DEF u, F
<1>3. value = u * q + r /\ q \in Int /\ r \in 0 .. u - 1
  <2>1. u \in Nat \ {0} /\ value \in Int
    BY <1>1
  <2>2. value = u * (value \div u) + (value % u) /\ value \div u \in Int /\ value % u \in 0 .. u - 1
    BY ONLY <2>1, DivMod
  <2> QED
    BY <2>2
<1>4. q \in Nat
  BY <1>1, <1>3, SMTT(30)
<1> HIDE DEF q, r
<1>5. F \in Nat /\ u * q \in Nat /\ u * (q + 1) = u * q + u
  BY <1>1, <1>2, <1>4
<1>6. F = value - r \/ (F = value - r + u /\ u <= 2 * r)
  BY <1>1, <1>2, <1>3, <1>5
<1>7. ASSUME u = 1 PROVE F = value
  BY <1>3, <1>6, <1>7
<1>8. ASSUME u # 1 PROVE Mantissa * (F - value) <= value
  <2> DEFINE h == u \div 2
  <2>1. h \in Nat \ {0} /\ u = 2 * h
    BY <1>1, <1>8
  <2> HIDE DEF h
  <2>2. F - value <= h /\ F - value \in Int
    BY <1>3, <1>5, <1>6, <2>1
  <2>3. Mantissa * (F - value) <= Mantissa * h
    BY <1>1, <2>1, <2>2, SMTT(30)
  <2>4. Mantissa * (F - value) \in Int /\ Mantissa * h \in Int /\ Mantissa * h <= value
    BY <1>1, <1>8, <2>1, <2>2 DEF h
  <2> QED
    BY <2>3, <2>4
<1>9. ASSUME NEW d, IsDivisor(d), d <= Scale * value PROVE d <= Scale * F
  <2>0. d \in Nat \ {0}
    BY <1>9 DEF IsDivisor
  <2>1. CASE value <= F
    <3>1. Scale * value <= Scale * F /\ Scale * value \in Int /\ Scale * F \in Int
      BY <1>1, <1>5, <2>1, SMTT(30)
    <3> QED
      BY <1>9, <2>0, <3>1
  <2>2. CASE ~(value <= F)
    <3>1. F = u * q /\ u # 1
      BY <1>1, <1>3, <1>5, <1>6, <1>7, <2>2
    <3> DEFINE h == u \div 2
               k == Mantissa \div 2
    <3>2. h \in Nat \ {0} /\ u = 2 * h /\ k \in Nat /\ Mantissa = 2 * k /\ Mantissa * h <= value
      BY <1>1, <3>1
    <3>3. d >= Scale * (Mantissa * h) => d % (Scale * u) = 0
      BY <1>1, <1>9, <3>1 DEF IsDivisor
    <3> HIDE DEF h, k
    <3>4. Mantissa * h = u * k
      BY <1>1, <3>2, SMTT(30)
    <3>5. k <= q
      <4> SUFFICES ASSUME q + 1 <= k PROVE FALSE
        BY <1>4, <3>2
      <4>1. u * (q + 1) <= u * k
        BY <1>1, <1>4, <3>2, SMTT(30)
      <4>2. u * k \in Int
        BY <1>1, <3>2
      <4> QED
        BY <1>1, <1>3, <1>5, <3>2, <3>4, <4>1, <4>2
    <3>6. CASE d < Scale * (Mantissa * h)
      <4>1. u * k <= u * q /\ u * k \in Nat
        BY <1>1, <1>4, <3>2, <3>5, SMTT(30)
      <4>2. Scale * (u * k) <= Scale * (u * q) /\ Scale * (u * k) \in Nat /\ Scale * (u * q) \in Nat
        BY <1>1, <1>5, <4>1, SMTT(30)
      <4> QED
        BY <2>0, <3>1, <3>4, <3>6, <4>2
    <3>7. CASE ~(d < Scale * (Mantissa * h))
      <4> DEFINE su == Scale * u
                 m == d \div su
      <4>1. su \in Nat \ {0}
        BY <1>1
      <4>2. d % su = 0
        <5>1. Scale * (Mantissa * h) \in Nat
          BY <1>1, <3>2
        <5> QED
          BY <2>0, <3>3, <3>7, <5>1
      <4> HIDE DEF su
      <4>3. d = su * m /\ m \in Int
        <5>1. d = su * m + (d % su) /\ m \in Int
          BY <2>0, <4>1, DivMod
        <5> QED
          BY <4>1, <4>2, <5>1
      <4> HIDE DEF m
      <4>4. m <= q
        <5> SUFFICES ASSUME q + 1 <= m PROVE FALSE
          BY <1>4, <4>3
        <5>1. su * (q + 1) <= su * m /\ su * (q + 1) \in Int
          BY <1>4, <4>1, <4>3, SMTT(30)
        <5>2. su * (q + 1) = Scale * (u * (q + 1))
          BY <1>1, <1>4, SMTT(30) DEF su
        <5>3. value + 1 <= u * (q + 1) /\ u * (q + 1) \in Int
          BY <1>1, <1>3, <1>5
        <5>4. Scale * (value + 1) <= Scale * (u * (q + 1)) /\ Scale * (value + 1) \in Int
          BY <1>1, <5>3, SMTT(30)
        <5>5. Scale * (value + 1) = Scale * value + Scale /\ Scale * value \in Int
          BY <1>1
        <5> QED
          BY <1>1, <1>9, <2>0, <4>3, <5>1, <5>2, <5>4, <5>5
      <4>5. su * m <= su * q /\ su * q \in Int
        BY <1>4, <4>1, <4>3, <4>4, SMTT(30)
      <4>6. su * q = Scale * (u * q)
        BY <1>1, <1>4, SMTT(30) DEF su
      <4> QED
        BY <3>1, <4>3, <4>5, <4>6
    <3> QED
      BY <3>6, <3>7
  <2> QED
    BY <2>1, <2>2
<1>10. Mantissa * (F - value) <= value
  BY <1>1, <1>7, <1>8
<1> QED
  BY <1>5, <1>9, <1>10 DEF F

\* The divisor of a value is the largest of its unit's that fits, or one that exceeds
\* the value by its rounding.
LEMMA DivisorFact ==
  ASSUME NEW flist, Ascending(flist), NEW value \in Nat, HasFloat(value)
  PROVE  LET fits == {f \in Range(flist) : f.div <= Scale * value}
             shown == UnitDivisor(flist, value, DYNAMIC_EXP)
         IN  /\ \/ /\ shown \in Range(flist)
                   /\ \A f \in fits : f.div <= shown.div
                   /\ Mantissa * (shown.div - Scale * value) <= Scale * value
                \/ fits = {} /\ shown = [div |-> Scale, txt |-> ""]
             /\ shown.div \in Nat \ {0}
<1> DEFINE sv == Scale * value
           sf == Scale * FloatOf(value)
           fitting == {i \in DOMAIN flist : sf >= flist[i].div}
           shown == UnitDivisor(flist, value, DYNAMIC_EXP)
           n == Len(flist)
<1>1. /\ DOMAIN flist = 1 .. n /\ n \in Nat /\ sv \in Nat /\ sf \in Nat
      /\ Scale \in Nat \ {0} /\ Mantissa \in Nat \ {0}
      /\ \A i \in 1 .. n : flist[i].div \in Nat \ {0} /\ IsDivisor(flist[i].div)
      /\ \A i, j \in 1 .. n : i <= j => flist[i].div <= flist[j].div
  <2>1. flist \in Seq(Range(flist)) /\ Scale \in Nat \ {0} /\ Mantissa \in Nat \ {0} /\ FloatOf(value) \in Nat
    BY ScaleAssumption, UlpsAssumption, FloatFact DEF Ascending
  <2>2. DOMAIN flist = 1 .. n /\ n \in Nat
    BY <2>1
  <2>3. \A i \in 1 .. n : flist[i].div \in Nat \ {0} /\ IsDivisor(flist[i].div)
    BY <2>2 DEF Ascending, IsDivisor
  <2> QED
    BY <2>1, <2>2, <2>3 DEF Ascending
<1>2. Found(flist, value, DYNAMIC_EXP) = IF fitting = {} THEN {} ELSE {Max(fitting)}
  BY DEF Found
<1>3. \A i \in 1 .. n : flist[i].div <= sv => flist[i].div <= sf
  BY <1>1, FloatFact
<1>4. Mantissa * (sf - sv) <= sv
  <2> DEFINE F == FloatOf(value)
  <2>1. F \in Nat /\ Mantissa * (F - value) <= value
    BY FloatFact
  <2> HIDE DEF F
  <2> DEFINE x == Mantissa * (F - value)
  <2>2. x \in Int /\ x <= value
    BY <1>1, <2>1
  <2>3. Scale * x = Mantissa * (Scale * F - Scale * value)
    BY <1>1, <2>1, SMTT(30)
  <2> HIDE DEF x
  <2>4. Scale * x <= Scale * value
    BY <1>1, <2>2, SMTT(30)
  <2> QED
    BY <2>3, <2>4 DEF F
<1> HIDE DEF n, sv, sf
<1>5. CASE fitting = {}
  <2>1. shown = [div |-> Scale, txt |-> ""]
    BY <1>2, <1>5 DEF UnitDivisor
  <2>2. \A f \in Range(flist) : ~(f.div <= sv)
    <3> SUFFICES ASSUME NEW i \in 1 .. n, flist[i].div <= sv PROVE FALSE
      BY <1>1 DEF Range
    <3> QED
      BY <1>1, <1>3, <1>5
  <2>3. [div |-> Scale, txt |-> ""].div = Scale
    OBVIOUS
  <2>4. shown.div \in Nat \ {0}
    <3> HIDE DEF shown
    <3> QED
      BY <1>1, <2>1, <2>3
  <2> QED
    BY <2>1, <2>2, <2>4 DEF sv
<1>6. CASE fitting # {}
  <2> DEFINE m == Max(fitting)
  <2>1. m \in fitting /\ \A j \in fitting : j <= m
    <3>1. fitting \subseteq 0 .. n
      BY <1>1
    <3> HIDE DEF fitting
    <3> QED
      BY <1>1, <1>6, <3>1, MaxIsGreatest
  <2>2. shown = flist[m]
    <3>1. (CHOOSE i \in {m} : TRUE) = m
      <4> HIDE DEF m
      <4> QED
        OBVIOUS
    <3> QED
      BY <1>2, <1>6, <3>1 DEF UnitDivisor
  <2> HIDE DEF m
  <2>3. m \in 1 .. n /\ flist[m].div <= sf
    BY <1>1, <2>1
  <2>4. ASSUME NEW j \in 1 .. n, flist[j].div <= sv PROVE flist[j].div <= flist[m].div
    BY <1>1, <1>3, <2>1, <2>3, <2>4
  <2>5. shown \in Range(flist) /\ shown.div \in Nat \ {0}
    BY <1>1, <2>2, <2>3 DEF Range
  <2>6. \A f \in Range(flist) : f.div <= sv => f.div <= shown.div
    BY <1>1, <2>2, <2>4 DEF Range
  <2>7. Mantissa * (shown.div - sv) <= sv
    <3> DEFINE d == flist[m].div
    <3>1. d \in Nat /\ d <= sf /\ shown.div = d
      BY <1>1, <2>2, <2>3
    <3> HIDE DEF d
    <3>2. Mantissa * (d - sv) <= Mantissa * (sf - sv)
      BY <1>1, <3>1, SMTT(30)
    <3>3. Mantissa * (d - sv) \in Int /\ Mantissa * (sf - sv) \in Int
      BY <1>1, <3>1
    <3> QED
      BY <1>1, <1>4, <3>1, <3>2, <3>3
  <2> QED
    BY <2>5, <2>6, <2>7 DEF sv
<1> QED
  BY <1>5, <1>6

\* Digits are left out where a value is a multiple of its divisor.
LEMMA DigitsFact ==
  ASSUME NEW value \in Nat, NEW div \in Nat \ {0}
  PROVE  Digits(value, div) = 0 <=> \E n \in 0 .. value * Scale : n * div = Scale * value
<1> DEFINE sv == Scale * value
<1>1. sv \in Nat /\ value * Scale = sv
  BY ScaleAssumption
<1>2. Digits(value, div) = 0 <=> sv % div = 0
  BY DEF Digits
<1> HIDE DEF sv
<1>3. ASSUME sv % div = 0 PROVE \E n \in 0 .. sv : n * div = sv
  <2> DEFINE q == sv \div div
             r == sv % div
  <2>1. sv \in Int
    BY <1>1
  <2>2. sv = div * q + r /\ q \in Int
    BY <2>1, DivMod
  <2>3. r = 0
    BY <1>3
  <2> HIDE DEF q, r
  <2>4. sv = q * div
    BY <2>2, <2>3
  <2>5. q >= 0
    BY <1>1, <2>2, <2>4, SMTT(30)
  <2>6. q <= q * div
    BY <2>2, <2>5, SMTT(30)
  <2> QED
    BY <1>1, <2>2, <2>4, <2>5, <2>6
<1>4. ASSUME NEW n \in 0 .. sv, n * div = sv PROVE sv % div = 0
  <2>1. sv = div * n + 0
    BY <1>4
  <2> QED
    BY <1>1, <2>1, ModUnique
<1> QED
  BY <1>1, <1>2, <1>3, <1>4 DEF sv

\* A value is shown in the largest fraction of its unit that does not exceed it, of
\* those the strongest file gives, or in one that exceeds it by no more than its
\* rounding to a float, and no digit but a zero is left out.
THEOREM DivisorFitsHolds == StartupSpec => []DivisorFits
<1>1. ASSUME Defined PROVE DivisorFits
  <2> SUFFICES ASSUME Ready, NEW title \in DOMAIN units, NEW value \in meant.values
               PROVE LET shown == Shown(title, value)
                     IN  /\ \/ /\ shown \in UsedFractions(title)
                               /\ \A f \in Fitting(title, value) : f.div <= shown.div
                               /\ Mantissa * (shown.div - Scale * value) <= Scale * value
                            \/ Fitting(title, value) = {} /\ shown = [div |-> Scale, txt |-> ""]
                         /\ Digits(value, shown.div) = 0 <=> \E n \in 0 .. value * Scale : n * shown.div = Scale * value
    BY DEF DivisorFits
  <2>1. value \in Nat /\ HasFloat(value)
    BY <1>1, MeaningAssumption DEF Defined, Started
  <2>2. UnitOf(title) = units[title]
    BY DEF UnitOf, Get
  <2> DEFINE wanted == IF conf["use_bit"] THEN "bit" ELSE IF conf["use_si"] THEN "si" ELSE "default"
             flist == FList(units[title], conf["use_bit"], conf["use_si"])
  <2>3. wanted \in Variants /\ "default" \in Variants
    BY DEF Variants
  <2>4. flist = IF units[title][wanted] # <<>> THEN units[title][wanted] ELSE units[title]["default"]
    BY DEF FList
  <2>5. UsedFractions(title) = UNION {Range(list) : list \in IF Fractions(title, wanted) # {} THEN Fractions(title, wanted)
                                                              ELSE Fractions(title, "default")}
    BY DEF UsedFractions
  <2> HIDE DEF wanted, flist
  <2>6. Ascending(flist)
    BY <1>1, <2>2, <2>3, <2>4, FractionsFact
  <2>7. UsedFractions(title) = Range(flist)
    <3>1. \A v \in Variants : Fractions(title, v) = IF units[title][v] = <<>> THEN {} ELSE {units[title][v]}
      BY <1>1, <2>2, FractionsFact
    <3>2. Range(<<>>) = {}
      BY DEF Range
    <3>3. CASE units[title][wanted] # <<>>
      BY <2>3, <2>4, <2>5, <3>1, <3>3
    <3>4. CASE units[title][wanted] = <<>>
      <4>1. UsedFractions(title) = UNION {Range(list) : list \in Fractions(title, "default")}
        BY <2>3, <2>5, <3>1, <3>4
      <4> QED
        BY <2>3, <2>4, <3>1, <3>2, <3>4, <4>1
    <3> QED
      BY <3>3, <3>4
  <2> DEFINE shown == UnitDivisor(flist, value, DYNAMIC_EXP)
  <2>8. /\ \/ /\ shown \in UsedFractions(title)
              /\ \A f \in Fitting(title, value) : f.div <= shown.div
              /\ Mantissa * (shown.div - Scale * value) <= Scale * value
           \/ Fitting(title, value) = {} /\ shown = [div |-> Scale, txt |-> ""]
        /\ shown.div \in Nat \ {0}
    BY <2>1, <2>6, <2>7, DivisorFact DEF Fitting
  <2>9. Digits(value, shown.div) = 0 <=> \E n \in 0 .. value * Scale : n * shown.div = Scale * value
    <3> HIDE DEF shown
    <3> QED
      BY <2>1, <2>8, DigitsFact
  <2>10. shown = Shown(title, value)
    BY DEF Shown, flist
  <2> HIDE DEF shown
  <2> QED
    BY <2>8, <2>9, <2>10
<1> QED
  BY <1>1, DefinedAlways, PTL

-----------------------------------------------------------------------------
(***************************************************************************)
(* Masks.                                                                   *)
(***************************************************************************)
\* What a match of rule[i ..] and name[n ..] depends on: next is what is so behind
\* rule[i], with match_mask() ("code") and with the wildcards of the manual.
MaskAt(rule, name, i, n, next) ==
    \/ i > Len(rule) /\ n > Len(name)
    \/ i = Len(rule) /\ rule[i] = "*"
    \/ /\ i < Len(rule) /\ rule[i] = "*"
       /\ Stops(rule, name, i, n) # {} /\ next[Min(Stops(rule, name, i, n))]
    \/ /\ i <= Len(rule) /\ rule[i] # "*" /\ n <= Len(name)
       /\ Lower(rule[i]) = Lower(name[n]) /\ next[n + 1]
WildAt(rule, name, i, n, next) ==
    \/ i > Len(rule) /\ n > Len(name)
    \/ i <= Len(rule) /\ rule[i] = "*" /\ \E k \in n .. Len(name) + 1 : next[k]
    \/ /\ i <= Len(rule) /\ rule[i] # "*" /\ n <= Len(name)
       /\ Lower(rule[i]) = Lower(name[n]) /\ next[n + 1]
Row(code, rule, name, i, next) ==
    [n \in 1 .. Len(name) + 1 |->
        IF code THEN MaskAt(rule, name, i, n, next) ELSE WildAt(rule, name, i, n, next)]
IsMatchTable(f, code, rule, name, first) ==
    f = [i \in first .. Len(rule) + 1 |-> Row(code, rule, name, i, f[i + 1])]

\* Behind the end of the rule nothing depends on what is behind it.
LEMMA LastRow ==
  ASSUME NEW code \in BOOLEAN, NEW rule, Len(rule) \in Nat, NEW name, Len(name) \in Nat, NEW x, NEW y
  PROVE  Row(code, rule, name, Len(rule) + 1, x) = Row(code, rule, name, Len(rule) + 1, y)
<1> DEFINE i == Len(rule) + 1
<1>1. i > Len(rule) /\ ~(i <= Len(rule)) /\ ~(i < Len(rule))
  OBVIOUS
<1>2. ASSUME NEW n \in 1 .. Len(name) + 1
      PROVE  MaskAt(rule, name, i, n, x) = (n > Len(name)) /\ MaskAt(rule, name, i, n, y) = (n > Len(name))
  <2> HIDE DEF i
  <2>1. ASSUME NEW z PROVE MaskAt(rule, name, i, n, z) = (n > Len(name))
    <3>1. MaskAt(rule, name, i, n, z) <=> n > Len(name)
      BY <1>1, Zenon DEF MaskAt
    <3>2. MaskAt(rule, name, i, n, z) \in BOOLEAN /\ (n > Len(name)) \in BOOLEAN
      <4>1. MaskAt(rule, name, i, n, z) \in BOOLEAN
        BY Zenon DEF MaskAt
      <4> QED
        BY <4>1
    <3>3. \A a, b \in BOOLEAN : (a <=> b) => a = b
      OBVIOUS
    <3> QED
      BY <3>1, <3>2, <3>3, Zenon
  <2> QED
    BY <2>1
<1>3. ASSUME NEW n \in 1 .. Len(name) + 1
      PROVE  WildAt(rule, name, i, n, x) = (n > Len(name)) /\ WildAt(rule, name, i, n, y) = (n > Len(name))
  <2> HIDE DEF i
  <2>1. ASSUME NEW z PROVE WildAt(rule, name, i, n, z) = (n > Len(name))
    <3>1. WildAt(rule, name, i, n, z) <=> n > Len(name)
      BY <1>1, Zenon DEF WildAt
    <3>2. WildAt(rule, name, i, n, z) \in BOOLEAN /\ (n > Len(name)) \in BOOLEAN
      <4>1. WildAt(rule, name, i, n, z) \in BOOLEAN
        BY Zenon DEF WildAt
      <4> QED
        BY <4>1
    <3>3. \A a, b \in BOOLEAN : (a <=> b) => a = b
      OBVIOUS
    <3> QED
      BY <3>1, <3>2, <3>3, Zenon
  <2> QED
    BY <2>1
<1> HIDE DEF i
<1>4. ASSUME NEW z, z \in {x, y}
      PROVE  Row(code, rule, name, i, z) = [n \in 1 .. Len(name) + 1 |-> n > Len(name)]
  <2>1. CASE code
    <3>1. Row(code, rule, name, i, z) = [n \in 1 .. Len(name) + 1 |-> MaskAt(rule, name, i, n, z)]
      BY <2>1, Zenon DEF Row
    <3>2. \A n \in 1 .. Len(name) + 1 : MaskAt(rule, name, i, n, z) = (n > Len(name))
      BY <1>2, <1>4
    <3> QED
      BY <3>1, <3>2, Zenon
  <2>2. CASE ~code
    <3>1. Row(code, rule, name, i, z) = [n \in 1 .. Len(name) + 1 |-> WildAt(rule, name, i, n, z)]
      BY <2>2, Zenon DEF Row
    <3>2. \A n \in 1 .. Len(name) + 1 : WildAt(rule, name, i, n, z) = (n > Len(name))
      BY <1>3, <1>4
    <3> QED
      BY <3>1, <3>2, Zenon
  <2> QED
    BY <2>1, <2>2
<1> QED
  BY <1>4 DEF i

\* The tables of both matches exist.
LEMMA TableExists ==
  ASSUME NEW code \in BOOLEAN, NEW rule, Len(rule) \in Nat, NEW name, Len(name) \in Nat
  PROVE  \E f : IsMatchTable(f, code, rule, name, 1)
<1> DEFINE N == Len(rule) + 1
           R(i, next) == Row(code, rule, name, i, next)
           I == {m \in Nat : m < N => \E f : f = [i \in N - m .. N |-> R(i, f[i + 1])]}
<1>1. N \in Nat \ {0} /\ \A x, y : R(N, x) = R(N, y)
  BY LastRow
<1> HIDE DEF N, R
<1>2. 0 \in I
  <2> DEFINE f == [i \in N - 0 .. N |-> R(N, 0)]
  <2>1. f = [i \in N - 0 .. N |-> R(i, f[i + 1])]
    <3>1. \A i \in N - 0 .. N : i = N
      BY <1>1
    <3>2. \A i \in N - 0 .. N : R(N, 0) = R(i, f[i + 1])
      BY <1>1, <3>1
    <3> QED
      BY <3>2
  <2> QED
    BY <2>1
<1>3. ASSUME NEW m \in Nat, m \in I PROVE m + 1 \in I
  <2> SUFFICES ASSUME m + 1 < N PROVE \E f : f = [i \in N - (m + 1) .. N |-> R(i, f[i + 1])]
    OBVIOUS
  <2>1. PICK f : f = [i \in N - m .. N |-> R(i, f[i + 1])]
    BY <1>1, <1>3
  <2> DEFINE a == N - (m + 1)
             new == R(a, f[a + 1])
             h == [i \in a .. N |-> IF i = a THEN new ELSE f[i]]
  <2>2. a \in Nat /\ a < N /\ a + 1 = N - m /\ N \in Nat
    BY <1>1
  <2>3. f = [i \in a + 1 .. N |-> R(i, f[i + 1])]
    BY <2>1, <2>2
  <2> HIDE DEF a
  <2>4. ASSUME NEW i \in a .. N PROVE h[i] = R(i, h[i + 1])
    <3>1. CASE i = a
      <4>1. h[i] = new /\ i + 1 \in a .. N /\ i + 1 # a
        BY <2>2, <3>1
      <4>2. h[i + 1] = f[i + 1]
        BY <4>1
      <4> HIDE DEF h
      <4> QED
        BY <3>1, <4>1, <4>2
    <3>2. CASE i # a /\ i # N
      <4>1. i \in a + 1 .. N /\ h[i] = f[i] /\ i + 1 \in a .. N /\ i + 1 # a
        BY <2>2, <3>2
      <4>2. h[i + 1] = f[i + 1]
        BY <4>1
      <4>3. f[i] = R(i, f[i + 1])
        BY <2>3, <4>1
      <4> HIDE DEF h
      <4> QED
        BY <4>1, <4>2, <4>3
    <3>3. CASE i = N
      <4>1. i \in a + 1 .. N /\ h[i] = f[i]
        BY <2>2, <3>3
      <4>2. f[i] = R(i, f[i + 1])
        BY <2>3, <4>1
      <4>3. R(i, f[i + 1]) = R(i, h[i + 1])
        BY <1>1, <3>3
      <4> HIDE DEF h
      <4> QED
        BY <4>1, <4>2, <4>3
    <3> QED
      BY <3>1, <3>2, <3>3
  <2>5. h = [i \in a .. N |-> R(i, h[i + 1])]
    BY <2>4
  <2> HIDE DEF h
  <2> QED
    BY <2>5 DEF a
<1>4. N - 1 \in I
  <2> HIDE DEF I
  <2> QED
    BY <1>1, <1>2, <1>3, NatSetInduction
<1>5. PICK f : f = [i \in N - (N - 1) .. N |-> R(i, f[i + 1])]
  BY <1>1, <1>4
<1>6. N - (N - 1) = 1
  BY <1>1
<1>7. f = [i \in 1 .. N |-> R(i, f[i + 1])]
  BY <1>5, <1>6
<1> QED
  BY <1>7 DEF IsMatchTable, N, R
IsMatchMask(f, rule, name) ==
    /\ MatchMask(rule, name) = f[1][1]
    /\ \A i \in 1 .. Len(rule) + 1 : \A n \in 1 .. Len(name) + 1 : f[i][n] = MaskAt(rule, name, i, n, f[i + 1])
IsWildcard(f, rule, name) ==
    /\ Wildcard(rule, name) = f[1][1]
    /\ \A i \in 1 .. Len(rule) + 1 : \A n \in 1 .. Len(name) + 1 : f[i][n] = WildAt(rule, name, i, n, f[i + 1])

\* What the two matches compute, from behind the end of the rule on.
LEMMA CodeTable ==
  ASSUME NEW rule, Len(rule) \in Nat, NEW name, Len(name) \in Nat
  PROVE  \E f : IsMatchMask(f, rule, name)
<1> DEFINE G(f) == f = [i \in 1 .. Len(rule) + 1 |-> [n \in 1 .. Len(name) + 1 |-> MaskAt(rule, name, i, n, f[i + 1])]]
<1>1. \E f : G(f)
  <2>1. PICK f : IsMatchTable(f, TRUE, rule, name, 1)
    BY TableExists
  <2> DEFINE Cells(i, next) == [n \in 1 .. Len(name) + 1 |-> MaskAt(rule, name, i, n, next)]
             E(i) == Cells(i, f[i + 1])
  <2>2. \A i, next : Row(TRUE, rule, name, i, next) = Cells(i, next)
    BY Zenon DEF Row
  <2> HIDE DEF Cells
  <2>3. f = [i \in 1 .. Len(rule) + 1 |-> Row(TRUE, rule, name, i, f[i + 1])]
    BY <2>1 DEF IsMatchTable
  <2>4. ASSUME NEW i \in 1 .. Len(rule) + 1 PROVE f[i] = E(i)
    <3>1. f[i] = Row(TRUE, rule, name, i, f[i + 1])
      BY <2>3, Zenon
    <3> QED
      BY <2>2, <3>1, Zenon
  <2>5. f = [i \in 1 .. Len(rule) + 1 |-> E(i)]
    <3> HIDE DEF E
    <3> QED
      BY <2>3, <2>4
  <2>6. G(f)
    BY <2>5 DEF Cells
  <2> QED
    BY <2>6
<1> DEFINE f == CHOOSE f : G(f)
<1>2. G(f)
  <2> HIDE DEF G
  <2> QED
    BY <1>1
<1>3. MatchMask(rule, name) = f[1][1]
  BY DEF MatchMask, MaskAt
<1> HIDE DEF f
<1>4. \A i \in 1 .. Len(rule) + 1 : f[i] = [n \in 1 .. Len(name) + 1 |-> MaskAt(rule, name, i, n, f[i + 1])]
  BY <1>2, Zenon
<1>5. \A i \in 1 .. Len(rule) + 1, n \in 1 .. Len(name) + 1 : f[i][n] = MaskAt(rule, name, i, n, f[i + 1])
  BY <1>4, Zenon
<1> QED
  BY <1>3, <1>5 DEF IsMatchMask

\* So does what the wildcards of the manual match.
LEMMA WildTable ==
  ASSUME NEW rule, Len(rule) \in Nat, NEW name, Len(name) \in Nat
  PROVE  \E f : IsWildcard(f, rule, name)
<1> DEFINE G(f) == f = [i \in 1 .. Len(rule) + 1 |-> [n \in 1 .. Len(name) + 1 |-> WildAt(rule, name, i, n, f[i + 1])]]
<1>1. \E f : G(f)
  <2>1. PICK f : IsMatchTable(f, FALSE, rule, name, 1)
    BY TableExists
  <2> DEFINE Cells(i, next) == [n \in 1 .. Len(name) + 1 |-> WildAt(rule, name, i, n, next)]
             E(i) == Cells(i, f[i + 1])
  <2>2. \A i, next : Row(FALSE, rule, name, i, next) = Cells(i, next)
    BY Zenon DEF Row
  <2> HIDE DEF Cells
  <2>3. f = [i \in 1 .. Len(rule) + 1 |-> Row(FALSE, rule, name, i, f[i + 1])]
    BY <2>1 DEF IsMatchTable
  <2>4. ASSUME NEW i \in 1 .. Len(rule) + 1 PROVE f[i] = E(i)
    <3>1. f[i] = Row(FALSE, rule, name, i, f[i + 1])
      BY <2>3, Zenon
    <3> QED
      BY <2>2, <3>1, Zenon
  <2>5. f = [i \in 1 .. Len(rule) + 1 |-> E(i)]
    <3> HIDE DEF E
    <3> QED
      BY <2>3, <2>4
  <2>6. G(f)
    BY <2>5 DEF Cells
  <2> QED
    BY <2>6
<1> DEFINE f == CHOOSE f : G(f)
<1>2. G(f)
  <2> HIDE DEF G
  <2> QED
    BY <1>1
<1>3. Wildcard(rule, name) = f[1][1]
  BY DEF Wildcard, WildAt
<1> HIDE DEF f
<1>4. \A i \in 1 .. Len(rule) + 1 : f[i] = [n \in 1 .. Len(name) + 1 |-> WildAt(rule, name, i, n, f[i + 1])]
  BY <1>2, Zenon
<1>5. \A i \in 1 .. Len(rule) + 1, n \in 1 .. Len(name) + 1 : f[i][n] = WildAt(rule, name, i, n, f[i + 1])
  BY <1>4, Zenon
<1> QED
  BY <1>3, <1>5 DEF IsWildcard

\* A mask matches no more than its wildcards do, and no less where each '*' can
\* end in one place only.
LEMMA MaskFacts ==
  ASSUME NEW S, NEW rule \in Seq(S), NEW name \in Seq(S)
  PROVE  /\ MatchMask(rule, name) => Wildcard(rule, name)
         /\ IsPlain(rule, name) /\ Wildcard(rule, name) => MatchMask(rule, name)
<1> DEFINE R == Len(rule)
           N == Len(name)
<1>1. R \in Nat /\ N \in Nat /\ DOMAIN name = 1 .. N
  OBVIOUS
<1>2. PICK m : IsMatchMask(m, rule, name)
  BY <1>1, CodeTable
<1>3. PICK w : IsWildcard(w, rule, name)
  BY <1>1, WildTable
<1> DEFINE Same(i, k) == Lower(rule[i]) = Lower(name[k])
           stops(i, n) == Stops(rule, name, i, n)
\* The cases of the two.
<1>4. ASSUME NEW i \in 1 .. R + 1, NEW n \in 1 .. N + 1
      PROVE  /\ i = R + 1 => (m[i][n] <=> n > N)
             /\ i = R /\ rule[i] = "*" => m[i][n]
             /\ i < R /\ rule[i] = "*" => (m[i][n] <=> stops(i, n) # {} /\ m[i + 1][Min(stops(i, n))])
             /\ i <= R /\ rule[i] # "*" => (m[i][n] <=> n <= N /\ Same(i, n) /\ m[i + 1][n + 1])
  <2>1. m[i][n] = MaskAt(rule, name, i, n, m[i + 1])
    BY <1>2 DEF IsMatchMask, R, N
  <2>2. /\ i = R + 1 => i > R /\ ~(i <= R) /\ ~(i < R)
        /\ i = R => ~(i > R) /\ i <= R /\ ~(i < R) /\ i # R + 1
        /\ i < R => ~(i > R) /\ i <= R /\ i # R
        /\ i <= R => ~(i > R)
    BY <1>1
  <2> DEFINE mi == m[i][n]
             nx == m[i + 1]
  <2> HIDE DEF mi, nx
  <2>0. mi <=> MaskAt(rule, name, i, n, nx)
    BY <2>1 DEF mi, nx
  <2>3. ASSUME i = R + 1 PROVE mi <=> n > N
    BY <2>0, <2>2, <2>3, Zenon DEF MaskAt
  <2>4. ASSUME i = R, rule[i] = "*" PROVE mi
    BY <2>0, <2>2, <2>4, Zenon DEF MaskAt
  <2>5. ASSUME i < R, rule[i] = "*" PROVE mi <=> stops(i, n) # {} /\ nx[Min(stops(i, n))]
    BY <2>0, <2>2, <2>5, Zenon DEF MaskAt
  <2>6. ASSUME i <= R, rule[i] # "*" PROVE mi <=> n <= N /\ Same(i, n) /\ nx[n + 1]
    BY <2>0, <2>2, <2>6, Zenon DEF MaskAt
  <2> QED
    BY <2>3, <2>4, <2>5, <2>6 DEF mi, nx
<1>5. ASSUME NEW i \in 1 .. R + 1, NEW n \in 1 .. N + 1
      PROVE  /\ i = R + 1 => (w[i][n] <=> n > N)
             /\ i <= R /\ rule[i] = "*" => (w[i][n] <=> \E k \in n .. N + 1 : w[i + 1][k])
             /\ i <= R /\ rule[i] # "*" => (w[i][n] <=> n <= N /\ Same(i, n) /\ w[i + 1][n + 1])
  <2>1. w[i][n] = WildAt(rule, name, i, n, w[i + 1])
    BY <1>3 DEF IsWildcard, R, N
  <2>2. /\ i = R + 1 => i > R /\ ~(i <= R)
        /\ i <= R => ~(i > R)
    BY <1>1
  <2>3. w[i][n] <=> WildAt(rule, name, i, n, w[i + 1])
    BY <2>1
  <2>4. ASSUME i = R + 1 PROVE w[i][n] <=> n > N
    BY <2>3, <2>2, <2>4, Zenon DEF WildAt
  <2>5. ASSUME i <= R, rule[i] = "*" PROVE w[i][n] <=> \E k \in n .. N + 1 : w[i + 1][k]
    BY <2>3, <2>2, <2>5, Zenon DEF WildAt
  <2>6. ASSUME i <= R, rule[i] # "*" PROVE w[i][n] <=> n <= N /\ Same(i, n) /\ w[i + 1][n + 1]
    BY <2>3, <2>2, <2>6, Zenon DEF WildAt
  <2> QED
    BY <2>4, <2>5, <2>6
<1> HIDE DEF R, N
<1>6. ASSUME NEW i \in 1 .. R, NEW n \in 1 .. N + 1, stops(i, n) # {}
      PROVE  Min(stops(i, n)) \in n .. N /\ Same(i + 1, Min(stops(i, n)))
  <2> DEFINE T == stops(i, n)
  <2>1. T = {k \in n .. N : Same(i + 1, k)}
    BY DEF Stops, N
  <2>3. T \subseteq 0 .. N /\ T # {}
    BY <1>1, <1>6, <2>1
  <2> HIDE DEF T
  <2>2. Min(T) \in T
    BY <1>1, <2>3, MinIsLeast
  <2> QED
    BY <2>1, <2>2 DEF T
<1>7. ASSUME IsPlain(rule, name), NEW i \in 1 .. R, i < R, rule[i] = "*"
      PROVE  rule[i + 1] # "*" /\ \A k, l \in 1 .. N : Same(i + 1, k) /\ Same(i + 1, l) => k = l
  <2> DEFINE T == {k \in 1 .. N : Lower(name[k]) = Lower(rule[i + 1])}
  <2>1. i \in 1 .. R - 1
    BY <1>1, <1>7
  <2>2. rule[i + 1] # "*" /\ Cardinality(T) <= 1
    BY <1>1, <1>7, <2>1 DEF IsPlain, R
  <2>3. IsFiniteSet(T)
    <3>1. IsFiniteSet(1 .. N) /\ T \subseteq 1 .. N
      BY <1>1, FS_Interval
    <3> QED
      BY <3>1, FS_Subset
  <2>4. ASSUME NEW k \in T, NEW l \in T PROVE k = l
    <3> HIDE DEF T
    <3>1. IsFiniteSet({k, l}) /\ Cardinality({k, l}) <= Cardinality(T)
      BY <2>3, FS_Subset
    <3>2. Cardinality(T) \in Nat /\ Cardinality({k, l}) \in Nat
      BY <2>3, <3>1, FS_CardinalityType
    <3>3. k # l => Cardinality({k, l}) = 2
      <4> SUFFICES ASSUME k # l PROVE Cardinality({k, l}) = 2
        OBVIOUS
      <4>1. IsFiniteSet({k}) /\ Cardinality({k}) = 1
        BY FS_Singleton
      <4>2. Cardinality({k} \cup {l}) = 2
        <5>1. l \notin {k}
          OBVIOUS
        <5>2. Cardinality({k} \cup {l}) = Cardinality({k}) + 1
          BY <4>1, <5>1, FS_AddElement, Zenon
        <5>3. \A c : c = 1 => c + 1 = 2
          OBVIOUS
        <5> QED
          BY <4>1, <5>2, <5>3, Zenon
      <4>3. {k} \cup {l} = {k, l}
        OBVIOUS
      <4> QED
        BY <4>2, <4>3
    <3> QED
      BY <2>2, <3>1, <3>2, <3>3
  <2> QED
    BY <2>2, <2>4
<1> DEFINE P(i) == \A n \in 1 .. N + 1 : /\ m[i][n] => w[i][n]
                                         /\ IsPlain(rule, name) /\ w[i][n] => m[i][n]
           I == {k \in Nat : k <= R => P(R + 1 - k)}
<1>8. 0 \in I
  <2>1. R + 1 - 0 = R + 1 /\ R + 1 \in 1 .. R + 1
    BY <1>1
  <2> QED
    BY <1>4, <1>5, <2>1
<1>9. ASSUME NEW k \in Nat, k \in I PROVE k + 1 \in I
  <2> SUFFICES ASSUME k + 1 <= R PROVE P(R + 1 - (k + 1))
    OBVIOUS
  <2> DEFINE i == R - k
  <2>1. i \in 1 .. R /\ i + 1 = R + 1 - k /\ R + 1 - (k + 1) = i /\ i <= R /\ i \in 1 .. R + 1
        /\ (i < R \/ (i = R /\ i + 1 = R + 1)) /\ i + 1 \in 1 .. R + 1 /\ (i < R => i + 1 <= R)
    BY <1>1
  <2>2. P(i + 1)
    BY <1>1, <1>9, <2>1
  <2> HIDE DEF i
  <2>3. ASSUME NEW n \in 1 .. N + 1 PROVE m[i][n] => w[i][n]
    <3>1. CASE rule[i] # "*"
      <4>1. n <= N => n + 1 \in 1 .. N + 1
        BY <1>1
      <4> QED
        BY <1>4, <1>5, <2>1, <2>2, <3>1, <4>1
    <3>2. CASE rule[i] = "*" /\ i = R
      <4>1. N + 1 \in n .. N + 1 /\ N + 1 > N /\ N + 1 \in 1 .. N + 1
        BY <1>1
      <4>2. w[i + 1][N + 1]
        BY <1>5, <2>1, <3>2, <4>1
      <4> QED
        BY <1>5, <2>1, <3>2, <4>1, <4>2
    <3>3. CASE rule[i] = "*" /\ i < R
      <4> SUFFICES ASSUME m[i][n] PROVE w[i][n]
        OBVIOUS
      <4> DEFINE s == Min(stops(i, n))
      <4>1. stops(i, n) # {} /\ m[i + 1][s]
        BY <1>4, <2>1, <3>3
      <4>2. s \in n .. N
        BY <1>6, <2>1, <4>1
      <4> HIDE DEF s
      <4>3. s \in n .. N + 1 /\ s \in 1 .. N + 1
        BY <1>1, <4>2
      <4> QED
        BY <1>5, <2>1, <2>2, <3>3, <4>1, <4>3
    <3> QED
      BY <2>1, <3>1, <3>2, <3>3
  <2>4. ASSUME IsPlain(rule, name), NEW n \in 1 .. N + 1, w[i][n] PROVE m[i][n]
    <3>1. CASE rule[i] # "*"
      <4>1. n <= N => n + 1 \in 1 .. N + 1
        BY <1>1
      <4> QED
        BY <1>4, <1>5, <2>1, <2>2, <2>4, <3>1, <4>1
    <3>2. CASE rule[i] = "*" /\ i = R
      BY <1>4, <2>1, <3>2
    <3>3. CASE rule[i] = "*" /\ i < R
      <4>1. PICK l \in n .. N + 1 : w[i + 1][l]
        BY <1>5, <2>1, <2>4, <3>3
      <4>2. rule[i + 1] # "*" /\ \A a, b \in 1 .. N : Same(i + 1, a) /\ Same(i + 1, b) => a = b
        BY <1>7, <2>1, <2>4, <3>3
      <4>3. l <= N /\ Same(i + 1, l) /\ l \in 1 .. N + 1
        <5>1. l \in 1 .. N + 1
          BY <1>1
        <5> QED
          BY <1>5, <2>1, <3>3, <4>1, <4>2, <5>1
      <4>4. l \in stops(i, n) /\ l \in 1 .. N
        BY <1>1, <4>3 DEF Stops, N
      <4> DEFINE s == Min(stops(i, n))
      <4>5. s \in n .. N /\ Same(i + 1, s)
        BY <1>6, <2>1, <4>4
      <4>6. s \in 1 .. N
        <5> HIDE DEF s
        <5> QED
          BY <1>1, <4>5
      <4>7. s = l
        <5> HIDE DEF s
        <5> QED
          BY <4>2, <4>3, <4>4, <4>5, <4>6
      <4>8. m[i + 1][s]
        <5> HIDE DEF s
        <5> QED
          BY <2>2, <2>4, <4>1, <4>3, <4>7
      <4> QED
        BY <1>4, <2>1, <3>3, <4>4, <4>8
    <3> QED
      BY <2>1, <3>1, <3>2, <3>3
  <2> QED
    BY <2>1, <2>3, <2>4
<1>10. P(1)
  <2>1. R \in I
    <3> HIDE DEF I
    <3> QED
      BY <1>1, <1>8, <1>9, NatSetInduction
  <2>2. R + 1 - R = 1
    BY <1>1
  <2> QED
    BY <1>1, <2>1, <2>2
<1> QED
  BY <1>1, <1>2, <1>3, <1>10 DEF IsMatchMask, IsWildcard

-----------------------------------------------------------------------------
(***************************************************************************)
(* Texts.                                                                   *)
(***************************************************************************)
IsSplit(f, text, c) ==
    f = [i \in 0 .. Len(text) |->
            IF i = 0 THEN << <<>> >>
            ELSE IF text[i] = c THEN Append(f[i - 1], <<>>)
                 ELSE [f[i - 1] EXCEPT ![Len(f[i - 1])] = Append(@, text[i])]]

\* One more character in the last piece.
LEMMA LastPiece ==
  ASSUME NEW S, NEW p \in Seq(Seq(S)), p # <<>>, NEW u \in Seq(S)
  PROVE  /\ [p EXCEPT ![Len(p)] = @ \o u] \in Seq(Seq(S)) \ {<<>>}
         /\ Len([p EXCEPT ![Len(p)] = @ \o u]) = Len(p)
         /\ \A i \in 1 .. Len(p) : [p EXCEPT ![Len(p)] = @ \o u][i] = IF i = Len(p) THEN p[i] \o u ELSE p[i]
<1> DEFINE n == Len(p)
           new == p[n] \o u
           q == [p EXCEPT ![n] = new]
<1>1. n \in Nat \ {0} /\ DOMAIN p = 1 .. n /\ p[n] \in Seq(S) /\ \A i \in 1 .. n : p[i] \in Seq(S)
  BY EmptySeq
<1>2. new \in Seq(S)
  BY <1>1, ConcatFacts
<1> HIDE DEF n, new
<1>3. q = [i \in 1 .. n |-> IF i = n THEN new ELSE p[i]]
  BY <1>1
<1>4. q \in Seq(Seq(S)) /\ Len(q) = n /\ DOMAIN q = 1 .. n
  BY <1>1, <1>2, <1>3
<1>5. q # <<>>
  BY <1>1, <1>4
<1> QED
  BY <1>1, <1>3, <1>4, <1>5 DEF n, new

\* Split() is defined for every text, and has a piece to begin with.
LEMMA SplitExists ==
  ASSUME NEW S, NEW text \in Seq(S), NEW c
  PROVE  \E f \in [0 .. Len(text) -> Seq(Seq(S)) \ {<<>>}] : IsSplit(f, text, c)
<1> DEFINE n == Len(text)
           T == Seq(Seq(S)) \ {<<>>}
           Step(k, p) == IF text[k] = c THEN Append(p, <<>>) ELSE [p EXCEPT ![Len(p)] = Append(@, text[k])]
           F == [k \in 1 .. n |-> [p \in T |-> Step(k, p)]]
           x == << <<>> >>
<1>1. n \in Nat /\ \A k \in 1 .. n : text[k] \in S
  OBVIOUS
<1>2. x \in T
  BY EmptySeq
<1>3. ASSUME NEW k \in 1 .. n, NEW p \in T PROVE Step(k, p) \in T
  <2>1. Append(p, <<>>) \in T
    BY EmptySeq
  <2>2. [p EXCEPT ![Len(p)] = Append(@, text[k])] \in T
    <3> DEFINE m == Len(p)
               new == Append(p[m], text[k])
               q == [p EXCEPT ![m] = new]
    <3>1. m \in Nat \ {0} /\ DOMAIN p = 1 .. m /\ \A i \in 1 .. m : p[i] \in Seq(S)
      BY EmptySeq
    <3>2. new \in Seq(S)
      BY <1>1, <3>1
    <3> HIDE DEF new, m
    <3>3. q = [i \in 1 .. m |-> IF i = m THEN new ELSE p[i]]
      BY <3>1
    <3>4. q \in Seq(Seq(S)) /\ Len(q) = m
      BY <3>1, <3>2, <3>3
    <3>5. q # <<>>
      BY <3>1, <3>4 DEF m
    <3> QED
      BY <3>4, <3>5 DEF new, m
  <2> QED
    BY <2>1, <2>2
<1> HIDE DEF T, x, Step
<1>4. F \in [1 .. n -> [T -> T]]
  BY <1>3
<1> HIDE DEF F
<1>5. PICK f \in [0 .. n -> T] : Follows(f, x, n, F)
  BY <1>1, <1>2, <1>4, RecursionExists
<1>6. ASSUME NEW i \in 0 .. n PROVE f[i] = IF i = 0 THEN x ELSE Step(i, f[i - 1])
  <2>1. CASE i = 0
    BY <1>5, <2>1 DEF Follows
  <2>2. CASE i # 0
    <3>1. i \in 1 .. n /\ i - 1 \in 0 .. n
      BY <1>1, <2>2
    <3>2. f[i] = F[i][f[i - 1]] /\ f[i - 1] \in T
      BY <1>5, <3>1 DEF Follows
    <3>3. f[i] = Step(i, f[i - 1])
      BY <3>1, <3>2 DEF F
    <3> QED
      BY <2>2, <3>3
  <2> QED
    BY <2>1, <2>2
<1>7. f = [i \in 0 .. n |-> IF i = 0 THEN x ELSE Step(i, f[i - 1])]
  BY <1>5, <1>6
<1>8. IsSplit(f, text, c)
  BY <1>7 DEF IsSplit, Step, x, n
<1> QED
  BY <1>8 DEF T, n

\* What a character makes of the pieces before it.
Longer(pieces, x, c) ==
    IF x = c THEN Append(pieces, <<>>) ELSE [pieces EXCEPT ![Len(pieces)] = Append(@, x)]
IsPieces(f, text, c, S) ==
    /\ Split(text, c) = f[Len(text)] /\ f[0] = << <<>> >>
    /\ \A i \in 0 .. Len(text) : f[i] \in Seq(Seq(S)) \ {<<>>}
    /\ \A i \in 1 .. Len(text) : f[i] = Longer(f[i - 1], text[i], c)

\* A text is split from left to right.
LEMMA SplitSteps ==
  ASSUME NEW S, NEW text \in Seq(S), NEW c
  PROVE  \E f : IsPieces(f, text, c, S)
<1> DEFINE n == Len(text)
           T == Seq(Seq(S)) \ {<<>>}
           Step(k, p) == IF text[k] = c THEN Append(p, <<>>) ELSE [p EXCEPT ![Len(p)] = Append(@, text[k])]
           x == << <<>> >>
           G(f) == f = [i \in 0 .. n |-> IF i = 0 THEN x ELSE Step(i, f[i - 1])]
           f == CHOOSE f : G(f)
<1>1. n \in Nat
  OBVIOUS
<1>2. Split(text, c) = f[n]
  BY DEF Split
<1>3. PICK g \in [0 .. n -> T] : IsSplit(g, text, c)
  BY SplitExists
<1>4. G(g)
  BY <1>3 DEF IsSplit
<1>5. G(f)
  <2> HIDE DEF G
  <2> QED
    BY <1>4
<1> HIDE DEF f, n, x, Step, T
<1>6. f[0] = x /\ \A i \in 1 .. n : f[i] = Step(i, f[i - 1])
  BY <1>1, <1>5
<1>7. g[0] = x /\ \A i \in 1 .. n : g[i] = Step(i, g[i - 1])
  BY <1>1, <1>4
<1> HIDE DEF G
<1> DEFINE I == {i \in Nat : i <= n => f[i] = g[i]}
<1>8. 0 \in I
  BY <1>6, <1>7
<1>9. ASSUME NEW i \in Nat, i \in I PROVE i + 1 \in I
  <2> SUFFICES ASSUME i + 1 <= n PROVE f[i + 1] = g[i + 1]
    OBVIOUS
  <2>1. i + 1 \in 1 .. n /\ (i + 1) - 1 = i /\ f[i] = g[i]
    BY <1>1, <1>9
  <2> QED
    BY <1>6, <1>7, <2>1
<1>10. \A i \in Nat : i \in I
  <2> HIDE DEF I
  <2> QED
    BY <1>8, <1>9, NatSetInduction
<1>11. \A i \in 0 .. n : f[i] \in T
  BY <1>1, <1>3, <1>10
<1>12. IsPieces(f, text, c, S)
  <2>1. \A i, p : Step(i, p) = Longer(p, text[i], c)
    BY DEF Step, Longer
  <2> HIDE DEF I
  <2> QED
    BY <1>2, <1>6, <1>11, <2>1 DEF n, T, x, IsPieces
<1> HIDE DEF I
<1> QED
  BY <1>12
\* One more character.
LEMMA SplitAppend ==
  ASSUME NEW S, NEW text \in Seq(S), NEW x \in S, NEW c
  PROVE  /\ Split(text, c) \in Seq(Seq(S)) \ {<<>>}
         /\ Split(Append(text, x), c) = Longer(Split(text, c), x, c)
<1> DEFINE n == Len(text)
           new == Append(text, x)
<1>1. /\ n \in Nat /\ Len(new) = n + 1 /\ new \in Seq(S) /\ new[n + 1] = x
      /\ \A i \in 1 .. n : new[i] = text[i]
  OBVIOUS
<1> HIDE DEF new
<1>13. PICK f : IsPieces(f, text, c, S)
  BY SplitSteps
<1>14. PICK g : IsPieces(g, new, c, S)
  BY <1>1, SplitSteps
<1>2. /\ Split(text, c) = f[n] /\ f[0] = << <<>> >>
      /\ \A i \in 0 .. n : f[i] \in Seq(Seq(S)) \ {<<>>}
      /\ \A i \in 1 .. n : f[i] = Longer(f[i - 1], text[i], c)
  BY <1>13 DEF IsPieces
<1>3. /\ Split(new, c) = g[Len(new)] /\ g[0] = << <<>> >>
      /\ \A i \in 1 .. Len(new) : g[i] = Longer(g[i - 1], new[i], c)
  BY <1>14 DEF IsPieces
<1> HIDE DEF n
<1> DEFINE I == {i \in Nat : i <= n => f[i] = g[i]}
<1>4. 0 \in I
  BY <1>2, <1>3
<1>5. ASSUME NEW i \in Nat, i \in I PROVE i + 1 \in I
  <2> SUFFICES ASSUME i + 1 <= n PROVE f[i + 1] = g[i + 1]
    OBVIOUS
  <2>1. i + 1 \in 1 .. n /\ i + 1 \in 1 .. Len(new) /\ (i + 1) - 1 = i /\ f[i] = g[i]
    BY <1>1, <1>5
  <2> QED
    BY <1>1, <1>2, <1>3, <2>1
<1>6. f[n] = g[n]
  <2> HIDE DEF I
  <2>1. n \in I
    BY <1>1, <1>4, <1>5, NatSetInduction
  <2> QED
    BY <1>1, <2>1 DEF I
<1>7. n + 1 \in 1 .. Len(new) /\ (n + 1) - 1 = n /\ n \in 0 .. n
  BY <1>1
<1>8. Split(new, c) = Longer(Split(text, c), x, c) /\ Split(text, c) \in Seq(Seq(S)) \ {<<>>}
  BY <1>1, <1>2, <1>3, <1>6, <1>7
<1> QED
  BY <1>8 DEF new

\* A character behind two texts, and one between them.
LEMMA ConcatAppend ==
  ASSUME NEW S, NEW a \in Seq(S), NEW b \in Seq(S), NEW x \in S
  PROVE  /\ a \o b \in Seq(S)
         /\ a \o Append(b, x) = Append(a \o b, x)
         /\ a \o (<<x>> \o b) = Append(a, x) \o b
<1>1. /\ a \o b \in Seq(S) /\ <<x>> \in Seq(S)
      /\ Append(b, x) = b \o <<x>> /\ Append(a \o b, x) = (a \o b) \o <<x>> /\ Append(a, x) = a \o <<x>>
  BY ConcatProperties, AppendIsConcat
<1>2. a \o (b \o <<x>>) = (a \o b) \o <<x>> /\ a \o (<<x>> \o b) = (a \o <<x>>) \o b
  BY ONLY <1>1, ConcatAssociative, a \in Seq(S), b \in Seq(S)
<1> QED
  BY ONLY <1>1, <1>2

\* What has no c in it goes to the last piece.
LEMMA SplitPlain ==
  ASSUME NEW S, NEW text \in Seq(S), NEW u \in Seq(S), NEW c, c \notin Range(u)
  PROVE  Split(text \o u, c) = [Split(text, c) EXCEPT ![Len(Split(text, c))] = @ \o u]
<1> DEFINE n == Len(u)
           p == Split(text, c)
           m == Len(p)
           part(k) == SubSeq(u, 1, k)
           q(k) == [p EXCEPT ![m] = @ \o part(k)]
           P(k) == Split(text \o part(k), c) = q(k)
           I == {k \in Nat : k <= n => P(k)}
<1>1. n \in Nat /\ \A k \in 1 .. n : u[k] \in S /\ u[k] # c
  BY DEF Range
<1>2. part(0) = <<>> /\ part(n) = u /\ \A k \in 0 .. n : part(k) \in Seq(S) /\ Len(part(k)) = k
  OBVIOUS
<1>3. \A k \in Nat : k + 1 <= n => part(k + 1) = Append(part(k), u[k + 1])
  OBVIOUS
<1>4. p \in Seq(Seq(S)) \ {<<>>}
  <2>1. CASE u = <<>>
    <3>1. PICK f : IsPieces(f, text, c, S)
      BY SplitSteps
    <3> QED
      BY <3>1 DEF IsPieces
  <2>2. CASE u # <<>>
    <3>1. u[1] \in S
      BY <1>1, <2>2
    <3> QED
      BY <3>1, SplitAppend
  <2> QED
    BY <2>1, <2>2
<1> HIDE DEF n, p, part
<1>5. m \in Nat \ {0} /\ DOMAIN p = 1 .. m /\ p[m] \in Seq(S)
  BY <1>4, EmptySeq
<1>6. \A t \in Seq(S) : t \o <<>> = t
  OBVIOUS
<1>7. 0 \in I
  <2>1. text \o part(0) = text /\ p[m] \o part(0) = p[m]
    BY <1>2, <1>5, <1>6
  <2>2. q(0) = p
    <3> HIDE DEF m
    <3>1. q(0) = [p EXCEPT ![m] = p[m]]
      BY <2>1
    <3> QED
      BY <1>4, <1>5, <3>1
  <2> QED
    BY <2>1, <2>2 DEF p
<1>8. ASSUME NEW k \in Nat, k \in I PROVE k + 1 \in I
  <2> SUFFICES ASSUME k + 1 <= n PROVE P(k + 1)
    <3> HIDE DEF P
    <3> QED
      OBVIOUS
  <2>1. P(k) /\ k \in 0 .. n /\ k + 1 \in 1 .. n
    <3> HIDE DEF P
    <3> QED
      BY <1>1, <1>8
  <2> DEFINE t == text \o part(k)
             x == u[k + 1]
             last == p[m] \o part(k)
             r == q(k)
  <2>12. part(k) \in Seq(S) /\ x \in S /\ x # c /\ part(k + 1) = Append(part(k), x)
    BY <1>1, <1>2, <1>3, <2>1
  <2>2. t \in Seq(S) /\ text \o part(k + 1) = Append(t, x)
    <3> HIDE DEF x
    <3>1. text \o part(k) \in Seq(S) /\ text \o Append(part(k), x) = Append(text \o part(k), x)
      BY <2>12, ConcatAppend
    <3> QED
      BY <2>12, <3>1, Zenon
  <2>3. last \in Seq(S) /\ p[m] \o part(k + 1) = Append(last, x)
    <3> HIDE DEF x
    <3> DEFINE old == p[m]
    <3>1. old \in Seq(S)
      BY <1>5
    <3> HIDE DEF old
    <3>2. old \o part(k) \in Seq(S) /\ old \o Append(part(k), x) = Append(old \o part(k), x)
      BY <2>12, <3>1, ConcatAppend
    <3> QED
      BY <2>12, <3>2, Zenon DEF old
  <2>4. Split(t, c) = r
    BY <2>1
  <2>5. r \in Seq(Seq(S)) /\ Len(r) = m /\ r[m] = last /\ DOMAIN r = 1 .. m
    <3>1. r \in Seq(Seq(S)) /\ Len(r) = m /\ \A i \in 1 .. m : r[i] = IF i = m THEN p[i] \o part(k) ELSE p[i]
      BY <1>4, <2>12, LastPiece
    <3> HIDE DEF r, m
    <3> QED
      BY <1>5, <3>1
  <2> HIDE DEF t, x
  <2>6. Split(Append(t, x), c) = [r EXCEPT ![m] = Append(@, x)]
    <3>1. Split(Append(t, x), c) = [Split(t, c) EXCEPT ![Len(Split(t, c))] = Append(@, x)]
      BY <2>12, <2>2, SplitAppend DEF Longer
    <3> HIDE DEF r
    <3> QED
      BY <2>4, <2>5, <3>1
  <2>7. [r EXCEPT ![m] = Append(@, x)] = [p EXCEPT ![m] = Append(last, x)]
    <3> HIDE DEF last
    <3> QED
      BY <2>5 DEF last
  <2> QED
    BY <2>2, <2>3, <2>6, <2>7
<1>9. n \in I
  <2> HIDE DEF I
  <2> QED
    BY <1>1, <1>7, <1>8, NatSetInduction
<1> QED
  BY <1>1, <1>2, <1>9 DEF p

\* The first so many members of a list.
LEMMA FrontFacts ==
  ASSUME NEW T, NEW s \in Seq(T), s # <<>>
  PROVE  /\ SubSeq(s, 1, 1) = <<s[1]>> /\ SubSeq(s, 1, Len(s)) = s
         /\ \A k \in 1 .. Len(s) : SubSeq(s, 1, k) \in Seq(T) \ {<<>>} /\ Len(SubSeq(s, 1, k)) = k
         /\ \A k \in Nat \ {0} : k + 1 <= Len(s) => SubSeq(s, 1, k + 1) = Append(SubSeq(s, 1, k), s[k + 1])
<1>1. Len(s) \in Nat \ {0} /\ 1 \in 1 .. Len(s) /\ s[1] \in T
  OBVIOUS
<1>2. SubSeq(s, 1, 1) = <<s[1]>>
  <2> DEFINE a == SubSeq(s, 1, 1)
             b == <<s[1]>>
  <2>1. a \in Seq(T) /\ Len(a) = 1 /\ a[1] = s[1]
    BY <1>1
  <2>2. b \in Seq(T) /\ Len(b) = 1 /\ b[1] = s[1]
    BY <1>1
  <2> HIDE DEF a, b
  <2>3. \A i \in 1 .. Len(a) : a[i] = b[i]
    BY <2>1, <2>2
  <2>4. a = b
    BY <2>1, <2>2, <2>3, SeqEqual
  <2> QED
    BY <2>4 DEF a, b
<1>3. SubSeq(s, 1, Len(s)) = s
  OBVIOUS
<1>4. ASSUME NEW k \in 1 .. Len(s) PROVE SubSeq(s, 1, k) \in Seq(T) \ {<<>>} /\ Len(SubSeq(s, 1, k)) = k
  <2>1. SubSeq(s, 1, k) \in Seq(T) /\ Len(SubSeq(s, 1, k)) = k
    BY <1>1
  <2> QED
    BY <2>1
<1>5. ASSUME NEW k \in Nat \ {0}, k + 1 <= Len(s)
      PROVE  SubSeq(s, 1, k + 1) = Append(SubSeq(s, 1, k), s[k + 1])
  BY <1>5
<1> QED
  BY <1>2, <1>3, <1>4, <1>5

\* A text that goes to an empty last piece.
LEMMA LastFilled ==
  ASSUME NEW S, NEW p \in Seq(Seq(S)), NEW b \in Seq(S)
  PROVE  [Append(p, <<>>) EXCEPT ![Len(p) + 1] = @ \o b] = Append(p, b)
<1> DEFINE m == Len(p) + 1
           q == Append(p, <<>>)
           u == q[m] \o b
           r == [q EXCEPT ![m] = u]
           t == Append(p, b)
<1>1. /\ q \in Seq(Seq(S)) /\ Len(q) = m /\ m \in 1 .. m /\ m \in Nat
      /\ q[m] = <<>> /\ \A j \in 1 .. m : j # m => q[j] = p[j]
  BY EmptySeq
<1>2. u = b
  <2>1. <<>> \o b = b
    BY ConcatEmptySeq
  <2> HIDE DEF q, m
  <2> QED
    BY <1>1, <2>1
<1>3. t \in Seq(Seq(S)) /\ Len(t) = m /\ t[m] = b /\ \A j \in 1 .. m : j # m => t[j] = p[j]
  OBVIOUS
<1> HIDE DEF q, m, u, t
<1>4. r \in Seq(Seq(S)) /\ Len(r) = m /\ \A j \in 1 .. m : r[j] = IF j = m THEN u ELSE q[j]
  BY <1>1, <1>2, ExceptSeq
<1> HIDE DEF r
<1>5. r = t
  <2>1. \A j \in 1 .. Len(r) : r[j] = t[j]
    BY <1>1, <1>2, <1>3, <1>4
  <2> DEFINE T == Seq(S)
  <2>2. r \in Seq(T) /\ t \in Seq(T) /\ Len(r) = Len(t)
    BY <1>3, <1>4
  <2> HIDE DEF T
  <2> QED
    BY <2>1, <2>2, SeqEqual
<1>6. r = [q EXCEPT ![m] = @ \o b]
  BY DEF r, u
<1> QED
  BY <1>5, <1>6 DEF q, m, t

\* Texts are joined from the first on.
IsJoined(g, texts, c, S) ==
    /\ Joined(texts, c) = g[Len(texts)] /\ g[1] = texts[1]
    /\ \A i \in 1 .. Len(texts) : g[i] \in Seq(S)
    /\ \A i \in 2 .. Len(texts) : g[i] = Append(g[i - 1], c) \o texts[i]
\* Texts can be joined one after the other.
LEMMA JoinedSteps ==
  ASSUME NEW S, NEW c \in S, NEW texts \in Seq(Seq(S)), texts # <<>>
  PROVE  \E g : IsJoined(g, texts, c, S)
<1> DEFINE n == Len(texts)
           Put(i) == IF i = 1 THEN texts[i] ELSE <<c>> \o texts[i]
           ss == [i \in DOMAIN texts |-> Put(i)]
<1>1. n \in Nat \ {0} /\ DOMAIN texts = 1 .. n /\ \A i \in 1 .. n : texts[i] \in Seq(S)
  BY EmptySeq
<1>2. ASSUME NEW i \in 1 .. n PROVE Put(i) \in Seq(S)
  <2>1. <<c>> \in Seq(S)
    OBVIOUS
  <2> HIDE DEF n
  <2>2. <<c>> \o texts[i] \in Seq(S)
    BY <1>1, <2>1, ConcatFacts
  <2> QED
    BY <1>1, <2>2
<1>3. Joined(texts, c) = FlattenSeq(ss)
  BY DEF Joined
<1> HIDE DEF n
<1>4. ss = [i \in 1 .. n |-> Put(i)]
  BY <1>1
<1> HIDE DEF Put
<1>5. ss \in Seq(Seq(S)) /\ Len(ss) = n /\ \A i \in 1 .. n : ss[i] = Put(i)
  BY <1>1, <1>2, <1>4
<1> HIDE DEF ss
<1>6. PICK g : /\ FlattenSeq(ss) = g[Len(ss)]
               /\ \A i \in 1 .. Len(ss) : g[i] = IF i = 1 THEN ss[i] ELSE g[i - 1] \o ss[i]
  BY <1>1, <1>5, FlattenSteps
<1> DEFINE P(i) == g[i] \in Seq(S) /\ (i # 1 => g[i] = Append(g[i - 1], c) \o texts[i])
           I == {k \in Nat : k + 1 <= n => P(k + 1)}
<1>7. g[1] = texts[1]
  <2>1. Len(ss) = n /\ 1 \in 1 .. n
    BY ONLY <1>1, <1>5
  <2>2. ss[1] = Put(1)
    BY ONLY <1>5, <2>1
  <2>3. g[1] = ss[1]
    BY ONLY <1>6, <2>1
  <2>4. Put(1) = texts[1]
    BY DEF Put
  <2> QED
    BY ONLY <2>2, <2>3, <2>4
<1>8. 0 \in I
  BY <1>1, <1>7
<1>9. ASSUME NEW k \in Nat, k \in I PROVE k + 1 \in I
  <2> SUFFICES ASSUME k + 1 + 1 <= n PROVE P(k + 1 + 1)
    <3> HIDE DEF P
    <3> QED
      OBVIOUS
  <2> DEFINE i == k + 1 + 1
             a == g[k + 1]
             b == texts[i]
  <2>1. i \in 1 .. n /\ i # 1 /\ i - 1 = k + 1
    BY <1>1
  <2>2. a \in Seq(S) /\ b \in Seq(S)
    <3>1. P(k + 1)
      <4> HIDE DEF P
      <4> QED
        BY <1>9, <1>1
    <3> QED
      BY <1>1, <2>1, <3>1
  <2>3. g[i] = a \o (<<c>> \o b)
    BY <1>5, <1>6, <2>1 DEF Put
  <2>4. g[i - 1] = a
    BY <2>1
  <2> HIDE DEF a, b, i
  <2>5. g[i] = Append(a, c) \o b /\ Append(a, c) \in Seq(S)
    <3>1. c \in S
      OBVIOUS
    <3>2. a \o (<<c>> \o b) = Append(a, c) \o b
      BY ONLY <2>2, <3>1, ConcatAppend
    <3>3. Append(a, c) \in Seq(S)
      BY ONLY <2>2, <3>1, AppendProperties
    <3> QED
      BY ONLY <2>3, <3>2, <3>3
  <2>6. g[i] \in Seq(S)
    BY <2>2, <2>5, ConcatAppend
  <2>7. P(i)
    BY <2>4, <2>5, <2>6 DEF b
  <2> QED
    BY <2>7 DEF i
<1>10. ASSUME NEW i \in 1 .. n PROVE P(i)
  <2>1. \A k \in Nat : k \in I
    <3> HIDE DEF I
    <3> QED
      BY <1>8, <1>9, NatSetInduction
  <2>2. i - 1 \in Nat /\ (i - 1) + 1 = i /\ i <= n
    BY <1>1
  <2>3. i - 1 \in I
    BY <2>1, <2>2
  <2>4. P((i - 1) + 1)
    <3> HIDE DEF P
    <3> QED
      BY <2>2, <2>3
  <2> QED
    BY <2>2, <2>4
<1>11. \A i \in 2 .. n : i \in 1 .. n /\ i # 1
  BY <1>1
<1>12. IsJoined(g, texts, c, S)
  BY <1>3, <1>5, <1>6, <1>7, <1>10, <1>11 DEF IsJoined, n
<1> QED
  BY <1>12

\* What is joined with c is split at c again.
LEMMA SplitJoined ==
  ASSUME NEW S, NEW c \in S, NEW texts \in Seq(Seq(S)), texts # <<>>,
         \A i \in DOMAIN texts : c \notin Range(texts[i])
  PROVE  Joined(texts, c) \in Seq(S) /\ Split(Joined(texts, c), c) = texts
<1> DEFINE n == Len(texts)
           front(k) == SubSeq(texts, 1, k)
<1>1. n \in Nat \ {0} /\ DOMAIN texts = 1 .. n /\ \A i \in 1 .. n : texts[i] \in Seq(S)
  BY EmptySeq
<1>2. PICK g : IsJoined(g, texts, c, S)
  BY JoinedSteps
<1>3. /\ Joined(texts, c) = g[n] /\ g[1] = texts[1]
      /\ \A i \in 1 .. n : g[i] \in Seq(S)
      /\ \A i \in 2 .. n : g[i] = Append(g[i - 1], c) \o texts[i]
  BY <1>2 DEF IsJoined
<1>4. /\ front(1) = <<texts[1]>> /\ front(n) = texts
      /\ \A k \in 1 .. n : front(k) \in Seq(Seq(S)) \ {<<>>} /\ Len(front(k)) = k
      /\ \A k \in Nat \ {0} : k + 1 <= n => front(k + 1) = Append(front(k), texts[k + 1])
  BY FrontFacts
<1> HIDE DEF n, front
<1> DEFINE P(k) == Split(g[k], c) = front(k)
           I == {k \in Nat : k + 1 <= n => P(k + 1)}
<1>5. 0 \in I
  <2> DEFINE t == texts[1]
  <2>1. t \in Seq(S) /\ c \notin Range(t) /\ 1 \in 1 .. n
    BY <1>1
  <2> HIDE DEF t
  <2>2. <<>> \in Seq(S) /\ <<>> \o t = t
    BY <2>1
  <2>3. Split(<<>>, c) = << <<>> >>
    <3>1. PICK f : IsPieces(f, <<>>, c, S)
      BY <2>2, SplitSteps
    <3> QED
      BY <3>1 DEF IsPieces
  <2>4. Split(t, c) = [<< <<>> >> EXCEPT ![1] = @ \o t]
    <3> DEFINE empty == <<>>
    <3>3. empty \in Seq(S)
      BY <2>2
    <3> HIDE DEF empty
    <3>1. Split(empty \o t, c) = [Split(empty, c) EXCEPT ![Len(Split(empty, c))] = @ \o t]
      BY <2>1, <3>3, SplitPlain
    <3>2. Len(<< <<>> >>) = 1
      OBVIOUS
    <3> QED
      BY <2>2, <2>3, <3>1, <3>2 DEF empty
  <2>5. [<< <<>> >> EXCEPT ![1] = @ \o t] = <<t>>
    BY <2>2
  <2> QED
    BY <1>3, <1>4, <2>4, <2>5 DEF t
<1>6. ASSUME NEW k \in Nat, k \in I PROVE k + 1 \in I
  <2> SUFFICES ASSUME k + 1 + 1 <= n PROVE P(k + 1 + 1)
    <3> HIDE DEF P
    <3> QED
      OBVIOUS
  <2> DEFINE i == k + 1
             a == g[i]
             b == texts[i + 1]
             p == front(i)
  <2>1. i \in 1 .. n /\ i + 1 \in 2 .. n /\ i + 1 \in 1 .. n /\ (i + 1) - 1 = i /\ i \in Nat \ {0}
    BY <1>1
  <2>2. a \in Seq(S) /\ b \in Seq(S) /\ c \notin Range(b) /\ g[i + 1] = Append(a, c) \o b
    BY <1>1, <1>3, <2>1
  <2>3. Split(a, c) = p /\ p \in Seq(Seq(S)) \ {<<>>} /\ Len(p) = i /\ front(i + 1) = Append(p, b)
    BY <1>4, <1>6, <2>1
  <2> HIDE DEF a, b, p, i
  <2>4. Split(Append(a, c), c) = Append(p, <<>>) /\ Append(a, c) \in Seq(S)
    BY <2>2, <2>3, SplitAppend DEF Longer
  <2>5. Len(Append(p, <<>>)) = i + 1
    BY <2>1, <2>3
  <2>6. Split(Append(a, c) \o b, c) = [Append(p, <<>>) EXCEPT ![i + 1] = @ \o b]
    <3> DEFINE ac == Append(a, c)
    <3>1. ac \in Seq(S)
      BY <2>4
    <3> HIDE DEF ac
    <3>2. Split(ac \o b, c) = [Split(ac, c) EXCEPT ![Len(Split(ac, c))] = @ \o b]
      BY <2>2, <3>1, SplitPlain
    <3> QED
      BY <2>4, <2>5, <3>2 DEF ac
  <2>7. [Append(p, <<>>) EXCEPT ![i + 1] = @ \o b] = Append(p, b)
    <3>1. p \in Seq(Seq(S)) /\ b \in Seq(S) /\ Len(p) = i
      BY <2>2, <2>3
    <3>2. [Append(p, <<>>) EXCEPT ![Len(p) + 1] = @ \o b] = Append(p, b)
      BY ONLY <3>1, LastFilled
    <3> QED
      BY ONLY <3>1, <3>2
  <2>8. P(i + 1)
    BY <2>2, <2>3, <2>6, <2>7
  <2> QED
    BY <2>8 DEF i
<1>7. P(n)
  <2>1. n - 1 \in Nat /\ (n - 1) + 1 = n
    BY <1>1
  <2>2. n - 1 \in I
    <3> HIDE DEF I
    <3> QED
      BY <1>5, <1>6, <2>1, NatSetInduction
  <2> QED
    <3> HIDE DEF P
    <3> QED
      BY <2>1, <2>2
<1>8. n \in 1 .. n
  BY <1>1
<1> QED
  BY <1>3, <1>4, <1>7, <1>8

\* Where a character is that stands in no front part.
LEMMA FirstFacts ==
  ASSUME NEW S, NEW t \in Seq(S), NEW c \in S, c \notin Range(t), NEW u \in Seq(S)
  PROVE  /\ First(t, c) = Len(t) + 1 /\ SubSeq(t, 1, Len(t)) = t
         /\ t \o <<c>> \o u \in Seq(S)
         /\ Len(t \o <<c>> \o u) = Len(t) + 1 + Len(u)
         /\ First(t \o <<c>> \o u, c) = Len(t) + 1
         /\ SubSeq(t \o <<c>> \o u, 1, Len(t)) = t
         /\ SubSeq(t \o <<c>> \o u, Len(t) + 2, Len(t \o <<c>> \o u)) = u
<1> DEFINE n == Len(t)
           w == t \o <<c>> \o u
           l == Len(w)
           At(x) == {i \in DOMAIN x : x[i] = c} \cup {Len(x) + 1}
<1>1. n \in Nat /\ Len(u) \in Nat /\ \A i \in 1 .. n : t[i] \in S /\ t[i] # c
  BY DEF Range
<1>2. /\ w \in Seq(S) /\ l = n + 1 + Len(u) /\ w[n + 1] = c
      /\ \A i \in 1 .. n : w[i] = t[i]
      /\ \A i \in 1 .. Len(u) : w[n + 1 + i] = u[i]
  <2> DEFINE v == t \o <<c>>
  <2>1. /\ v \in Seq(S) /\ Len(v) = n + 1 /\ v[n + 1] = c /\ \A i \in 1 .. n : v[i] = t[i]
    OBVIOUS
  <2> HIDE DEF v
  <2>2. /\ v \o u \in Seq(S) /\ Len(v \o u) = n + 1 + Len(u)
        /\ \A i \in 1 .. n + 1 : (v \o u)[i] = v[i]
        /\ \A i \in 1 .. Len(u) : (v \o u)[n + 1 + i] = u[i]
    <3>1. /\ v \o u \in Seq(S) /\ Len(v \o u) = Len(v) + Len(u)
          /\ \A i \in 1 .. Len(v) + Len(u) : (v \o u)[i] = IF i <= Len(v) THEN v[i] ELSE u[i - Len(v)]
      BY <2>1, ConcatProperties
    <3>2. \A i \in 1 .. Len(u) : n + 1 + i \in 1 .. Len(v) + Len(u) /\ ~(n + 1 + i <= Len(v)) /\ (n + 1 + i) - Len(v) = i
      BY <1>1, <2>1
    <3>3. \A i \in 1 .. n + 1 : i \in 1 .. Len(v) + Len(u) /\ i <= Len(v)
      BY <1>1, <2>1
    <3> QED
      BY <2>1, <3>1, <3>2, <3>3
  <2>3. n + 1 \in 1 .. n + 1 /\ \A i \in 1 .. n : i \in 1 .. n + 1
    BY <1>1
  <2> QED
    BY <2>1, <2>2, <2>3 DEF v
<1>3. At(t) = {n + 1}
  BY <1>1
<1>4. First(t, c) = n + 1
  <2>1. Min({n + 1}) \in {n + 1}
    <3> DEFINE T == {n + 1}
    <3>1. T \subseteq 0 .. n + 1 /\ T # {} /\ n + 1 \in Nat
      BY <1>1
    <3> HIDE DEF T
    <3> QED
      BY <3>1, MinIsLeast DEF T
  <2> QED
    BY <1>3, <2>1 DEF First
<1> HIDE DEF n, w
<1>5. First(w, c) = n + 1
  <2>1. At(w) \subseteq 0 .. l + 1 /\ n + 1 \in At(w) /\ \A i \in At(w) : i >= n + 1
    BY <1>1, <1>2
  <2>2. l + 1 \in Nat /\ Min(At(w)) = First(w, c)
    BY <1>1, <1>2 DEF First
  <2>3. Min(At(w)) \in At(w) /\ Min(At(w)) <= n + 1
    <3> HIDE DEF At, l
    <3> QED
      BY <2>1, <2>2, MinIsLeast
  <2>4. \A i \in At(w) : i \in Nat
    BY <2>1, <2>2
  <2> HIDE DEF At
  <2> QED
    BY <1>1, <2>1, <2>2, <2>3, <2>4
<1>6. SubSeq(w, 1, n) = t
  <2> DEFINE a == SubSeq(w, 1, n)
  <2>1. a \in Seq(S) /\ Len(a) = n /\ \A i \in 1 .. n : a[i] = w[i]
    BY <1>1, <1>2
  <2> HIDE DEF a
  <2> QED
    BY <1>2, <2>1, SeqEqual DEF a, n
<1>7. SubSeq(w, n + 2, l) = u
  <2> DEFINE a == SubSeq(w, n + 2, l)
  <2>1. a \in Seq(S) /\ Len(a) = Len(u) /\ \A i \in 1 .. Len(u) : a[i] = w[n + 1 + i]
    BY <1>1, <1>2
  <2> HIDE DEF a
  <2>2. \A i \in 1 .. Len(a) : a[i] = u[i]
    BY <1>2, <2>1
  <2> QED
    BY <2>1, <2>2, SeqEqual DEF a
<1>8. SubSeq(t, 1, n) = t
  BY DEF n
<1> QED
  BY <1>2, <1>4, <1>5, <1>6, <1>7, <1>8 DEF n, w

\* Texts without some characters.
LEMMA WithoutFacts ==
  ASSUME NEW X
  PROVE  /\ \A S : S \cap X = {} => \A t \in Seq(S) : Without(t, X)
         /\ \A a, b : Without(a, X) /\ Without(b, X) => Without(a \o b, X)
         /\ \A x : x \notin X => Without(<<x>>, X)
         /\ \A t, Y : Without(t, X) /\ Y \subseteq X => Without(t, Y)
<1>1. ASSUME NEW S, S \cap X = {}, NEW t \in Seq(S) PROVE Without(t, X)
  <2>1. Range(t) \subseteq S
    BY DEF Range
  <2>2. t \in Seq(Range(t))
    BY DEF Range
  <2> QED
    BY <1>1, <2>1, <2>2 DEF Without
<1>2. ASSUME NEW a, NEW b, Without(a, X), Without(b, X) PROVE Without(a \o b, X)
  <2> DEFINE S == Range(a) \cup Range(b)
  <2>1. S \cap X = {} /\ a \in Seq(Range(a)) /\ b \in Seq(Range(b))
    BY <1>2 DEF Without
  <2>2. a \in Seq(S) /\ b \in Seq(S)
    BY <2>1, SeqMonotonic
  <2>3. a \o b \in Seq(S)
    <3> HIDE DEF S
    <3> QED
      BY <2>2
  <2> HIDE DEF S
  <2> QED
    BY <1>1, <2>1, <2>3
<1>3. ASSUME NEW x, x \notin X PROVE Without(<<x>>, X)
  <2>1. <<x>> \in Seq({x}) /\ {x} \cap X = {}
    BY <1>3
  <2> QED
    BY <1>1, <2>1
<1>4. ASSUME NEW t, NEW Y, Without(t, X), Y \subseteq X PROVE Without(t, Y)
  BY <1>4 DEF Without
<1> QED
  BY <1>1, <1>2, <1>3, <1>4

\* A list of texts has its characters.
CharsOf(texts) == UNION {Range(texts[i]) : i \in DOMAIN texts}
\* Texts that have none of some characters are a list of such texts.
LEMMA TextsFact ==
  ASSUME NEW n \in Nat, NEW texts, DOMAIN texts = 1 .. n, texts = [i \in 1 .. n |-> texts[i]],
         NEW X, \A i \in 1 .. n : Without(texts[i], X)
  PROVE  texts \in Seq(Seq(CharsOf(texts))) /\ Len(texts) = n /\ CharsOf(texts) \cap X = {}
<1>1. CharsOf(texts) \cap X = {} /\ \A i \in 1 .. n : Range(texts[i]) \subseteq CharsOf(texts)
  BY DEF CharsOf, Without
<1>2. \A i \in 1 .. n : texts[i] \in Seq(CharsOf(texts))
  BY <1>1, SeqMonotonic DEF Without
<1> QED
  BY <1>1, <1>2

\* What is joined with c is split at c again, and has no other characters.
LEMMA JoinedFacts ==
  ASSUME NEW n \in Nat \ {0}, NEW texts, DOMAIN texts = 1 .. n, texts = [i \in 1 .. n |-> texts[i]],
         NEW c, \A i \in 1 .. n : Without(texts[i], {c})
  PROVE  /\ Split(Joined(texts, c), c) = texts
         /\ \A X : c \notin X /\ (\A i \in 1 .. n : Without(texts[i], X)) => Without(Joined(texts, c), X)
<1> DEFINE C == CharsOf(texts)
           S == C \cup {c}
<1>1. texts \in Seq(Seq(C)) /\ Len(texts) = n
  BY TextsFact
<1>2. \A i \in 1 .. n : texts[i] \in Seq(S)
  <2>1. \A i \in 1 .. n : texts[i] \in Seq(C)
    BY <1>1
  <2> HIDE DEF C
  <2> QED
    BY <2>1, SeqMonotonic
<1> HIDE DEF S
<1>3. texts \in Seq(Seq(S)) /\ texts # <<>> /\ c \in S
  BY <1>1, <1>2 DEF S
<1>4. \A i \in DOMAIN texts : c \notin Range(texts[i])
  BY DEF Without
<1>5. Joined(texts, c) \in Seq(S) /\ Split(Joined(texts, c), c) = texts
  BY <1>3, <1>4, SplitJoined
<1>6. ASSUME NEW X, c \notin X, \A i \in 1 .. n : Without(texts[i], X) PROVE Without(Joined(texts, c), X)
  <2>1. C \cap X = {}
    BY <1>6, TextsFact
  <2>2. S \cap X = {}
    BY <1>6, <2>1 DEF S
  <2> QED
    BY <1>5, <2>2, WithoutFacts
<1> QED
  BY <1>5, <1>6

\* What is written without c, and with a c behind it, is found again.
LEMMA CutFacts ==
  ASSUME NEW t, NEW u, NEW c, Without(t, {c}), u \in Seq(Range(u))
  PROVE  /\ First(t, c) > Len(t) /\ SubSeq(t, 1, First(t, c) - 1) = t
         /\ LET w == t \o <<c>> \o u
            IN  /\ ~(First(w, c) > Len(w))
                /\ SubSeq(w, 1, First(w, c) - 1) = t
                /\ SubSeq(w, First(w, c) + 1, Len(w)) = u
<1> DEFINE S == Range(t) \cup Range(u) \cup {c}
           w == t \o <<c>> \o u
<1>1. t \in Seq(S) /\ u \in Seq(S) /\ c \in S /\ c \notin Range(t)
  BY SeqMonotonic DEF Without
<1> HIDE DEF S
<1>2. Len(t) \in Nat /\ Len(u) \in Nat /\ (Len(t) + 1) - 1 = Len(t) /\ Len(t) + 1 > Len(t)
  BY <1>1
<1>3. /\ First(t, c) = Len(t) + 1 /\ SubSeq(t, 1, Len(t)) = t
      /\ Len(w) = Len(t) + 1 + Len(u)
      /\ First(w, c) = Len(t) + 1
      /\ SubSeq(w, 1, Len(t)) = t
      /\ SubSeq(w, Len(t) + 2, Len(w)) = u
  BY <1>1, FirstFacts
<1> HIDE DEF w
<1>4. First(t, c) > Len(t) /\ SubSeq(t, 1, First(t, c) - 1) = t
  BY <1>2, <1>3
<1>5. First(w, c) - 1 = Len(t) /\ First(w, c) + 1 = Len(t) + 2 /\ ~(First(w, c) > Len(w))
  BY <1>2, <1>3
<1>6. SubSeq(w, 1, First(w, c) - 1) = t /\ SubSeq(w, First(w, c) + 1, Len(w)) = u
  BY <1>3, <1>5
<1> QED
  BY <1>4, <1>5, <1>6 DEF w

\* parse_tv() reads what a type and a value are written as.
LEMMA TvFact ==
  ASSUME NEW tv, IsTv(tv)
  PROVE  ParseTv(TvText(tv)) = tv /\ Without(TvText(tv), {",", ";"})
<1>1. /\ tv = [type |-> tv.type, value |-> tv.value]
      /\ Without(tv.type, {",", ";", "="}) /\ (tv.value = None \/ Without(tv.value, {",", ";"}))
  BY DEF IsTv
<1>2. Without(tv.type, {"="}) /\ Without(tv.type, {",", ";"})
  <2> DEFINE X == {",", ";", "="}
  <2>1. {"="} \subseteq X /\ {",", ";"} \subseteq X /\ Without(tv.type, X)
    BY <1>1
  <2>2. \A Y : Y \subseteq X => Without(tv.type, Y)
    <3> HIDE DEF X
    <3> QED
      BY <2>1, WithoutFacts
  <2> QED
    BY <2>1, <2>2
<1>3. CASE tv.value = None
  <2>1. TvText(tv) = tv.type
    BY <1>3 DEF TvText
  <2>2. <<>> \in Seq(Range(<<>>))
    BY DEF Range
  <2>3. First(tv.type, "=") > Len(tv.type) /\ SubSeq(tv.type, 1, First(tv.type, "=") - 1) = tv.type
    BY <1>2, <2>2, CutFacts
  <2> QED
    BY <1>1, <1>2, <1>3, <2>1, <2>3 DEF ParseTv
<1>4. CASE tv.value # None
  <2> DEFINE w == tv.type \o <<"=">> \o tv.value
  <2>1. TvText(tv) = w
    BY <1>4 DEF TvText
  <2>2. tv.value \in Seq(Range(tv.value)) /\ Without(tv.value, {",", ";"})
    BY <1>1, <1>4 DEF Without
  <2>3. /\ ~(First(w, "=") > Len(w)) /\ SubSeq(w, 1, First(w, "=") - 1) = tv.type
        /\ SubSeq(w, First(w, "=") + 1, Len(w)) = tv.value
    BY <1>2, <2>2, CutFacts
  <2>4. Without(w, {",", ";"})
    <3>1. Without(<<"=">>, {",", ";"})
      BY WithoutFacts
    <3>2. Without(tv.type \o <<"=">>, {",", ";"})
      BY <1>2, <3>1, WithoutFacts
    <3> QED
      BY <2>2, <3>2, WithoutFacts
  <2> HIDE DEF w
  <2> QED
    BY <1>1, <1>4, <2>1, <2>3, <2>4 DEF ParseTv
<1> QED
  BY <1>3, <1>4

\* parse_module() reads what a module and its options are written as.
LEMMA ModuleFact ==
  ASSUME NEW m, IsModule(m)
  PROVE  ParseModule(ModuleText(m)) = m /\ Without(ModuleText(m), {","})
<1>1. /\ m = [name |-> m.name, attrs |-> m.attrs]
      /\ Without(m.name, {",", ":"})
      /\ m.attrs \in Seq(Range(m.attrs)) /\ \A i \in DOMAIN m.attrs : IsTv(m.attrs[i])
  BY DEF IsModule
<1>2. Without(m.name, {":"}) /\ Without(m.name, {","})
  BY <1>1, WithoutFacts
<1>3. CASE m.attrs = <<>>
  <2>1. ModuleText(m) = m.name
    BY <1>3 DEF ModuleText
  <2>2. <<>> \in Seq(Range(<<>>))
    BY DEF Range
  <2>3. First(m.name, ":") > Len(m.name) /\ SubSeq(m.name, 1, First(m.name, ":") - 1) = m.name
    BY <1>2, <2>2, CutFacts
  <2> QED
    BY <1>1, <1>2, <1>3, <2>1, <2>3 DEF ParseModule
<1>4. CASE m.attrs # <<>>
  <2> DEFINE texts == [i \in DOMAIN m.attrs |-> TvText(m.attrs[i])]
             n == Len(m.attrs)
             joined == Joined(texts, ";")
             w == m.name \o <<":">> \o joined
  <2>1. ModuleText(m) = w
    BY <1>4 DEF ModuleText
  <2>2. n \in Nat \ {0} /\ DOMAIN m.attrs = 1 .. n /\ m.attrs = [i \in 1 .. n |-> m.attrs[i]]
    <3> DEFINE list == m.attrs
    <3>1. list \in Seq(Range(list)) /\ list # <<>>
      BY <1>1, <1>4
    <3> HIDE DEF list
    <3>2. Len(list) \in Nat \ {0} /\ DOMAIN list = 1 .. Len(list) /\ list = [i \in 1 .. Len(list) |-> list[i]]
      BY <3>1, EmptySeq
    <3> QED
      BY <3>2 DEF list
  <2>3. DOMAIN texts = 1 .. n /\ texts = [i \in 1 .. n |-> texts[i]]
    BY <2>2
  <2>4. \A i \in 1 .. n : ParseTv(texts[i]) = m.attrs[i] /\ Without(texts[i], {",", ";"})
    BY <1>1, <2>2, TvFact
  <2> HIDE DEF texts
  <2>5. \A i \in 1 .. n : Without(texts[i], {";"}) /\ Without(texts[i], {","})
    BY <2>4, WithoutFacts
  <2>6. Split(joined, ";") = texts
    BY <2>2, <2>3, <2>5, JoinedFacts
  <2>7. Without(joined, {","})
    <3>1. ";" \notin {","}
      OBVIOUS
    <3> QED
      BY <2>2, <2>3, <2>5, <3>1, JoinedFacts
  <2> HIDE DEF joined
  <2>8. /\ ~(First(w, ":") > Len(w)) /\ SubSeq(w, 1, First(w, ":") - 1) = m.name
        /\ SubSeq(w, First(w, ":") + 1, Len(w)) = joined
    <3>1. Without(m.name, {":"}) /\ joined \in Seq(Range(joined))
      BY <1>2, <2>7 DEF Without
    <3> QED
      BY ONLY <3>1, CutFacts
  <2>9. Without(w, {","})
    <3>1. Without(<<":">>, {","})
      BY WithoutFacts
    <3>2. Without(m.name \o <<":">>, {","})
      BY <1>2, <3>1, WithoutFacts
    <3> QED
      BY <2>7, <3>2, WithoutFacts
  <2> HIDE DEF w
  <2>10. [i \in DOMAIN texts |-> ParseTv(texts[i])] = m.attrs
    <3>1. m.attrs = [i \in 1 .. n |-> m.attrs[i]]
      BY <2>2
    <3> HIDE DEF n
    <3> QED
      BY <2>3, <2>4, <3>1
  <2>11. ParseModule(w) = [name |-> m.name, attrs |-> [i \in DOMAIN texts |-> ParseTv(texts[i])]]
    BY <2>6, <2>8 DEF ParseModule
  <2> QED
    BY <1>1, <2>1, <2>9, <2>10, <2>11
<1> QED
  BY <1>3, <1>4

\* parse_module_param() reads what modules are written as.
LEMMA ModulesFact ==
  ASSUME NEW ms, ms # <<>>, ms \in Seq(Range(ms)), \A m \in Range(ms) : IsModule(m)
  PROVE  ParseModuleParam(ModulesText(ms)) = ms
<1> DEFINE texts == [i \in DOMAIN ms |-> ModuleText(ms[i])]
           n == Len(ms)
<1>1. n \in Nat \ {0} /\ DOMAIN ms = 1 .. n /\ ms = [i \in 1 .. n |-> ms[i]]
  BY EmptySeq
<1>2. \A i \in 1 .. n : IsModule(ms[i])
  BY <1>1 DEF Range
<1>3. DOMAIN texts = 1 .. n /\ texts = [i \in 1 .. n |-> texts[i]]
  BY <1>1
<1>4. \A i \in 1 .. n : ParseModule(texts[i]) = ms[i] /\ Without(texts[i], {","})
  BY <1>1, <1>2, ModuleFact
<1>5. ModulesText(ms) = Joined(texts, ",")
  BY DEF ModulesText
<1> HIDE DEF texts, n
<1>6. Split(Joined(texts, ","), ",") = texts
  BY <1>1, <1>3, <1>4, JoinedFacts
<1>7. [i \in DOMAIN texts |-> ParseModule(texts[i])] = ms
  BY <1>1, <1>3, <1>4
<1> QED
  BY <1>5, <1>6, <1>7 DEF ParseModuleParam

-----------------------------------------------------------------------------
(***************************************************************************)
(* The modules asked for.                                                   *)
(***************************************************************************)
\* One more list is put behind the others.
LEMMA FlattenAppend ==
  ASSUME NEW S, NEW ss \in Seq(Seq(S)), NEW x \in Seq(S)
  PROVE  FlattenSeq(ss) \in Seq(S) /\ FlattenSeq(Append(ss, x)) = FlattenSeq(ss) \o x
<1> DEFINE n == Len(ss)
           new == Append(ss, x)
<1>1. /\ n \in Nat /\ new \in Seq(Seq(S)) /\ Len(new) = n + 1 /\ new[n + 1] = x
      /\ \A i \in 1 .. n : new[i] = ss[i]
  OBVIOUS
<1>2. FlattenSeq(ss) \in Seq(S)
  BY FlattenFacts
<1> HIDE DEF new
<1>3. PICK g : /\ FlattenSeq(new) = g[Len(new)]
               /\ \A i \in 1 .. Len(new) : g[i] = IF i = 1 THEN new[i] ELSE g[i - 1] \o new[i]
  BY <1>1, FlattenSteps
<1>4. CASE n = 0
  <2>1. ss = <<>>
    BY <1>4, EmptySeq
  <2>2. FlattenSeq(ss) = <<>>
    BY <1>4, <2>1 DEF FlattenSeq
  <2>3. FlattenSeq(new) = x
    BY <1>1, <1>3, <1>4
  <2> QED
    BY <1>2, <2>2, <2>3, ConcatEmptySeq DEF new
<1>5. CASE n # 0
  <2>1. PICK f : /\ FlattenSeq(ss) = f[n]
                 /\ \A i \in 1 .. n : f[i] = IF i = 1 THEN ss[i] ELSE f[i - 1] \o ss[i]
    BY <1>5, FlattenSteps
  <2> HIDE DEF n
  <2> DEFINE I == {k \in Nat : k + 1 <= n => f[k + 1] = g[k + 1]}
  <2>2. 0 \in I
    <3>1. 1 \in 1 .. n /\ 1 \in 1 .. Len(new)
      BY <1>1, <1>5
    <3>2. f[1] = ss[1] /\ g[1] = new[1] /\ new[1] = ss[1]
      BY ONLY <1>1, <1>3, <2>1, <3>1
    <3> QED
      BY ONLY <3>2
  <2>3. ASSUME NEW k \in Nat, k \in I PROVE k + 1 \in I
    <3> SUFFICES ASSUME k + 1 + 1 <= n PROVE f[k + 1 + 1] = g[k + 1 + 1]
      OBVIOUS
    <3> DEFINE i == k + 1 + 1
    <3>1. i \in 1 .. n /\ i \in 1 .. Len(new) /\ i # 1 /\ i - 1 = k + 1 /\ f[k + 1] = g[k + 1]
      BY <1>1, <2>3
    <3> HIDE DEF i
    <3>2. f[i] = f[i - 1] \o ss[i] /\ g[i] = g[i - 1] \o new[i] /\ new[i] = ss[i]
      BY <1>1, <1>3, <2>1, <3>1
    <3>3. f[i] = g[i]
      BY <3>1, <3>2
    <3> QED
      BY <3>3 DEF i
  <2>4. f[n] = g[n]
    <3>1. n - 1 \in Nat /\ (n - 1) + 1 = n
      BY <1>1, <1>5
    <3>2. n - 1 \in I
      <4> HIDE DEF I
      <4> QED
        BY <2>2, <2>3, <3>1, NatSetInduction
    <3> QED
      BY <1>1, <3>1, <3>2
  <2>5. n + 1 \in 1 .. Len(new) /\ n + 1 # 1 /\ (n + 1) - 1 = n
    BY <1>1, <1>5
  <2>6. FlattenSeq(new) = g[n] \o x
    BY <1>1, <1>3, <2>5
  <2> QED
    BY <1>2, <2>1, <2>4, <2>6 DEF new
<1> QED
  BY <1>4, <1>5

-----------------------------------------------------------------------------
\* The modules of a subsystem in the first n arguments; bmon has those it has come past.
AskedSoFar(ss, n) == FlattenSeq([i \in 1 .. n |-> AskedOf(ss, i)])
ReadUpTo(n) == \A ss \in {"input", "output"} : modules[ss] = AskedSoFar(ss, n)
ModulesRead ==
    /\ modules = [ss \in {"input", "output"} |-> modules[ss]]
    /\ stage \in {"default", "pre", "files", "user"} => ReadUpTo(0)
    /\ stage = "post" => ReadUpTo(optind - 1)
    /\ stage = "ready" /\ Wordless => ReadUpTo(Len(argv))

\* What is behind an argument that does not end bmon is what is meant.
LEMMA AskedFact ==
  ASSUME Started, NEW i \in DOMAIN argv
  PROVE  /\ argv[i].opt \notin DOMAIN SubsysOf => AskedBy(i) = <<>>
         /\ argv[i].opt \in DOMAIN SubsysOf /\ ~IsWrongName(argv[i].value) => ParseModuleParam(argv[i].value) = AskedBy(i)
         /\ AskedBy(i) \in Seq(Range(AskedBy(i)))
<1>1. PICK s \in Starts : argv = s.argv /\ meant = s.meant
  BY DEF Started
<1>2. /\ \A j \in DOMAIN argv \cap DOMAIN meant.modules :
            /\ argv[j].opt \in DOMAIN SubsysOf /\ meant.modules[j] # <<>> /\ argv[j].value = ModulesText(meant.modules[j])
            /\ meant.modules[j] \in Seq(Range(meant.modules[j])) /\ \A m \in Range(meant.modules[j]) : IsModule(m)
      /\ \A j \in DOMAIN argv \ DOMAIN meant.modules : argv[j].opt \in DOMAIN SubsysOf => IsWrongName(argv[j].value)
  BY <1>1, MeaningAssumption
<1>3. CASE i \in DOMAIN meant.modules
  <2> DEFINE ms == meant.modules[i]
  <2>1. AskedBy(i) = ms
    BY <1>3 DEF AskedBy, Get
  <2>2. /\ argv[i].opt \in DOMAIN SubsysOf /\ ms # <<>> /\ argv[i].value = ModulesText(ms)
        /\ ms \in Seq(Range(ms)) /\ \A m \in Range(ms) : IsModule(m)
    BY <1>2, <1>3
  <2> HIDE DEF ms
  <2>3. ParseModuleParam(ModulesText(ms)) = ms
    BY <2>2, ModulesFact
  <2> QED
    BY <2>1, <2>2, <2>3
<1>4. CASE i \notin DOMAIN meant.modules
  <2>1. AskedBy(i) = <<>>
    BY <1>4 DEF AskedBy, Get
  <2>2. <<>> \in Seq(Range(<<>>))
    BY DEF Range
  <2> QED
    BY <1>2, <1>4, <2>1, <2>2
<1> QED
  BY <1>3, <1>4

\* The modules of one more argument.
LEMMA AskedStep ==
  ASSUME Started, NEW ss, NEW n \in Nat, n + 1 \in DOMAIN argv, argv \in Seq(Range(argv))
  PROVE  /\ AskedSoFar(ss, n + 1) = AskedSoFar(ss, n) \o AskedOf(ss, n + 1)
         /\ AskedOf(ss, n + 1) = <<>> => AskedSoFar(ss, n + 1) = AskedSoFar(ss, n)
<1> DEFINE S == UNION {Range(AskedBy(i)) : i \in DOMAIN argv}
           lists == [i \in 1 .. n |-> AskedOf(ss, i)]
           x == AskedOf(ss, n + 1)
<1>1. \A i \in 1 .. n : i \in DOMAIN argv
  <2>1. DOMAIN argv = 1 .. Len(argv) /\ Len(argv) \in Nat
    OBVIOUS
  <2> QED
    BY <2>1
<1>2. ASSUME NEW i \in DOMAIN argv PROVE AskedOf(ss, i) \in Seq(S)
  <2>1. AskedBy(i) \in Seq(Range(AskedBy(i))) /\ Range(AskedBy(i)) \subseteq S
    BY AskedFact
  <2> HIDE DEF S
  <2>2. AskedBy(i) \in Seq(S) /\ <<>> \in Seq(S)
    BY <2>1, SeqMonotonic
  <2> QED
    BY <2>2 DEF AskedOf
<1> HIDE DEF S
<1>3. lists \in Seq(Seq(S)) /\ x \in Seq(S) /\ Len(lists) = n
  BY <1>1, <1>2
<1>4. [i \in 1 .. n + 1 |-> AskedOf(ss, i)] = Append(lists, x)
  BY <1>3
<1> HIDE DEF lists, x
<1>5. FlattenSeq(Append(lists, x)) = FlattenSeq(lists) \o x /\ FlattenSeq(lists) \in Seq(S)
  BY <1>3, FlattenAppend
<1>6. x = <<>> => FlattenSeq(lists) \o x = FlattenSeq(lists)
  BY <1>5, ConcatEmptySeq
<1>7. AskedSoFar(ss, n) = FlattenSeq(lists) /\ AskedSoFar(ss, n + 1) = FlattenSeq(Append(lists, x))
  BY <1>4 DEF AskedSoFar, lists
<1> QED
  BY <1>5, <1>6, <1>7 DEF x

\* An argument of the second pass adds the modules that are meant by it.
LEMMA ParseArgsPostModules ==
  ASSUME Steady, Started, ModulesRead, ParseArgsPost, ~Ended'
  PROVE  ModulesRead'
<1>1. argv \in Seq(Range(argv)) /\ optind \in 1 .. Len(argv) + 1
  BY DEF Steady, Placed
<1>2. /\ stage = "post" /\ stage' = "post" /\ optind <= Len(argv) /\ optind' = optind + 1
      /\ UNCHANGED <<argv, meant>>
      /\ \/ Arg.opt \notin DOMAIN SubsysOf /\ modules' = modules
         \/ /\ Arg.opt \in DOMAIN SubsysOf /\ ~IsWrongName(Arg.value)
            /\ modules' = [modules EXCEPT ![SubsysOf[Arg.opt]] = @ \o ParseModuleParam(Arg.value)]
  <2>1. \A s \in {"quit", "exit", "aborted"} : ~Leave(s)
    BY DEF Leave, Ended
  <2>2. DOMAIN SubsysOf \cap (DOMAIN OptionOf \cup {"L", "f", "word"}) = {}
    BY DEF OptionOf, SubsysOf
  <2>3. stage = "post" /\ optind <= Len(argv) /\ NextArg
    BY <2>1 DEF ParseArgsPost
  <2>4. \/ Arg.opt \notin DOMAIN SubsysOf /\ modules' = modules
        \/ /\ Arg.opt \in DOMAIN SubsysOf /\ ~IsWrongName(Arg.value)
           /\ modules' = [modules EXCEPT ![SubsysOf[Arg.opt]] = @ \o ParseModuleParam(Arg.value)]
    BY <2>1, <2>2 DEF ParseArgsPost, IsWrongName
  <2> QED
    BY <2>3, <2>4 DEF NextArg, input
<1>3. optind \in DOMAIN argv /\ optind - 1 \in Nat /\ (optind - 1) + 1 = optind /\ optind' - 1 = optind
  BY <1>1, <1>2
<1>5. modules' = [ss \in {"input", "output"} |-> modules'[ss]]
  BY <1>2 DEF ModulesRead
<1>6. ASSUME NEW ss \in {"input", "output"} PROVE modules'[ss] = AskedSoFar(ss, optind)
  <2>1. modules[ss] = AskedSoFar(ss, optind - 1)
    BY <1>2 DEF ModulesRead, ReadUpTo
  <2>2. /\ AskedSoFar(ss, optind) = AskedSoFar(ss, optind - 1) \o AskedOf(ss, optind)
        /\ AskedOf(ss, optind) = <<>> => AskedSoFar(ss, optind) = AskedSoFar(ss, optind - 1)
    BY <1>1, <1>3, AskedStep
  <2>3. CASE Arg.opt \in DOMAIN SubsysOf /\ SubsysOf[Arg.opt] = ss
    <3>1. AskedOf(ss, optind) = AskedBy(optind) /\ ParseModuleParam(Arg.value) = AskedBy(optind)
      BY <1>2, <1>3, <2>3, AskedFact DEF AskedOf, Arg
    <3> QED
      BY <1>2, <2>1, <2>2, <2>3, <3>1 DEF ModulesRead
  <2>4. CASE ~(Arg.opt \in DOMAIN SubsysOf /\ SubsysOf[Arg.opt] = ss)
    <3>1. AskedOf(ss, optind) = <<>>
      BY <2>4 DEF AskedOf, Arg
    <3>2. modules'[ss] = modules[ss]
      BY <1>2, <2>4 DEF ModulesRead
    <3> QED
      BY <2>1, <2>2, <3>1, <3>2
  <2> QED
    BY <2>3, <2>4
<1>7. \A ss : AskedSoFar(ss, optind - 1)' = AskedSoFar(ss, optind)
  BY <1>2, <1>3 DEF AskedSoFar, AskedOf, AskedBy
<1>8. ReadUpTo(optind - 1)'
  BY <1>6, <1>7 DEF ReadUpTo
<1> QED
  BY <1>2, <1>5, <1>8 DEF ModulesRead

\* Every step leaves modules as the arguments read so far say.
LEMMA ModulesReadStep ==
  ASSUME Steady, Started, ModulesRead, [StartupNext]_startup
  PROVE  ModulesRead'
<1>1. argv \in Seq(Range(argv)) /\ optind \in 1 .. Len(argv) + 1
  BY DEF Steady, Placed
<1>2. UNCHANGED argv /\ UNCHANGED meant
  BY InputStays DEF input
<1>3. \A ss, n : AskedSoFar(ss, n)' = AskedSoFar(ss, n)
  BY <1>2 DEF AskedSoFar, AskedOf, AskedBy
<1>4. ASSUME modules' = modules, NEW n, ReadUpTo(n) PROVE ReadUpTo(n)'
  BY <1>3, <1>4 DEF ReadUpTo
<1>5. Wordless' <=> Wordless
  BY <1>2 DEF Wordless
<1>6. CASE ParseArgsPost /\ ~Ended'
  BY <1>6, ParseArgsPostModules
<1>7. CASE ConfInitPost
  <2>1. stage = "post" /\ stage' = "ready" /\ modules' = modules /\ (optind <= Len(argv) => Arg.opt = "word")
    BY <1>7 DEF ConfInitPost, GoTo
  <2>2. Wordless => optind - 1 = Len(argv) /\ Len(argv)' = Len(argv)
    BY <1>1, <1>2, <2>1 DEF Wordless, Arg
  <2> QED
    BY <1>4, <1>5, <2>1, <2>2 DEF ModulesRead
<1>8. CASE Ended'
  <2>1. modules' = modules
    BY <1>8 DEF StartupNext, ConfInitPre, ParseArgsPre, EndArgsPre, ConfigfileRead, ParseArgsPost, ConfInitPost,
                ConfRead, Read, Leave, GoTo, NextArg, Ended, startup
  <2> QED
    BY <1>8, <2>1 DEF ModulesRead, Ended
<1>9. CASE (ConfInitPre \/ ParseArgsPre \/ EndArgsPre \/ ConfigfileRead) /\ ~Ended'
  <2>1. /\ stage \in {"default", "pre", "files", "user"} /\ modules' = modules
        /\ stage' \in {"default", "pre", "files", "user"} \/ (stage' = "post" /\ optind' = 1)
    BY <1>9 DEF ConfInitPre, ParseArgsPre, EndArgsPre, ConfigfileRead, ConfRead, Read, Leave, GoTo, NextArg, Ended
  <2>2. 1 - 1 = 0
    OBVIOUS
  <2>3. ReadUpTo(0)'
    BY <1>4, <2>1 DEF ModulesRead
  <2> QED
    BY <2>1, <2>2, <2>3 DEF ModulesRead
<1>10. CASE UNCHANGED startup
  <2>1. stage' = stage /\ modules' = modules /\ optind' = optind /\ Len(argv)' = Len(argv)
    BY <1>2, <1>10 DEF startup
  <2> QED
    BY <1>4, <1>5, <2>1 DEF ModulesRead
<1> QED
  BY <1>6, <1>7, <1>8, <1>9, <1>10 DEF StartupNext

\* The modules and options that bmon comes to are those the user has written.
THEOREM ModparamAsWrittenHolds == StartupSpec => []ModparamAsWritten
<1>1. StartupInit => ModulesRead
  <2>1. \A ss : AskedSoFar(ss, 0) = <<>>
    BY DEF AskedSoFar, FlattenSeq
  <2> QED
    BY <2>1 DEF StartupInit, ModulesRead, ReadUpTo
<1>2. Steady /\ Defined /\ ModulesRead /\ [StartupNext]_startup => ModulesRead'
  BY ModulesReadStep DEF Defined
<1>3. Steady /\ ModulesRead => ModparamAsWritten
  <2> SUFFICES ASSUME Steady, ModulesRead, Ready, Wordless, NEW ss \in {"input", "output"}
               PROVE  modules[ss] = FlattenSeq([i \in DOMAIN argv |-> AskedOf(ss, i)])
    BY DEF ModparamAsWritten
  <2>1. argv \in Seq(Range(argv))
    BY DEF Steady, Placed
  <2>2. DOMAIN argv = 1 .. Len(argv)
    BY <2>1
  <2> QED
    BY <2>2 DEF ModulesRead, ReadUpTo, Ready, AskedSoFar
<1> QED
  BY <1>1, <1>2, <1>3, SteadyAlways, DefinedAlways, PTL DEF StartupSpec

-----------------------------------------------------------------------------
(***************************************************************************)
(* The policy.                                                              *)
(***************************************************************************)
\* What is kept of a list.
LEMMA OnlyFacts ==
  ASSUME NEW list, list \in Seq(Range(list)), NEW set
  PROVE  /\ Only(list, set) \in Seq(Range(Only(list, set)))
         /\ Range(Only(list, set)) = Range(list) \cap set
<1> DEFINE S == Range(list) \cap set
           n == Len(list)
           Cell(i) == IF list[i] \in set THEN <<list[i]>> ELSE <<>>
           ss == [i \in DOMAIN list |-> Cell(i)]
           r == Only(list, set)
<1>1. n \in Nat /\ DOMAIN list = 1 .. n
  BY LenProperties
<1>2. ASSUME NEW i \in 1 .. n PROVE Cell(i) \in Seq(S)
  <2>1. CASE list[i] \in set
    <3>1. list[i] \in S
      BY <1>1, <2>1 DEF Range
    <3> HIDE DEF S
    <3> QED
      BY <2>1, <3>1
  <2>2. CASE list[i] \notin set
    BY <2>2, EmptySeq
  <2> QED
    BY <2>1, <2>2
<1>3. r = FlattenSeq(ss)
  BY DEF Only
<1> HIDE DEF n, r
<1>4. ss = [i \in 1 .. n |-> Cell(i)]
  BY <1>1
<1> HIDE DEF Cell, S
<1>5. ss \in Seq(Seq(S)) /\ DOMAIN ss = 1 .. n /\ \A i \in 1 .. n : ss[i] = Cell(i)
  BY <1>1, <1>2, <1>4
<1> HIDE DEF ss
<1>6. /\ r \in Seq(S)
      /\ \A i \in DOMAIN ss : \A j \in DOMAIN ss[i] : \E k \in DOMAIN r : r[k] = ss[i][j]
  <2> DEFINE fl == FlattenSeq(ss)
  <2>0. ss \in Seq(Seq(S))
    BY <1>5
  <2>1. /\ fl \in Seq(S)
        /\ \A i \in DOMAIN ss : \A j \in DOMAIN ss[i] : \E k \in DOMAIN fl : fl[k] = ss[i][j]
    BY <2>0, FlattenFacts
  <2>2. r = fl
    BY <1>3
  <2> HIDE DEF fl
  <2> QED
    BY <2>1, <2>2
<1>7. ASSUME NEW x \in S PROVE x \in Range(r)
  <2>1. PICK i \in 1 .. n : list[i] = x /\ x \in set
    BY <1>1 DEF S, Range
  <2>2. ss[i] = <<x>>
    BY <1>5, <2>1 DEF Cell
  <2>3. 1 \in DOMAIN ss[i] /\ ss[i][1] = x
    BY <2>2
  <2> QED
    <3>1. \E k \in DOMAIN r : r[k] = ss[i][1]
      BY <1>5, <1>6, <2>3
    <3> QED
      BY ONLY <2>3, <3>1 DEF Range
<1>8. Range(r) = S
  <2>1. Range(r) \subseteq S
    BY <1>6 DEF Range
  <2> QED
    BY <1>7, <2>1
<1> QED
  BY <1>6, <1>8 DEF r, S

\* How a rule is written.
NoRule == [deny |-> FALSE, mask |-> <<>>]
\* A rule is told by its first character, and is the rest or all of its text.
LEMMA RuleFact ==
  ASSUME NEW rule, IsRule(rule)
  PROVE  /\ Without(RuleText(rule), {","})
         /\ RuleText(rule) = <<>> <=> rule = NoRule
         /\ RuleText(rule) # <<>> => (RuleText(rule)[1] = "!" <=> rule.deny)
         /\ rule.deny => Tail(RuleText(rule)) = rule.mask
         /\ ~rule.deny => RuleText(rule) = rule.mask
<1>1. /\ rule = [deny |-> rule.deny, mask |-> rule.mask] /\ rule.deny \in BOOLEAN
      /\ Without(rule.mask, {","})
      /\ ~rule.deny /\ rule.mask # <<>> => rule.mask[1] # "!"
  BY DEF IsRule
<1>2. CASE rule.deny
  <2> DEFINE mask == rule.mask
             w == <<"!">> \o mask
  <2>1. RuleText(rule) = w
    BY <1>2 DEF RuleText
  <2>2. Without(w, {","})
    <3>1. Without(<<"!">>, {","})
      BY WithoutFacts
    <3> QED
      BY <1>1, <3>1, WithoutFacts
  <2>3. mask \in Seq(Range(mask))
    BY <1>1 DEF Without
  <2> HIDE DEF mask
  <2>4. w # <<>> /\ w[1] = "!" /\ Tail(w) = mask
    BY <2>3
  <2>5. rule # NoRule
    BY <1>2 DEF NoRule
  <2> HIDE DEF w
  <2>6. RuleText(rule) # <<>> /\ RuleText(rule)[1] = "!" /\ Tail(RuleText(rule)) = rule.mask /\ Without(RuleText(rule), {","})
    BY <2>1, <2>2, <2>4 DEF mask
  <2> QED
    BY <1>2, <2>5, <2>6
<1>3. CASE ~rule.deny
  <2>1. RuleText(rule) = rule.mask
    BY <1>3 DEF RuleText
  <2>2. rule.deny = FALSE
    BY <1>1, <1>3
  <2>3. rule.mask = <<>> <=> rule = NoRule
    <3>1. rule.mask = <<>> => rule = [deny |-> FALSE, mask |-> <<>>]
      BY <1>1, <2>2, Zenon
    <3>2. [deny |-> FALSE, mask |-> <<>>].mask = <<>>
      OBVIOUS
    <3> QED
      BY <3>1, <3>2, Zenon DEF NoRule
  <2> QED
    BY <1>1, <1>3, <2>1, <2>3
<1> QED
  BY <1>2, <1>3

\* element_parse_policy() reads what rules are written as.
Live(rules) == {rules[i] : i \in DOMAIN rules} \ {NoRule}
\* strtok_r() finds the rules that are written, and no empty one.
LEMMA TokensFact ==
  ASSUME NEW rules, rules \in Seq(Range(rules)), \A i \in DOMAIN rules : IsRule(rules[i])
  PROVE  /\ Tokens(PolicyText(rules)) \in Seq(Range(Tokens(PolicyText(rules))))
         /\ Range(Tokens(PolicyText(rules))) = {RuleText(rule) : rule \in Live(rules)}
<1> DEFINE n == Len(rules)
           texts == [i \in DOMAIN rules |-> RuleText(rules[i])]
           pieces == Split(PolicyText(rules), ",")
<1>1. n \in Nat /\ DOMAIN rules = 1 .. n /\ PolicyText(rules) = Joined(texts, ",")
  BY DEF PolicyText
<1>2. DOMAIN texts = 1 .. n /\ texts = [i \in 1 .. n |-> texts[i]] /\ \A i \in 1 .. n : texts[i] = RuleText(rules[i])
  BY <1>1
<1> HIDE DEF n, texts
<1>3. /\ pieces \in Seq(Range(pieces))
      /\ \A t : t \in Range(pieces) \ {<<>>} <=> t # <<>> /\ \E i \in 1 .. n : t = RuleText(rules[i])
  <2>1. CASE n = 0
    <3>1. Joined(texts, ",") = <<>>
      <4>1. \A i : i \notin DOMAIN texts
        BY <1>2, <2>1
      <4>2. texts = <<>>
        BY <1>2, <2>1
      <4>3. Joined(<<>>, ",") = <<>>
        BY DEF Joined, FlattenSeq
      <4> QED
        BY <4>2, <4>3
    <3>2. Split(<<>>, ",") = << <<>> >>
      <4> DEFINE S == {","}
      <4>1. <<>> \in Seq(S) /\ Len(<<>>) = 0
        BY EmptySeq
      <4> HIDE DEF S
      <4>2. PICK f : IsPieces(f, <<>>, ",", S)
        BY <4>1, SplitSteps
      <4> QED
        BY <4>1, <4>2 DEF IsPieces
    <3>3. pieces = << <<>> >>
      BY <1>1, <3>1, <3>2
    <3> HIDE DEF pieces
    <3>4. Range(pieces) = { <<>> }
      BY <3>3 DEF Range
    <3>5. pieces \in Seq(Range(pieces))
      BY <3>3, <3>4
    <3> QED
      BY <2>1, <3>4, <3>5
  <2>2. CASE n # 0
    <3>1. \A i \in 1 .. n : Without(texts[i], {","})
      BY <1>1, <1>2, RuleFact
    <3>2. pieces = texts
      BY <1>1, <1>2, <2>2, <3>1, JoinedFacts
    <3> HIDE DEF pieces
    <3>3. texts \in Seq(Range(texts))
      <4>1. \A i \in 1 .. n : texts[i] \in Range(texts)
        BY <1>1, <1>2 DEF Range
      <4> DEFINE T == Range(texts)
      <4> HIDE DEF T
      <4>2. \A i \in 1 .. n : texts[i] \in T
        BY <4>1 DEF T
      <4>3. n \in Nat /\ texts = [i \in 1 .. n |-> texts[i]]
        BY <1>1, <1>2
      <4>4. texts \in Seq(T)
        BY <4>2, <4>3
      <4> QED
        BY <4>4 DEF T
    <3>4. \A t : t \in Range(texts) <=> \E i \in 1 .. n : t = RuleText(rules[i])
      BY <1>1, <1>2 DEF Range
    <3> QED
      BY <3>2, <3>3, <3>4
  <2> QED
    BY <2>1, <2>2
<1>4. Tokens(PolicyText(rules)) = Only(pieces, Range(pieces) \ {<<>>})
  BY DEF Tokens
<1> HIDE DEF pieces
<1>5. /\ Only(pieces, Range(pieces) \ {<<>>}) \in Seq(Range(Only(pieces, Range(pieces) \ {<<>>})))
      /\ Range(Only(pieces, Range(pieces) \ {<<>>})) = Range(pieces) \cap (Range(pieces) \ {<<>>})
  BY <1>3, OnlyFacts
<1>6. ASSUME NEW t
      PROVE  (t # <<>> /\ \E i \in 1 .. n : t = RuleText(rules[i])) <=> \E rule \in Live(rules) : t = RuleText(rule)
  BY <1>1, RuleFact DEF Live
<1>7. Range(pieces) \cap (Range(pieces) \ {<<>>}) = {RuleText(rule) : rule \in Live(rules)}
  BY <1>3, <1>6
<1> QED
  BY <1>4, <1>5, <1>7

\* element_parse_policy() denies and allows what the rules that are written do.
LEMMA ParsePolicyFact ==
  ASSUME NEW rules, rules \in Seq(Range(rules)), \A i \in DOMAIN rules : IsRule(rules[i]), NEW name
  PROVE  LET p == ParsePolicy(PolicyText(rules))
         IN  /\ MatchesAny(p.denied, name) <=> \E rule \in Live(rules) : rule.deny /\ MatchMask(rule.mask, name)
             /\ MatchesAny(p.allowed, name) <=> \E rule \in Live(rules) : ~rule.deny /\ MatchMask(rule.mask, name)
             /\ p.allowed = <<>> <=> \A rule \in Live(rules) : rule.deny
<1> DEFINE tokens == Tokens(PolicyText(rules))
           deny == Denials(tokens)
           no == Only(tokens, deny)
           yes == Only(tokens, Range(tokens) \ deny)
           p == ParsePolicy(PolicyText(rules))
<1>1. p.denied = [i \in DOMAIN no |-> Tail(no[i])] /\ p.allowed = yes
  BY DEF ParsePolicy
<1>2. tokens \in Seq(Range(tokens)) /\ Range(tokens) = {RuleText(rule) : rule \in Live(rules)}
  BY TokensFact
<1> HIDE DEF tokens, p
<1>3. deny = {t \in Range(tokens) : t[1] = "!"}
  BY DEF Denials
<1>4. /\ no \in Seq(Range(no)) /\ Range(no) = Range(tokens) \cap deny
      /\ yes \in Seq(Range(yes)) /\ Range(yes) = Range(tokens) \cap (Range(tokens) \ deny)
  BY <1>2, OnlyFacts
<1> HIDE DEF no, yes, deny
<1>5. ASSUME NEW rule \in Live(rules)
      PROVE  /\ RuleText(rule) \in deny <=> rule.deny
             /\ rule.deny => Tail(RuleText(rule)) = rule.mask
             /\ ~rule.deny => RuleText(rule) = rule.mask
  <2>1. IsRule(rule) /\ rule # NoRule
    BY DEF Live
  <2>2. RuleText(rule) # <<>>
    BY <2>1, RuleFact
  <2>3. RuleText(rule) \in deny <=> rule.deny
    BY <1>2, <1>3, <2>1, <2>2, RuleFact
  <2> QED
    BY <2>1, <2>3, RuleFact
<1>6. ASSUME NEW x PROVE x \in Range(no) <=> \E rule \in Live(rules) : rule.deny /\ x = RuleText(rule)
  BY <1>2, <1>4, <1>5
<1>7. ASSUME NEW x PROVE x \in Range(yes) <=> \E rule \in Live(rules) : ~rule.deny /\ x = RuleText(rule)
  BY <1>2, <1>4, <1>5
<1>8. MatchesAny(p.denied, name) <=> \E rule \in Live(rules) : rule.deny /\ MatchMask(rule.mask, name)
  <2>1. MatchesAny(p.denied, name) <=> \E x \in Range(no) : MatchMask(Tail(x), name)
    BY <1>1 DEF MatchesAny, Range
  <2>2. \A rule \in Live(rules) : rule.deny => Tail(RuleText(rule)) = rule.mask
    BY <1>5
  <2>3. ASSUME NEW x \in Range(no), MatchMask(Tail(x), name)
        PROVE  \E rule \in Live(rules) : rule.deny /\ MatchMask(rule.mask, name)
    <3>1. PICK rule \in Live(rules) : rule.deny /\ x = RuleText(rule)
      BY <1>6
    <3> QED
      BY <2>2, <2>3, <3>1
  <2>4. ASSUME NEW rule \in Live(rules), rule.deny, MatchMask(rule.mask, name)
        PROVE  \E x \in Range(no) : MatchMask(Tail(x), name)
    <3>1. RuleText(rule) \in Range(no)
      BY <1>6, <2>4
    <3> QED
      BY <2>2, <2>4, <3>1
  <2> QED
    BY <2>1, <2>3, <2>4
<1>9. MatchesAny(p.allowed, name) <=> \E rule \in Live(rules) : ~rule.deny /\ MatchMask(rule.mask, name)
  <2>1. MatchesAny(p.allowed, name) <=> \E x \in Range(yes) : MatchMask(x, name)
    BY <1>1 DEF MatchesAny, Range
  <2> QED
    BY <1>5, <1>7, <2>1
<1>10. p.allowed = <<>> <=> \A rule \in Live(rules) : rule.deny
  <2>1. yes = <<>> <=> Range(yes) = {}
    <3>1. yes = <<>> => Range(yes) = {}
      BY DEF Range
    <3>2. yes # <<>> => yes[1] \in Range(yes)
      <4>1. yes # <<>> => 1 \in DOMAIN yes
        BY <1>4
      <4> QED
        BY <4>1 DEF Range
    <3> QED
      BY <3>1, <3>2
  <2>2. Range(yes) = {} <=> \A rule \in Live(rules) : rule.deny
    BY <1>7
  <2> QED
    BY <1>1, <2>1, <2>2
<1> QED
  BY <1>8, <1>9, <1>10 DEF p

\* The flags of an element are what the files in force say of it.
LEMMA FlagsFact ==
  ASSUME Defined, Ready, NEW name
  PROVE  LET flags == Get(elements, name, [flags |-> {}]).flags
             Says(f, show) == \E sec \in Range(f["element"]) : sec.title = name /\ sec.show = show
         IN  /\ "hide" \in flags <=> \E f \in Range(InForce) : Says(f, FALSE)
             /\ "show" \in flags <=> \E f \in Range(InForce) : Says(f, TRUE)
             /\ flags \subseteq {"show", "hide"}
<1> DEFINE list == InForce
           flags == Get(elements, name, [flags |-> {}]).flags
<1>1. flags = FlagsIn(elements, name)
  BY DEF Get, FlagsIn
<1>2. /\ list \in Seq(Known) /\ \A i \in DOMAIN list : IsFile(list[i])
      /\ \A x : x \in FlagsIn(elements, name) <=>
            \E i \in DOMAIN list : \E sec \in Range(list[i]["element"]) : sec.title = name /\ x = FlagOf(sec)
  BY ReadyRead DEF AllStand, FilesThere, ElementsStand
<1> HIDE DEF list, flags
<1>3. ASSUME NEW i \in DOMAIN list, NEW sec \in Range(list[i]["element"])
      PROVE  /\ FlagOf(sec) = "hide" <=> sec.show = FALSE
             /\ FlagOf(sec) = "show" <=> sec.show = TRUE
             /\ FlagOf(sec) \in {"show", "hide"}
  <2>1. sec.show \in BOOLEAN
    BY <1>2 DEF IsFile
  <2>2. CASE sec.show
    <3>1. sec.show = TRUE
      BY <2>1, <2>2
    <3> QED
      BY <3>1 DEF FlagOf
  <2>3. CASE ~sec.show
    <3>1. sec.show = FALSE
      BY <2>1, <2>3
    <3> QED
      BY <3>1 DEF FlagOf
  <2> QED
    BY <2>2, <2>3
<1>4. \A x : x \in flags <=>
         \E i \in DOMAIN list : \E sec \in Range(list[i]["element"]) : sec.title = name /\ x = FlagOf(sec)
  BY <1>1, <1>2
<1>5. "hide" \in flags <=> \E f \in Range(list) : \E sec \in Range(f["element"]) : sec.title = name /\ sec.show = FALSE
  <2>1. \A f : f \in Range(list) <=> \E i \in DOMAIN list : f = list[i]
    BY DEF Range
  <2>2. "hide" \in flags <=> \E i \in DOMAIN list : \E sec \in Range(list[i]["element"]) : sec.title = name /\ sec.show = FALSE
    BY <1>3, <1>4
  <2> QED
    BY <2>1, <2>2
<1>6. "show" \in flags <=> \E f \in Range(list) : \E sec \in Range(f["element"]) : sec.title = name /\ sec.show = TRUE
  <2>1. \A f : f \in Range(list) <=> \E i \in DOMAIN list : f = list[i]
    BY DEF Range
  <2>2. "show" \in flags <=> \E i \in DOMAIN list : \E sec \in Range(list[i]["element"]) : sec.title = name /\ sec.show = TRUE
    BY <1>3, <1>4
  <2> QED
    BY <2>1, <2>2
<1>7. flags \subseteq {"show", "hide"}
  BY <1>3, <1>4
<1> QED
  BY <1>5, <1>6, <1>7 DEF list, flags

\* When bmon comes to its modules, the policy is that of the option.
LEMMA PolicyParsed == StartupSpec => [](Ready => policy = ParsePolicy(conf["policy"]))
<1> DEFINE Parsed == Ready => policy = ParsePolicy(conf["policy"])
<1>1. StartupInit => Parsed
  BY DEF StartupInit, Ready
<1>2. ASSUME Steady, Parsed, [StartupNext]_startup PROVE Parsed'
  <2>1. CASE ConfInitPost
    BY <2>1 DEF ConfInitPost
  <2>2. CASE UNCHANGED startup
    BY <1>2, <2>2 DEF startup, Ready
  <2>3. CASE ConfInitPre \/ ParseArgsPre \/ EndArgsPre \/ ConfigfileRead \/ ParseArgsPost
    <3>1. stage' # "ready"
      BY <2>3 DEF ConfInitPre, ParseArgsPre, EndArgsPre, ConfigfileRead, ConfRead, Read, Leave, GoTo,
                  ParseArgsPost, NextArg
    <3> QED
      BY <3>1 DEF Ready
  <2> QED
    BY <1>2, <2>1, <2>2, <2>3 DEF StartupNext
<1> QED
  BY <1>1, <1>2, SteadyAlways, PTL DEF StartupSpec

\* What is shown is what rules and files say.
THEOREM PolicyAsWrittenHolds == StartupSpec => []PolicyAsWritten
<1>1. ASSUME Defined, Ready => policy = ParsePolicy(conf["policy"]) PROVE PolicyAsWritten
  <2> SUFFICES ASSUME Ready, conf["policy"] = PolicyText(meant.rules), NEW name \in meant.names
               PROVE  LET flags == Get(elements, name, [flags |-> {}]).flags
                          Says(f, show) == \E sec \in Range(f["element"]) : sec.title = name /\ sec.show = show
                          rules == {meant.rules[i] : i \in DOMAIN meant.rules} \ {[deny |-> FALSE, mask |-> <<>>]}
                          matching == {rule \in rules : Wildcard(rule.mask, name)}
                          asked == /\ \A rule \in matching : ~rule.deny
                                   /\ (\A rule \in rules : rule.deny) \/ matching # {}
                          shown == ElementAllowed(name, flags, policy)
                      IN  /\ \A rule \in rules : MatchMask(rule.mask, name) => rule \in matching
                          /\ CASE \E f \in Range(InForce) : Says(f, FALSE) -> ~shown
                               [] \E f \in Range(InForce) : Says(f, TRUE) /\ \A g \in Range(InForce) : ~Says(g, FALSE) -> shown
                               [] OTHER -> (\A rule \in rules : IsPlain(rule.mask, name)) => (shown <=> asked)
    BY DEF PolicyAsWritten
  <2> DEFINE flags == Get(elements, name, [flags |-> {}]).flags
             Says(f, show) == \E sec \in Range(f["element"]) : sec.title = name /\ sec.show = show
             list == meant.rules
             rules == Live(list)
             matching == {rule \in rules : Wildcard(rule.mask, name)}
             asked == /\ \A rule \in matching : ~rule.deny
                      /\ (\A rule \in rules : rule.deny) \/ matching # {}
             shown == ElementAllowed(name, flags, policy)
  <2>1. PICK s \in Starts : meant = s.meant
    BY <1>1 DEF Defined, Started
  <2>2. /\ list \in Seq(Range(list)) /\ \A i \in DOMAIN list : IsRule(list[i])
        /\ name \in Seq(Range(name))
    BY <2>1, MeaningAssumption
  <2> HIDE DEF list
  <2>3. ASSUME NEW rule \in rules
        PROVE  /\ MatchMask(rule.mask, name) => Wildcard(rule.mask, name)
               /\ IsPlain(rule.mask, name) /\ Wildcard(rule.mask, name) => MatchMask(rule.mask, name)
    <3> DEFINE S == Range(rule.mask) \cup Range(name)
               mask == rule.mask
    <3>1. mask \in Seq(Range(mask))
      BY <2>2 DEF Live, IsRule, Without
    <3>2. mask \in Seq(S) /\ name \in Seq(S)
      BY <2>2, <3>1, SeqMonotonic
    <3> HIDE DEF mask, S
    <3>3. /\ MatchMask(mask, name) => Wildcard(mask, name)
          /\ IsPlain(mask, name) /\ Wildcard(mask, name) => MatchMask(mask, name)
      BY <3>2, MaskFacts
    <3> QED
      BY <3>3 DEF mask
  <2>4. /\ MatchesAny(policy.denied, name) <=> \E rule \in rules : rule.deny /\ MatchMask(rule.mask, name)
        /\ MatchesAny(policy.allowed, name) <=> \E rule \in rules : ~rule.deny /\ MatchMask(rule.mask, name)
        /\ policy.allowed = <<>> <=> \A rule \in rules : rule.deny
    <3>1. policy = ParsePolicy(PolicyText(list))
      BY <1>1 DEF list
    <3> QED
      BY <2>2, <3>1, ParsePolicyFact
  <2>5. /\ "hide" \in flags <=> \E f \in Range(InForce) : Says(f, FALSE)
        /\ "show" \in flags <=> \E f \in Range(InForce) : Says(f, TRUE)
        /\ flags \subseteq {"show", "hide"}
    BY <1>1, FlagsFact
  <2> HIDE DEF flags, Says, rules
  <2>6. /\ "hide" \in flags => ~shown
        /\ "hide" \notin flags /\ "show" \in flags => shown
    <3>1. flags # {} /\ "hide" \notin flags => "show" \in flags
      BY <2>5
    <3>2. ASSUME "hide" \in flags PROVE ~shown
      BY <3>2 DEF ElementAllowed
    <3>3. ASSUME "hide" \notin flags, "show" \in flags PROVE shown
      BY <3>3 DEF ElementAllowed
    <3> QED
      BY <3>2, <3>3
  <2>7. ASSUME "hide" \notin flags, "show" \notin flags, \A rule \in rules : IsPlain(rule.mask, name)
        PROVE  shown <=> asked
    <3>1. flags = {}
      BY <2>5, <2>7
    <3>2. shown <=> /\ ~MatchesAny(policy.denied, name)
                    /\ policy.allowed = <<>> \/ MatchesAny(policy.allowed, name)
      BY <3>1 DEF ElementAllowed
    <3>3. \A rule \in rules : rule \in matching <=> MatchMask(rule.mask, name)
      BY <2>3, <2>7
    <3>4. ~MatchesAny(policy.denied, name) <=> \A rule \in matching : ~rule.deny
      BY <2>4, <3>3
    <3>5. ASSUME \A rule \in matching : ~rule.deny PROVE MatchesAny(policy.allowed, name) <=> matching # {}
      BY <2>4, <3>3, <3>5
    <3> HIDE DEF matching, shown
    <3> QED
      BY <2>4, <3>2, <3>4, <3>5
  <2>8. \A rule \in rules : MatchMask(rule.mask, name) => rule \in matching
    BY <2>3
  <2> DEFINE hides == \E f \in Range(InForce) : Says(f, FALSE)
             shows == \E f \in Range(InForce) : Says(f, TRUE) /\ \A g \in Range(InForce) : ~Says(g, FALSE)
             plain == \A rule \in rules : IsPlain(rule.mask, name)
  <2>9. /\ hides => ~shown
        /\ shows => shown /\ ~hides
        /\ ~hides /\ ~shows => (plain => (shown <=> asked))
    <3> HIDE DEF shown, asked
    <3> QED
      BY <2>5, <2>6, <2>7
  <2>10. (CASE hides -> ~shown [] shows -> shown [] OTHER -> (plain => (shown <=> asked)))
    <3> HIDE DEF hides, shows, plain, shown, asked
    <3>1. CASE hides
      BY <2>9, <3>1
    <3>2. CASE ~hides /\ shows
      BY <2>9, <3>2
    <3>3. CASE ~hides /\ ~shows
      BY <2>9, <3>3
    <3> QED
      BY <3>1, <3>2, <3>3
  <2> QED
    BY <2>8, <2>10 DEF rules, Live, NoRule, list, flags, Says
<1> QED
  BY <1>1, DefinedAlways, PolicyParsed, PTL

-----------------------------------------------------------------------------
(***************************************************************************)
(* The modules, from module_init() to the end.                              *)
(***************************************************************************)
SS == {"input", "output"}

\* The inductive invariant.  ClosedOnce needs what the flag of do_shutdown()
\* says wherever main() is; SomethingRuns that s_nmod counts modules that are
\* enabled or have failed since; RunsReady how far module_init() has come.
FlagTells ==
    /\ pc \in {"args", "init", "pre", "read", "draw", "quit", "aborted"} => ~done
    /\ pc = "gone" => done
    /\ closed = [m \in Closing |-> IF done THEN 1 ELSE 0]

Counted == ~done => \A ss \in SS : s_nmod[ss] # 0 => Of(ss) \cap (enabled \cup lost) # {}

Activated ==
    /\ pc = "args" => at = [ss |-> 1, m |-> 0]
    /\ pc = "init" /\ (at.ss = 2 \/ at.m > 0) => s_nmod["input"] # 0
    /\ pc = "init" /\ at.ss = 2 /\ at.m > 0 => s_nmod["output"] # 0
    /\ Looping => \A ss \in SS : s_nmod[ss] # 0

InitReached ==
    /\ enabled \subseteq probed
    /\ pc = "init" => \A i \in DOMAIN ModList[Here] :
                          i < at.m /\ ModList[Here][i] \in enabled => ModList[Here][i] \in ready
    /\ pc = "init" /\ at.ss = 2 => Of("input") \cap enabled \subseteq ready
    /\ Looping => enabled \subseteq ready

MInv == TypeOK /\ FlagTells /\ Counted /\ Activated /\ InitReached

-----------------------------------------------------------------------------
\* What the list of a subsystem holds are its modules.
LEMMA ListFacts ==
  ASSUME NEW ss \in SS
  PROVE  /\ ModList[ss] \in Seq(Modules) /\ Of(ss) \subseteq Modules
         /\ \A i \in DOMAIN ModList[ss] : ModList[ss][i] \in Of(ss)
         /\ DOMAIN ModList[ss] = 1 .. Len(ModList[ss]) /\ Len(ModList[ss]) \in Nat
         /\ Default[ss] \in Of(ss)
BY ListAssumption, DefaultAssumption DEF SS, ModList, Of, Modules

\* The walk stands in the list of a subsystem.
LEMMA HereFacts ==
  ASSUME TypeOK
  PROVE  /\ Here \in SS
         /\ at.ss = 1 <=> Here = "input"
         /\ at.ss = 2 <=> Here = "output"
BY DEF TypeOK, Here, Subsystems, SS

\* The number of modules that work is a number, and zero if none does.
LEMMA WorkingFacts ==
  ASSUME NEW n \in Nat, NEW working \in SUBSET (1 .. n)
  PROVE  Cardinality(working) \in Nat /\ (Cardinality(working) = 0 <=> working = {})
<1>1. IsFiniteSet(working)
  <2>1. IsFiniteSet(1 .. n)
    BY FS_Interval
  <2> QED
    BY <2>1, FS_Subset
<1> QED
  BY <1>1, FS_CardinalityType, FS_EmptySet

\* Configuring modules of a subsystem counts and enables them.
LEMMA ConfigureStep ==
  ASSUME MInv, ~done, NEW ss \in SS, NEW k \in Nat, NEW names \in [1 .. k -> Of(ss)],
         NEW working \in SUBSET (1 .. k), Configure(ss, names, working), UNCHANGED lost
  PROVE  /\ enabled' \subseteq Modules /\ probed' \subseteq Modules
         /\ s_nmod' \in [SS -> Nat]
         /\ \A x \in SS : s_nmod[x] # 0 => s_nmod'[x] # 0
         /\ \A x \in SS : s_nmod'[x] # 0 => Of(x) \cap (enabled' \cup lost') # {}
         /\ enabled' \subseteq probed'
         /\ enabled' \ enabled \subseteq Of(ss)
         /\ s_nmod'[ss] = s_nmod[ss] + Cardinality(working)
<1> DEFINE new == {names[i] : i \in working}
<1>1. new \subseteq Of(ss) /\ new \subseteq Modules /\ (working # {} => new # {})
  BY ListFacts
<1>2. Cardinality(working) \in Nat /\ (Cardinality(working) = 0 <=> working = {})
  BY WorkingFacts
<1>3. enabled' = enabled \cup new /\ probed' = probed \cup new
  BY DEF Configure
<1>4. s_nmod \in [SS -> Nat] /\ s_nmod' = [s_nmod EXCEPT ![ss] = @ + Cardinality(working)]
  BY DEF Configure, MInv, TypeOK, SS
<1>5. s_nmod' \in [SS -> Nat] /\ s_nmod'[ss] = s_nmod[ss] + Cardinality(working)
  BY <1>2, <1>4
<1>6. \A x \in SS : s_nmod[x] # 0 => s_nmod'[x] # 0
  BY <1>2, <1>4
<1> HIDE DEF new
<1>7. ASSUME NEW x \in SS, s_nmod'[x] # 0 PROVE Of(x) \cap (enabled' \cup lost') # {}
  <2>1. CASE s_nmod[x] # 0
    BY <1>3, <2>1 DEF MInv, Counted
  <2>2. CASE s_nmod[x] = 0
    <3>1. x = ss /\ Cardinality(working) # 0
      BY <1>2, <1>4, <1>7, <2>2
    <3>2. new # {} /\ new \subseteq Of(x)
      BY <1>1, <1>2, <3>1
    <3> QED
      BY <1>3, <3>2
  <2> QED
    BY <2>1, <2>2
<1> QED
  BY <1>1, <1>3, <1>5, <1>6, <1>7 DEF MInv, TypeOK, InitReached

-----------------------------------------------------------------------------
\* No module is enabled and none is closed in the beginning.
LEMMA InitMInv == Init => MInv
<1> SUFFICES ASSUME Init PROVE MInv
  OBVIOUS
<1>1. TypeOK
  <2>1. closed \in [Closing -> Nat] /\ s_nmod \in [{"input", "output"} -> Nat]
    BY DEF Init
  <2>2. at \in [ss : 1 .. 2, m : Nat]
    BY DEF Init
  <2>3. done \in BOOLEAN /\ enabled \subseteq Modules /\ pc = "args"
    BY DEF Init
  <2>4. probed \subseteq Modules /\ ready \subseteq Modules /\ lost \subseteq Modules
    BY DEF Init
  <2> QED
    BY <2>1, <2>2, <2>3, <2>4 DEF TypeOK
<1>2. FlagTells
  BY DEF Init, FlagTells
<1>3. Counted
  BY DEF Init, Counted, SS
<1>4. Activated /\ InitReached
  BY DEF Init, Activated, InitReached, Looping
<1> QED
  BY <1>1, <1>2, <1>3, <1>4 DEF MInv

\* module_set() enables modules that are probed, and counts them.
LEMMA SetStep == ASSUME MInv, NEW ss \in SS, Set(ss) PROVE MInv'
<1>1. ~done /\ pc = "args" /\ UNCHANGED <<at, done, ready, lost, closed>>
  BY DEF Set, MInv, FlagTells
<1>2. PICK k \in 1 .. MaxSet - s_nmod[ss] : \E names \in [1 .. k -> Of(ss)] : ModuleSet(ss, names)
  BY DEF Set
<1>3. k \in Nat
  BY <1>2, BoundAssumption DEF MInv, TypeOK, SS
<1>4. PICK names \in [1 .. k -> Of(ss)] : ModuleSet(ss, names)
  BY <1>2
<1>5. Len(names) = k
  BY <1>3, <1>4
<1>6. PICK n \in 0 .. Len(names) : \E working \in Working(names, n) :
          /\ Configure(ss, names, working)
          /\ pc' \in {"args", "quit", "exit"}
  BY <1>1, <1>4 DEF ModuleSet
<1>7. PICK working \in SUBSET (1 .. k) :
          Configure(ss, names, working) /\ pc' \in {"args", "quit", "exit"}
  BY <1>6, <1>3, <1>5 DEF Working
<1>8. /\ enabled' \subseteq Modules /\ probed' \subseteq Modules /\ s_nmod' \in [SS -> Nat]
      /\ \A x \in SS : s_nmod'[x] # 0 => Of(x) \cap (enabled' \cup lost') # {}
      /\ enabled' \subseteq probed'
  BY <1>1, <1>7, <1>3, <1>4, ConfigureStep
<1> QED
  BY <1>1, <1>7, <1>8 DEF MInv, TypeOK, FlagTells, Counted, Activated, InitReached, Looping, SS

\* A subsystem for which no module was asked gets its default one.
LEMMA ActivateDefaultStep == ASSUME MInv, ActivateDefault PROVE MInv'
<1>1. /\ ~done /\ pc = "init" /\ at.m = 0 /\ at' = [at EXCEPT !.m = 1]
      /\ UNCHANGED <<done, ready, lost, closed>>
  BY DEF ActivateDefault, MInv, FlagTells
<1>2. Here \in SS /\ (at.ss = 1 <=> Here = "input") /\ (at.ss = 2 <=> Here = "output")
  BY HereFacts DEF MInv
<1>3. at' \in [ss : 1 .. 2, m : Nat] /\ at'.ss = at.ss /\ at'.m = 1 /\ Here' = Here
  BY <1>1 DEF MInv, TypeOK, Here
<1>4. CASE s_nmod[Here] # 0
  <2>1. UNCHANGED <<pc, enabled, s_nmod, probed>>
    BY <1>4 DEF ActivateDefault
  <2> QED
    BY <1>1, <1>2, <1>3, <1>4, <2>1, ListFacts
       DEF MInv, TypeOK, FlagTells, Counted, Activated, InitReached, Looping
<1>5. CASE s_nmod[Here] = 0
  <2> DEFINE names == <<Default[Here]>>
  <2>1. PICK working \in Working(names, 1) :
            /\ Configure(Here, names, working)
            /\ pc' = IF NoneWorks(Here, names, working) THEN "quit" ELSE "init"
    BY <1>5 DEF ActivateDefault
  <2>2. names \in [1 .. 1 -> Of(Here)] /\ working \in SUBSET (1 .. 1)
    BY <1>2, <2>1, ListFacts DEF Working
  <2> HIDE DEF names
  <2>3. /\ enabled' \subseteq Modules /\ probed' \subseteq Modules /\ s_nmod' \in [SS -> Nat]
        /\ \A x \in SS : s_nmod[x] # 0 => s_nmod'[x] # 0
        /\ \A x \in SS : s_nmod'[x] # 0 => Of(x) \cap (enabled' \cup lost') # {}
        /\ enabled' \subseteq probed'
        /\ enabled' \ enabled \subseteq Of(Here)
        /\ s_nmod'[Here] = s_nmod[Here] + Cardinality(working)
    <3>1. PICK h \in SS : h = Here
      BY <1>2
    <3>2. Configure(h, names, working) /\ names \in [1 .. 1 -> Of(h)]
      BY <2>1, <2>2, <3>1
    <3>3. 1 \in Nat /\ working \in SUBSET (1 .. 1) /\ ~done /\ UNCHANGED lost
      BY <1>1, <2>2
    <3>4. /\ enabled' \subseteq Modules /\ probed' \subseteq Modules /\ s_nmod' \in [SS -> Nat]
          /\ \A x \in SS : s_nmod[x] # 0 => s_nmod'[x] # 0
          /\ \A x \in SS : s_nmod'[x] # 0 => Of(x) \cap (enabled' \cup lost') # {}
          /\ enabled' \subseteq probed'
          /\ enabled' \ enabled \subseteq Of(h)
          /\ s_nmod'[h] = s_nmod[h] + Cardinality(working)
      BY <3>2, <3>3, ConfigureStep
    <3> QED
      BY <3>1, <3>4
  <2>4. pc' = "init" => s_nmod'[Here] # 0
    BY <2>1, <2>3 DEF NoneWorks
  <2>5. at.ss = 2 => Of("input") \cap enabled' \subseteq ready'
    BY <1>1, <1>2, <2>3, ListAssumption DEF MInv, InitReached
  <2>6. Activated'
    BY <1>1, <1>2, <1>3, <2>1, <2>3, <2>4 DEF MInv, Activated, Looping, SS, TypeOK
  <2>7. InitReached'
    BY <1>2, <1>3, <2>1, <2>3, <2>5, ListFacts DEF InitReached, Looping
  <2>8. TypeOK'
    BY <1>1, <1>3, <2>1, <2>3 DEF MInv, TypeOK, SS
  <2> QED
    BY <1>1, <2>1, <2>3, <2>6, <2>7, <2>8 DEF MInv, FlagTells, Counted
<1> QED
  BY <1>4, <1>5

\* A module is ready once its m_init has succeeded, and disabled if it fails.
LEMMA ModuleInitStep == ASSUME MInv, ModuleInit PROVE MInv'
<1> DEFINE m == ModList[Here][at.m]
<1>1. /\ ~done /\ pc = "init" /\ at.m \in DOMAIN ModList[Here] /\ at' = [at EXCEPT !.m = @ + 1]
      /\ UNCHANGED <<pc, s_nmod, done, probed, closed>>
  BY DEF ModuleInit, MInv, FlagTells
<1>2. Here \in SS /\ m \in Of(Here) /\ m \in Modules /\ at.m \in Nat /\ at.m > 0
  BY <1>1, HereFacts, ListFacts DEF MInv, TypeOK
<1>3. at' \in [ss : 1 .. 2, m : Nat] /\ at'.ss = at.ss /\ at'.m = at.m + 1 /\ Here' = Here
  BY <1>1, <1>2 DEF MInv, TypeOK, Here
<1>4. \/ ready' = ready \cup {m} /\ UNCHANGED <<enabled, lost>>
      \/ /\ enabled' = enabled \ {m} /\ UNCHANGED ready
         /\ lost' = IF m \in enabled THEN lost \cup {m} ELSE lost
  BY DEF ModuleInit, Disable
<1> HIDE DEF m
<1>5. /\ enabled' \subseteq enabled /\ ready \subseteq ready'
      /\ enabled' \cup lost' = enabled \cup lost
      /\ m \in enabled' => m \in ready'
      /\ ready' \subseteq Modules /\ lost' \subseteq Modules
  BY <1>2, <1>4 DEF MInv, TypeOK
<1>6. TypeOK'
  BY <1>1, <1>3, <1>5 DEF MInv, TypeOK
<1>7. \A i \in DOMAIN ModList[Here] :
          i < at'.m /\ ModList[Here][i] \in enabled' => ModList[Here][i] \in ready'
  <2>1. SUFFICES ASSUME NEW i \in DOMAIN ModList[Here], i < at.m + 1, ModList[Here][i] \in enabled'
                 PROVE  ModList[Here][i] \in ready'
    BY <1>3
  <2>2. i \in Nat
    BY <1>2, ListFacts
  <2>3. CASE i = at.m
    BY <1>5, <2>1, <2>3 DEF m
  <2>4. CASE i < at.m
    BY <1>1, <1>5, <2>1, <2>4 DEF MInv, InitReached
  <2> QED
    BY <1>2, <2>1, <2>2, <2>3, <2>4
<1>8. InitReached'
  BY <1>1, <1>3, <1>5, <1>7 DEF MInv, InitReached, Looping
<1>9. Activated'
  BY <1>1, <1>2, <1>3 DEF MInv, Activated, Looping
<1> QED
  BY <1>1, <1>5, <1>6, <1>8, <1>9 DEF MInv, FlagTells, Counted

\* bmon goes on to the next subsystem when it has modules in this one.
LEMMA NextSubsystemStep == ASSUME MInv, NextSubsystem PROVE MInv'
<1>1. /\ ~done /\ pc = "init" /\ at.m > Len(ModList[Here])
      /\ UNCHANGED <<enabled, s_nmod, done, history>>
  BY DEF NextSubsystem, MInv, FlagTells
<1>2. Here \in SS /\ (at.ss = 1 <=> Here = "input") /\ (at.ss = 2 <=> Here = "output")
  BY HereFacts DEF MInv
<1>3. /\ DOMAIN ModList[Here] = 1 .. Len(ModList[Here]) /\ Len(ModList[Here]) \in Nat
      /\ at.m \in Nat /\ at.m > 0 /\ at.ss \in {1, 2}
  BY <1>1, <1>2, ListFacts DEF MInv, TypeOK
<1>4. Of(Here) \cap enabled \subseteq ready
  <2>1. \A i \in DOMAIN ModList[Here] : i < at.m
    BY <1>1, <1>3
  <2> QED
    BY <1>1, <2>1 DEF MInv, InitReached, Of
<1>5. CASE at.ss = 1
  <2>1. pc' = pc /\ at' = [ss |-> 2, m |-> 0]
    BY <1>5 DEF NextSubsystem, Subsystems
  <2> QED
    BY <1>1, <1>2, <1>3, <1>4, <1>5, <2>1, ListFacts
       DEF MInv, TypeOK, FlagTells, Counted, Activated, InitReached, Looping, history, Here, Subsystems, SS
<1>6. CASE at.ss = 2
  <2>1. pc' = "pre" /\ at' = [ss |-> 2, m |-> 1]
    BY <1>6 DEF NextSubsystem, Subsystems
  <2>2. enabled \subseteq ready
    BY <1>1, <1>2, <1>4, <1>6 DEF MInv, InitReached, TypeOK, Modules
  <2> QED
    BY <1>1, <1>3, <1>6, <2>1, <2>2
       DEF MInv, TypeOK, FlagTells, Counted, Activated, InitReached, Looping, history, SS
<1> QED
  BY <1>3, <1>5, <1>6

\* A module that fails is disabled, and stays counted.
LEMMA RunModuleStep == ASSUME MInv, RunModule PROVE MInv'
<1> DEFINE m == ModList[Here][at.m]
<1>1. /\ ~done /\ Looping /\ at.m \in DOMAIN ModList[Here] /\ at' = [at EXCEPT !.m = @ + 1]
      /\ UNCHANGED <<s_nmod, done, probed, ready, closed>>
      /\ pc' \in {pc, "quit", "exit", "aborted"}
  BY DEF RunModule, MInv, FlagTells, Looping
<1>2. \/ UNCHANGED <<enabled, lost>>
      \/ m \in enabled /\ enabled' = enabled \ {m} /\ lost' = lost \cup {m}
  BY DEF RunModule, Disable
<1> HIDE DEF m
<1>3. enabled' \subseteq enabled /\ enabled' \cup lost' = enabled \cup lost /\ lost' \subseteq Modules
  BY <1>2 DEF MInv, TypeOK
<1>4. at' \in [ss : 1 .. 2, m : Nat]
  BY <1>1 DEF MInv, TypeOK
<1> QED
  BY <1>1, <1>3, <1>4 DEF MInv, TypeOK, FlagTells, Counted, Activated, InitReached, Looping

\* bmon reads and draws in turn.
LEMMA NextPhaseStep == ASSUME MInv, NextPhase PROVE MInv'
BY DEF NextPhase, MInv, TypeOK, FlagTells, Counted, Activated, InitReached, Looping, history

\* bmon ends early, or goes on from the command line to its modules.
LEMMA ArgsStep == ASSUME MInv, LeaveEarly \/ EndArgs \/ Abort PROVE MInv'
<1>1. CASE LeaveEarly
  BY <1>1 DEF LeaveEarly, MInv, TypeOK, FlagTells, Counted, Activated, InitReached, Looping, history
<1>2. CASE Abort
  BY <1>2 DEF Abort, MInv, TypeOK, FlagTells, Counted, Activated, InitReached, Looping, history
<1>3. CASE EndArgs
  <2>1. /\ pc = "args" /\ pc' = "init" /\ at' = [ss |-> 1, m |-> 0]
        /\ UNCHANGED <<at, enabled, s_nmod, done, probed, ready, lost, closed>>
    BY <1>3 DEF EndArgs, MInv, Activated, history
  <2>2. at'.ss = 1 /\ at'.m = 0
    BY <2>1
  <2>3. \A i \in DOMAIN ModList[Here'] : ~(i < at'.m)
    <3>1. Here' = "input"
      BY <2>2 DEF Here, Subsystems
    <3> QED
      BY <2>2, <3>1, ListFacts DEF SS
  <2>4. InitReached'
    BY <2>1, <2>2, <2>3 DEF MInv, InitReached, Looping
  <2>5. Activated'
    BY <2>1, <2>2 DEF Activated, Looping
  <2>6. TypeOK' /\ FlagTells'
    BY <2>1 DEF MInv, TypeOK, FlagTells
  <2>7. Counted'
    BY <2>1 DEF MInv, Counted
  <2> QED
    BY <2>4, <2>5, <2>6, <2>7 DEF MInv
<1> QED
  BY <1>1, <1>2, <1>3

\* do_shutdown() closes what is to be closed, once.
LEMMA ShutdownStep == ASSUME MInv, Quit \/ Exit PROVE MInv'
<1>1. CASE Quit
  BY <1>1, ClosingAssumption DEF Quit, DoShutdown, MInv, TypeOK, FlagTells, Counted, Activated, InitReached, Looping
<1>2. CASE Exit
  <2>1. pc = "exit" /\ pc' = "gone" /\ DoShutdown /\ UNCHANGED <<at, s_nmod, probed, ready, lost>>
    BY <1>2 DEF Exit
  <2>2. done' /\ enabled' \subseteq enabled
    BY <2>1 DEF DoShutdown
  <2>3. closed' = [m \in Closing |-> 1]
    BY <2>1 DEF DoShutdown, MInv, FlagTells
  <2>4. TypeOK'
    BY <2>1, <2>2, <2>3 DEF DoShutdown, MInv, TypeOK
  <2>5. FlagTells'
    BY <2>1, <2>2, <2>3 DEF FlagTells
  <2>6. Counted' /\ Activated' /\ InitReached'
    BY <2>1, <2>2 DEF MInv, Counted, Activated, InitReached, Looping
  <2> QED
    BY <2>4, <2>5, <2>6 DEF MInv
<1> QED
  BY <1>1, <1>2

\* The invariant holds throughout.
THEOREM Invariant == Spec => []MInv
<1>1. MInv /\ [Next]_vars => MInv'
  <2> SUFFICES ASSUME MInv, [Next]_vars PROVE MInv'
    OBVIOUS
  <2>1. CASE UNCHANGED vars
    BY <2>1 DEF vars, history, MInv, TypeOK, FlagTells, Counted, Activated, InitReached, Looping, Here
  <2>2. CASE \E ss \in {"input", "output"} : Set(ss)
    BY <2>2, SetStep DEF SS
  <2>3. CASE LeaveEarly \/ EndArgs \/ Abort
    BY <2>3, ArgsStep
  <2>4. CASE ActivateDefault
    BY <2>4, ActivateDefaultStep
  <2>5. CASE ModuleInit
    BY <2>5, ModuleInitStep
  <2>6. CASE NextSubsystem
    BY <2>6, NextSubsystemStep
  <2>7. CASE RunModule
    BY <2>7, RunModuleStep
  <2>8. CASE NextPhase
    BY <2>8, NextPhaseStep
  <2>9. CASE Quit \/ Exit
    BY <2>9, ShutdownStep
  <2> QED
    BY <2>1, <2>2, <2>3, <2>4, <2>5, <2>6, <2>7, <2>8, <2>9 DEF Next
<1> QED
  BY <1>1, InitMInv, PTL DEF Spec

\* Whatever the modules are and however bmon ends, short of BUG(), every
\* m_shutdown has been called once when it has ended.
THEOREM ShutdownIsOnce == Spec => []ClosedOnce
<1>1. MInv => ClosedOnce
  BY DEF MInv, FlagTells, ClosedOnce
<1> QED
  BY <1>1, Invariant, PTL

\* The main loop runs only modules that were probed and initialised with success.
THEOREM OnlyReadyRun == Spec => []RunsReady
<1>1. MInv => RunsReady
  BY DEF MInv, InitReached, RunsReady
<1> QED
  BY <1>1, Invariant, PTL

\* The main loop always has an input and an output, unless one failed.
THEOREM SomethingAlwaysRuns == Spec => []SomethingRuns
<1>1. MInv => SomethingRuns
  BY DEF MInv, FlagTells, Counted, Activated, SomethingRuns, Looping, SS
<1> QED
  BY <1>1, Invariant, PTL

=============================================================================
