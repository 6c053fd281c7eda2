----------------------------- MODULE MCStartup -----------------------------
(* Model checking instance of Startup.  What bmon is started with varies in one     *)
(* respect at a time: the command line, the sections of the files, the policy, the  *)
(* modules.  Each place that sets an option gives it a digit of its own.            *)
EXTENDS Startup, TLC

CONSTANTS Letters, MaxMask, MaxArgs

MCLowerOf == [c \in {"A"} |-> "a"]

MCDefaults ==
    [read_interval |-> <<"1">>, rate_interval |-> <<"1">>, sleep_time |-> <<"1">>, policy |-> <<>>,
     lifetime |-> <<"3">>, show_all |-> FALSE, use_si |-> FALSE, use_bit |-> FALSE]

Frac(d, t) == [div |-> d, txt |-> t]
Variant(t, divs) == [title |-> t, div |-> divs, ntxt |-> Len(divs)]
Unit(t, variants) == [title |-> t, variants |-> variants]
History(t, i) == [title |-> t, interval |-> i, type |-> "64bit"]
Attr(t, u) == [title |-> t, unit |-> u, type |-> "counter"]
Element(t, show, max) == [title |-> t, show |-> show, max |-> max, rxmax |-> <<"0">>, txmax |-> <<"0">>]

Empty == [opts |-> <<>>, malformed |-> FALSE, unit |-> <<>>, history |-> <<>>, attr |-> <<>>, element |-> <<>>]

\* Byte is divided in half, for bits, or in powers of 3 or 2.
MCDefaultConfig ==
    [Empty EXCEPT !.unit = << Unit("byte", << Variant("default", <<Frac(2, "B"), Frac(6, "K")>>),
                                              Variant("si", <<Frac(2, "B"), Frac(4, "k")>>),
                                              Variant("bit", <<Frac(1, "b"), Frac(3, "Kb")>>) >>),
                              Unit("number", << Variant("default", <<Frac(2, ""), Frac(24, "K")>>) >>) >>,
                  !.history = << History("second", <<"1">>) >>]

\* Files that set options, or define things.
OptionFile(d) == [Empty EXCEPT !.opts = [read_interval |-> d, sleep_time |-> d]]

SectionFiles(d) ==
    {Empty,
     [Empty EXCEPT !.opts = [read_interval |-> d]],
     [Empty EXCEPT !.opts = [use_si |-> TRUE]],
     [Empty EXCEPT !.opts = [use_bit |-> TRUE]],
     [Empty EXCEPT !.history = <<History("second", d)>>],
     [Empty EXCEPT !.history = <<History("second", <<"0">>), History("x", d)>>],
     [Empty EXCEPT !.history = <<History("x", <<"0">>)>>, !.opts = [read_interval |-> d]],
     [Empty EXCEPT !.history = <<[History("x", d) EXCEPT !.type = "7bit"]>>],
     [Empty EXCEPT !.unit = <<Unit("byte", <<Variant("default", <<Frac(2, "B"), Frac(10, "K")>>)>>)>>],
     [Empty EXCEPT !.unit = <<Unit("byte", <<Variant("bit", <<>>), Variant("si", <<Frac(4, "2")>>)>>)>>],
     [Empty EXCEPT !.unit = <<Unit("number", <<Variant("bit", <<Frac(4, "2")>>)>>), Unit("x", <<>>)>>],
     [Empty EXCEPT !.unit = <<Unit("byte", <<[Variant("si", <<Frac(4, "2")>>) EXCEPT !.ntxt = 2]>>)>>],
     [Empty EXCEPT !.unit = <<Unit("y", <<Variant("default", <<Frac(2, "")>>)>>)>>, !.attr = <<Attr("a", "y")>>],
     [Empty EXCEPT !.attr = <<Attr("a", "byte"), Attr("b", "y")>>],
     [Empty EXCEPT !.attr = <<Attr("a", "number")>>],
     [Empty EXCEPT !.element = <<Element(<<"a">>, FALSE, d)>>],
     [Empty EXCEPT !.element = <<Element(<<"a">>, TRUE, d), Element(<<"b">>, TRUE, <<"0">>)>>],
     [Empty EXCEPT !.malformed = TRUE]}

\* Arguments.
Argument(o, style, v) == [opt |-> o, style |-> style, value |-> v]
Args ==
    {Argument("f", "separate", <<"x">>), Argument("f", "attached", <<"y">>),
     Argument("configfile", "equals", <<"x">>),
     Argument("r", "separate", <<"6">>), Argument("r", "attached", <<"7">>), Argument("r", "equals", <<"8">>),
     Argument("p", "attached", <<"e", "t", "h">>), Argument("p", "separate", <<"e", "t", "h">>),
     Argument("p", "attached", <<"i", "f", "x">>), Argument("L", "attached", <<"9">>), Argument("b", "none", <<>>), Argument("word", "none", <<>>), Argument("h", "none", <<>>)}

NoMeaning == [rules |-> <<>>, modules |-> <<>>, names |-> {}, values |-> {}]
Files(system, user, x, y) == [system |-> system, user |-> user, given |-> (<<"x">> :> x @@ <<"y">> :> y)]
Start(args, fs, m) == [argv |-> args, files |-> fs, meant |-> m]

CommandLines ==
    {Start(args, Files(system, user, OptionFile(<<"4">>), OptionFile(<<"5">>)), NoMeaning) :
        args \in SeqOf(Args, MaxArgs), system \in {None, OptionFile(<<"2">>)}, user \in {None, OptionFile(<<"3">>)}}

Sections ==
    {Start(args, Files(system, user, None, None), [NoMeaning EXCEPT !.names = {<<"a">>, <<"b">>}, !.values = (0 .. 6) \cup (11 .. 13)]) :
        args \in {<<>>, <<Argument("b", "none", <<>>)>>, <<Argument("U", "none", <<>>)>>},
        system \in SectionFiles(<<"2">>), user \in SectionFiles(<<"3">>)}

\* Policies of one rule, or of two short ones.
MaskRules == [deny : BOOLEAN, mask : SeqOf(Letters \cup {"*"}, MaxMask) \ {<<>>}]
ShortMaskRules == {rule \in MaskRules : Len(rule.mask) <= 2}
Blank == [deny |-> FALSE, mask |-> <<>>]
Policies ==
    {Start(<<Argument("p", "separate", PolicyText(rules))>>, Files(None, None, None, None),
           [NoMeaning EXCEPT !.rules = rules, !.names = SeqOf(Letters, IF Len(rules) = 1 THEN MaxMask ELSE 2)]) :
        rules \in {<<r>> : r \in MaskRules} \cup {<<Blank, r, Blank>> : r \in ShortMaskRules}
                  \cup (ShortMaskRules \X ShortMaskRules)}

\* Modules with up to two options.
Types == {<<>>, <<"t">>}
Values == {None, <<>>, <<"=", "v">>, <<":">>}
Options == [type : Types, value : Values]
AskedModules == [name : {<<"a">>, <<"b">>}, attrs : SeqOf(Options, 2)]
ShortModules == {m \in AskedModules : Len(m.attrs) <= 1}
ModuleStart(opts, lists) ==
    Start([i \in DOMAIN lists |-> Argument(opts[i], "separate", ModulesText(lists[i]))],
          Files(None, None, None, None), [NoMeaning EXCEPT !.modules = lists])
ModuleLines ==
    {ModuleStart(<<"i">>, <<ms>>) : ms \in {<<m>> : m \in AskedModules} \cup (ShortModules \X ShortModules)}
    \cup {ModuleStart(opts, <<<<m>>, <<n>>>>) :
            opts \in {<<"i", "o">>, <<"o", "i">>, <<"o", "o">>}, m \in ShortModules, n \in ShortModules}
ModuleErrors ==
    {Start(<<Argument(o, "separate", t)>>, Files(None, None, None, None), NoMeaning) :
        o \in {"i", "o"}, t \in {<<"l", "i", "s", "t">>, <<"a", ",">>, <<>>}}

\* A file that is not there.
Missing == {Start(<<Argument("f", "separate", <<"z">>)>>, Files(None, None, None, None), NoMeaning)}

MCStarts == Missing \cup CommandLines \cup Sections \cup Policies \cup ModuleLines \cup ModuleErrors
=============================================================================
