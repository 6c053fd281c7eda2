------------------------------- MODULE Policy -------------------------------
(***************************************************************************)
(* Which elements bmon shows (src/element.c, src/element_cfg.c): the rules   *)
(* of the option policy, read from a string, and the element sections of    *)
(* the configuration.  A string is a sequence of characters.                *)
(***************************************************************************)
EXTENDS Naturals, Sequences, SequencesExt, FiniteSetsExt, Functions

CONSTANT
    LowerOf     \* tolower() of the upper-case characters

ASSUME LowerAssumption == \A c \in DOMAIN LowerOf : LowerOf[c] \notin DOMAIN LowerOf

Lower(c) == IF c \in DOMAIN LowerOf THEN LowerOf[c] ELSE c

\* Where the character behind the '*' at i stands in the name, from n on.
Stops(rule, name, i, n) == {k \in n .. Len(name) : Lower(name[k]) = Lower(rule[i + 1])}

\* match_mask(): a '*' runs to the first occurrence of the character behind it.
\* Mutant: a '*' at the end of the rule is for one character at least.
MatchMaskNonEmpty(rule, name) ==
    LET matches[i \in 1 .. Len(rule) + 1] == [n \in 1 .. Len(name) + 1 |->
            \/ i > Len(rule) /\ n > Len(name)
            \/ i = Len(rule) /\ rule[i] = "*" /\ n <= Len(name)
            \/ /\ i < Len(rule) /\ rule[i] = "*"
               /\ Stops(rule, name, i, n) # {} /\ matches[i + 1][Min(Stops(rule, name, i, n))]
            \/ /\ i <= Len(rule) /\ rule[i] # "*" /\ n <= Len(name)
               /\ Lower(rule[i]) = Lower(name[n]) /\ matches[i + 1][n + 1]]
    IN  matches[1][1]

MatchMask(rule, name) ==
    LET matches[i \in 1 .. Len(rule) + 1] == [n \in 1 .. Len(name) + 1 |->
            \/ i > Len(rule) /\ n > Len(name)
            \/ i = Len(rule) /\ rule[i] = "*"
            \/ /\ i < Len(rule) /\ rule[i] = "*"
               /\ Stops(rule, name, i, n) # {} /\ matches[i + 1][Min(Stops(rule, name, i, n))]
            \/ /\ i <= Len(rule) /\ rule[i] # "*" /\ n <= Len(name)
               /\ Lower(rule[i]) = Lower(name[n]) /\ matches[i + 1][n + 1]]
    IN  matches[1][1]

\* The pieces of a text between the characters c, read from left to right.
Split(text, c) ==
    LET split[i \in 0 .. Len(text)] ==
            IF i = 0 THEN << <<>> >>
            ELSE LET pieces == split[i - 1]
                 IN  IF text[i] = c THEN Append(pieces, <<>>)
                     ELSE [pieces EXCEPT ![Len(pieces)] = Append(@, text[i])]
    IN  split[Len(text)]

\* The members of a list that are in a set, in the order of the list.
Only(list, set) == FlattenSeq([i \in DOMAIN list |-> IF list[i] \in set THEN <<list[i]>> ELSE <<>>])

\* strtok_r(): the pieces that are not empty.
Tokens(text) == LET pieces == Split(text, ",") IN Only(pieces, Range(pieces) \ {<<>>})

\* element_parse_policy(): the lists denied and allowed.
Denials(tokens) == {token \in Range(tokens) : token[1] = "!"}
ParsePolicy(text) ==
    LET tokens == Tokens(text)
        no == Only(tokens, Denials(tokens))
    IN  [denied |-> [i \in DOMAIN no |-> Tail(no[i])],
         allowed |-> Only(tokens, Range(tokens) \ Denials(tokens))]

MatchesAny(rules, name) == \E i \in DOMAIN rules : MatchMask(rules[i], name)

\* element_allowed(): flags are those of the element_cfg of that name.
ElementAllowed(name, flags, policy) ==
    CASE "hide" \in flags -> FALSE
      [] "hide" \notin flags /\ "show" \in flags -> TRUE
      [] flags = {} -> /\ ~MatchesAny(policy.denied, name)
                       /\ policy.allowed = <<>> \/ MatchesAny(policy.allowed, name)

-----------------------------------------------------------------------------
\* "'*' which will act as a wildcard and represents any number of any character"
\* (bmon.8:200-201), for names of which case is ignored.
Wildcard(rule, name) ==
    LET matches[i \in 1 .. Len(rule) + 1] == [n \in 1 .. Len(name) + 1 |->
            \/ i > Len(rule) /\ n > Len(name)
            \/ i <= Len(rule) /\ rule[i] = "*" /\ \E k \in n .. Len(name) + 1 : matches[i + 1][k]
            \/ /\ i <= Len(rule) /\ rule[i] # "*" /\ n <= Len(name)
               /\ Lower(rule[i]) = Lower(name[n]) /\ matches[i + 1][n + 1]]
    IN  matches[1][1]

\* A '*' can end in one place only.
IsPlain(rule, name) ==
    \A i \in 1 .. Len(rule) - 1 : rule[i] = "*" =>
        /\ rule[i + 1] # "*"
        /\ Cardinality({k \in DOMAIN name : Lower(name[k]) = Lower(rule[i + 1])}) <= 1

=============================================================================
