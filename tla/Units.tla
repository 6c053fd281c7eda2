------------------------------- MODULE Units -------------------------------
(***************************************************************************)
(* Units (src/unit.c): by what a value is divided to be shown.  A unit has    *)
(* three variants, each a list of fractions [div, txt]; a divisor, a float, *)
(* is in fractions of 1/Scale.  A value is a uint64_t, which the comparison   *)
(* with a divisor converts to float; in a double, as unit_value2str() has    *)
(* it, it is exact (below 2^53).                                            *)
(***************************************************************************)
EXTENDS Integers, Sequences, SequencesExt, FiniteSetsExt

CONSTANTS
    Scale,
    Mantissa,   \* 2^24: the integers below it are floats
    Ulps        \* the distances between floats above 1: 1, 2, 4 and so on

ASSUME ScaleAssumption == Scale \in Nat \ {0}
ASSUME UlpsAssumption ==
    /\ Mantissa \in Nat \ {0} /\ Mantissa % 2 = 0
    /\ Ulps \subseteq Nat \ {0}
    /\ 1 \in Ulps /\ \A u \in Ulps \ {1} : u % 2 = 0 /\ u \div 2 \in Ulps

Variants == {"default", "si", "bit"}
DYNAMIC_EXP == -1

\* unit_add(): u_div of a new unit.
UnitAdd == [v \in Variants |-> <<>>]

\* get_flist(): the variant the user wants, if the unit has it.
FList(unit, use_bit, use_si) ==
    LET wanted == IF use_bit THEN "bit" ELSE IF use_si THEN "si" ELSE "default"
    IN  IF unit[wanted] # <<>> THEN unit[wanted] ELSE unit["default"]

\* A value that is no float becomes the nearest one, or the even of two.
HasFloat(value) == \E u \in Ulps : value < Mantissa * u
Ulp(value) == Min({u \in Ulps : value < Mantissa * u})
FloatOf(value) ==
    LET u == Ulp(value)
        q == value \div u
        r == value % u
    IN  u * (IF 2 * r < u \/ (2 * r = u /\ q % 2 = 0) THEN q ELSE q + 1)

\* A divisor is a float: above a distance of 1 it is a multiple of the distance.
IsDivisor(div) ==
    /\ div \in Nat \ {0}
    /\ \A u \in Ulps \ {1} : div >= Scale * (Mantissa * (u \div 2)) => div % (Scale * u) = 0

\* The fraction unit_divisor() finds: for a value, or the exp-th one.
Found(flist, value, exp) ==
    IF exp = DYNAMIC_EXP
    THEN LET fitting == {i \in DOMAIN flist : Scale * FloatOf(value) >= flist[i].div}
         IN  IF fitting = {} THEN {} ELSE {Max(fitting)}
    ELSE DOMAIN flist \cap {exp}

UnitDivisor(flist, value, exp) ==
    LET found == Found(flist, value, exp)
    IN  IF found = {} THEN [div |-> Scale, txt |-> ""] ELSE flist[CHOOSE i \in found : TRUE]

\* unit_value2str(): the digits behind the point, none where there is no remainder.
Digits(value, div) == IF (Scale * value) % div = 0 THEN 0 ELSE 2

\* fraction_free() of what a variant has, unit_add_div() of what a section gives;
\* a section without fractions changes nothing.
\* Mutant: the old fractions are not freed.
AddDivToOld(unit, v) == [unit EXCEPT ![v.title] = @ \o v.div]

AddDiv(unit, v) == IF v.div = <<>> THEN unit ELSE [unit EXCEPT ![v.title] = v.div]
=============================================================================
