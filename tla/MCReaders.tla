----------------------------- MODULE MCReaders -----------------------------
(* Model checking instance of Readers with the policy "!V*,l*,e*,d*,!d1".  The      *)
(* interface d0 has the name of an element of dummy.                            *)
EXTENDS Readers, Policy, TLC

CONSTANTS lo, e0, v0, d0, d1

MCLowerOf == ("A" :> "a") @@ ("V" :> "v")
MCSpelling == (lo :> <<"l", "o">>) @@ (e0 :> <<"e", "0">>) @@ (v0 :> <<"v", "0">>)
                @@ (d0 :> <<"d", "0">>) @@ (d1 :> <<"d", "1">>)
MCPolicy == ParsePolicy(<<"!", "V", "*", ",", "l", "*", ",", "e", "*", ",", "d", "*", ",", "!", "d", "1">>)
MCAdmitted == {n \in DOMAIN MCSpelling : ElementAllowed(MCSpelling[n], {}, MCPolicy)}
MCRules == [i \in DOMAIN MCPolicy.allowed |->
              {n \in DOMAIN MCSpelling : MatchMask(MCPolicy.allowed[i], MCSpelling[n])}]

Line(n, k) == [name |-> n, kind |-> k]
MCKernels == { <<Line(lo, "up"), Line(e0, "up"), Line(v0, "up")>>,
               <<Line(v0, "up"), Line(lo, "up")>>,
               <<Line(lo, "malformed"), Line(d0, "up"), Line(e0, "down")>>,
               <<Line(e0, "down"), Line(d0, "up"), Line(lo, "foreign")>>,
               <<Line(lo, "foreign"), Line(d0, "up")>>,
               NoFile }
MCInputs == {<<"dummy", "proc">>, <<"proc", "dummy">>, <<"sysctl">>}
MCDummyGroups == <<Grp, CHOOSE g \in Groups : g # Grp>>
MCDummyNames == <<d0>>

\* A denied interface before an admitted one, for proc and for dummy.
MCKernelsHindered == { <<Line(v0, "up"), Line(lo, "up")>> }
MCInputsHindered == {<<"proc">>, <<"dummy">>}
MCDummyNamesHindered == <<d1, d0>>
=============================================================================
