-------------------------- MODULE MCProviderAliases --------------------------
(* Model values for the run of ProviderAliases, with the views over it. *)
EXTENDS CarrierViews, TLC

CONSTANTS m1, m2, t1, t2, g, others, p1, p2, i1, i2, a1, a2

Mnos == {m1, m2}
Services == {"SCCP", "DSX"}
Texts == {t1, t2, g}
Generics == {g}
(* "tata" is a word of "tata india". *)
SimilarTexts == {<<t1, t2>>, <<t2, t1>>}
Providers == {others, p1, p2}
Seeds == {others, p1}
Files ==
    {[service |-> "SCCP", first |-> t1, rest |-> {}],
     [service |-> "DSX", first |-> t1, rest |-> {t2}],
     [service |-> "SCCP", first |-> g, rest |-> {}],
     [service |-> "SCCP", first |-> Junk, rest |-> {}]}
Ingests == {i1, i2}
Admins == {a1, a2}

(* No reach list, and two carriers that claim SCCP of every MNO. *)
Reaches == {{}, (Mnos \X {"SCCP"}) \X {p1, p2}}

RequestSymmetry == Permutations(Mnos) \cup Permutations(Ingests) \cup Permutations(Admins)
=============================================================================
