----------------------------- MODULE MCReachList -----------------------------
(* Model values for the run of ReachList. *)
EXTENDS ReachList, TLC

CONSTANTS c1, c2, z1, n1, n2, n3, p1, p2, f1, f2, r1, r2, a1

Codes == {c1, c2, z1}
Names == {n1, n2, n3}
(* "movistar" is a word of "movistar argentina". *)
SimilarNames == {<<n2, n1>>, <<n1, n2>>}
Rows ==
    {[code |-> c1, name |-> n1, carriers |-> <<p1, p2>>, services |-> {"SCCP"}],
     [code |-> c2, name |-> n2, carriers |-> <<p1>>, services |-> {"SCCP"}],
     [code |-> c2, name |-> n3, carriers |-> <<p1>>, services |-> {"SCCP"}],
     [code |-> c2, name |-> n3, carriers |-> <<p1>>, services |-> {"IPX"}],
     [code |-> Null, name |-> n3, carriers |-> <<p1>>, services |-> {"IPX"}]}
RosterSet == {[c \in Codes |-> IF c = c1 THEN n1 ELSE Null]}
Ir21Files == {<<c2, n1>>, <<c1, n3>>}
Selections == {K \in SUBSET AuditKey : Cardinality(K) \in {1, 2}}

RequestSymmetry == Permutations({r1, r2}) \cup Permutations({f1, f2})
=============================================================================
