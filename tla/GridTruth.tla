------------------------------ MODULE GridTruth ------------------------------
(* What the comparison grid promises, without requests, queries or failures:  *)
(* a row is written only as the admin's rule in force at that moment says,    *)
(* or, where there is none, as a file declares; the flag tells which; nothing *)
(* but a full reset takes a rule away other than the admin; and the rows alias *)
(* triage repointed, whose flag may say otherwise, are known.                 *)

CONSTANTS Key, Provider, Null

VARIABLES
    grid,    \* the carrier shown per (MNO, service), Null for no row
    manual,  \* whether that is the admin's word
    rule,    \* the admin's word, Null for none
    moved    \* rows triage repointed since they were last written

Nothing == [k \in Key |-> Null]
NoFlags == [k \in Key |-> FALSE]

Init == grid = Nothing /\ manual = NoFlags /\ rule = Nothing /\ moved = {}

(* A row is brought in line with the rule, or with a declared carrier. *)
Apply(k, declared) ==
    LET inForce == rule[k] # Null
    IN /\ grid' = [grid EXCEPT ![k] = IF inForce THEN rule[k] ELSE declared]
       /\ manual' = [manual EXCEPT ![k] = inForce]
       /\ moved' = moved \ {k}
       /\ UNCHANGED rule

SetRule(k, p) ==
    rule' = [rule EXCEPT ![k] = p] /\ UNCHANGED <<grid, manual, moved>>

DropRule(k) ==
    rule' = [rule EXCEPT ![k] = Null] /\ UNCHANGED <<grid, manual, moved>>

(* A row may go on showing what a dropped rule put there, no longer flagged. *)
Unpin(k) ==
    /\ rule[k] = Null
    /\ manual' = [manual EXCEPT ![k] = FALSE]
    /\ moved' = moved \ {k}
    /\ UNCHANGED <<grid, rule>>

(* Triage moves a row to a carrier; the flag and the rule stay as they are. *)
Repoint(k, p) ==
    /\ grid' = [grid EXCEPT ![k] = p]
    /\ moved' = moved \cup {k}
    /\ UNCHANGED <<manual, rule>>

WipeGrid == grid' = Nothing /\ manual' = NoFlags /\ moved' = {} /\ UNCHANGED rule

Reset == grid' = Nothing /\ manual' = NoFlags /\ rule' = Nothing /\ moved' = {}

Next ==
    \/ \E k \in Key, p \in Provider : Apply(k, p) \/ SetRule(k, p) \/ Repoint(k, p)
    \/ \E k \in Key : DropRule(k) \/ Unpin(k)
    \/ WipeGrid
    \/ Reset

Spec == Init /\ [][Next]_<<grid, manual, rule, moved>>
=============================================================================
