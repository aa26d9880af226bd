---------------------------- MODULE MCWebClient ----------------------------
(***************************************************************************)
(* Two tabs, two people: one administrator with a password, and a second    *)
(* administrator or somebody who has never signed in.                       *)
(***************************************************************************)
EXTENDS WebClient, TLC

CONSTANTS ann, bob, a, b, c

AdminRow == [role |-> Admin, active |-> TRUE]
TwoTables == {ann :> AdminRow @@ bob :> AdminRow, ann :> AdminRow @@ bob :> Null}

SignedInOrNot == {Null, [user |-> ann, role |-> Admin, at |-> 0]}

\* One archive that needs three requests: a PDF listed ahead of its XML, a
\* pair that does not fit with the one before it, and a misnamed XML.
Large == <<Pdf("p2", {b}, 2), Xml("x1", a, a, 1), Xml("x2", b, b, 2), Pdf("p1", {a}, 1),
           Xml("x3", NoTadig, c, 3)>>
Small == <<Xml("x1", a, a, 1), Xml("x4", c, c, 1)>>
Clutter == <<[Pdf("readme", {}, 8) EXCEPT !.kind = "other"]>>
MCArchives == {Large, Small, Clutter}
Others == {<<Xml("x4", c, c, 1)>>}
=============================================================================
