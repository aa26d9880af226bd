---------------------------- MODULE MCIr21Ingest ----------------------------
(* Model values for the runs of Ir21Ingest, and the symmetry of the safety runs. *)
EXTENDS Ir21Ingest, TLC

CONSTANTS m1, m2, p1, p2, r1, r2, a1

OneMno == {m1}
TwoMnos == {m1, m2}
OneProvider == {p1}
TwoProviders == {p1, p2}
OneUpload == {r1}
TwoUploads == {r1, r2}
OneAdmin == {a1}

SerialSymmetry == Permutations(TwoMnos) \cup Permutations(TwoProviders)
OverlapSymmetry == Permutations(TwoProviders) \cup Permutations(TwoUploads)

(* Of the audit log, the properties of the serial run need the last gain of    *)
(* the keys LogEndsAtGrid speaks of; of the declarations a request began with,  *)
(* those of the keys LogsUnchanged speaks of.  Nothing in it reads the          *)
(* onboarding flag, parsed, the active rows, or which fault used up MaxFaults.  *)
LastGains ==
    [k \in Key |-> IF k \in torn \/ everRule[k] # {} THEN Null ELSE LastGain(log[k])]

UpView ==
    [r \in Upload |-> [up[r] EXCEPT
        !.was = [k \in Key |-> IF k \in torn THEN Null ELSE @[k]]]]

FileView == [r \in Upload |-> [file[r] EXCEPT !.first = FALSE]]

SerialView ==
    <<mnos, epoch, conn, pinned, snap, rule, raw, LastGains, UpView, FileView, adm,
      uploads, edits, fails + crashes, decl, everRule, torn, moved>>

(* No property of the overlapping run reads decl, was, torn, parsed, the       *)
(* onboarding flag or which fault used up MaxFaults, and only its type the log. *)
OverlapView ==
    <<mnos, epoch, conn, pinned, snap, rule, raw, activeRows,
      [r \in Upload |-> [up[r] EXCEPT !.was = NoProviders]], FileView, adm,
      uploads, edits, fails + crashes, everRule, moved>>
=============================================================================
