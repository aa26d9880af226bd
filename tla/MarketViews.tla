----------------------------- MODULE MarketViews -----------------------------
(***************************************************************************)
(* What the Market Intelligence page shows of the rows ChangeHistory writes: *)
(* the feed and the summary of                                              *)
(* apps/api/src/analytics/ir21-routing-changes.service.ts, the pills, charts *)
(* and ledger of apps/web/src/app/analytics/ir21-changes/, the pivot and the *)
(* report of apps/web/src/lib/reports/, and the review tab.                  *)
(*                                                                         *)
(* Each of them decides with code of its own which rows count for whom.  All *)
(* of them count row by row, so that they agree when they agree on each row: *)
(* a view here is a predicate of a row, and its figure the rows it holds of. *)
(* The rows are of one (MNO, service): the region and service filters keep   *)
(* all of them or none, and so does a search.                                *)
(***************************************************************************)
EXTENDS ChangeHistory

(* RoutingChangeType; ChangeHistory has one type for the last four. *)
Technical ==
    {"IP_SUBNET_UPDATE", "DIAMETER_REALM_UPDATE", "POINT_CODE_GT_UPDATE", "ADMIN_NAME_UPDATE"}

DiameterSs7 == {"DIAMETER_REALM_UPDATE", "POINT_CODE_GT_UPDATE"}

(* The row with its own type, whichever of the four it is. *)
Readings(row) ==
    IF row.type = "UPDATE" THEN {[row EXCEPT !.type = t] : t \in Technical} ELSE {row}

-----------------------------------------------------------------------------
(* Ir21RoutingChangesService.  A query's `change` is the types of its          *)
(* changeType: none when it is omitted, "ALL" alone for no restriction.        *)

Unrestricted == {"ALL"}

Allowed(change) ==
    CASE change = {} -> ChurnType
      [] change = Unrestricted -> ChurnType \cup Technical
      [] OTHER -> change

HidesOnboardingByDefault(change) == change = {}

HidesOnboarding(change) == change = {} \/ change \cap ChurnType # {}

RoleTypes(role) ==
    IF role = "gainer" THEN {"ADDED", "REPLACED"} ELSE {"REMOVED", "REPLACED"}

OnASide(row, p) == p \in {row.old, row.new}

(* providerFilter: a search's OR takes the place of the one over both sides.   *)
ProviderFilter(row, q) ==
    \/ q.provider = Null
    \/ q.role = "gainer" /\ row.new = q.provider
    \/ q.role = "loser" /\ row.old = q.provider
    \/ q.role = "any" /\ (q.search # "none" \/ OnASide(row, q.provider))

(* fetchFiltered: a role's types take the place of the change filter's.        *)
Fetched(row, q) ==
    /\ q.inScope
    /\ row.day \in q.days
    /\ q.search # "miss"
    /\ ProviderFilter(row, q)
    /\ row.type \in IF q.provider # Null /\ q.role # "any" THEN RoleTypes(q.role)
                    ELSE Allowed(q.change)
    /\ HidesOnboarding(q.change) => ~row.onboarding

(* summary: whatever the caller's change filter, and by side alone.            *)
SummaryRow(row, q) == Fetched(row, [q EXCEPT !.change = {}])
SummaryGain(row, q, p) == SummaryRow(row, q) /\ row.new = p
SummaryLoss(row, q, p) == SummaryRow(row, q) /\ row.old = p

-----------------------------------------------------------------------------
(* The page.  A filter is what its controls hold; a timeframe or a custom      *)
(* range is the days in it.                                                    *)

Pill == {{}, {"ADDED"}, {"REPLACED"}, {"REMOVED"}, {"IP_SUBNET_UPDATE"}, DiameterSs7,
         {"ADMIN_NAME_UPDATE"}, Unrestricted}

Filter ==
    [days : {{d \in Day : lo <= d /\ d <= hi} : lo, hi \in Day}, inScope : BOOLEAN,
     search : {"none", "hit", "miss"}, provider : Holder, change : Pill]

(* overviewQueryString: what the summary, the pivot and the charts fetch.      *)
Overview(f) ==
    [days |-> f.days, inScope |-> f.inScope, search |-> "none",
     provider |-> Null, role |-> "any", change |-> {}]

(* queryString: what the ledger fetches. *)
Ledger(f) ==
    [Overview(f) EXCEPT !.search = f.search, !.provider = f.provider, !.change = f.change]

(* countsQueryString: what the pills count. *)
Counts(f) == [Ledger(f) EXCEPT !.change = Unrestricted]

(* pillCounts. *)
OnPill(row, pill) ==
    LET churn == row.type \in ChurnType /\ ~row.onboarding
    IN CASE pill = {} -> churn
         [] pill = Unrestricted -> TRUE
         [] pill # {} /\ pill \subseteq ChurnType -> churn /\ row.type \in pill
         [] OTHER -> row.type \in pill

(* buildPivotData: the migrations listed under a carrier. *)
PivotGain(row, p) == row.type \in {"ADDED", "REPLACED"} /\ row.new = p
PivotLoss(row, p) == row.type \in {"REMOVED", "REPLACED"} /\ row.old = p

(* providerScopedRows: the charts while a carrier of the pivot is selected.    *)
Charted(row, f, p) == Fetched(row, Overview(f)) /\ OnASide(row, p)

(* aggregateCarrierMovement, over the ledger a report is made of. *)
MovementGain(row, f, p) == Fetched(row, Ledger(f)) /\ row.type \in ChurnType /\ row.new = p
MovementLoss(row, f, p) == Fetched(row, Ledger(f)) /\ row.type \in ChurnType /\ row.old = p

(* DetailsCell and carrierMovementDetail: the carriers a ledger row names.     *)
Named(row) ==
    CASE row.type = "REPLACED" -> {row.old, row.new}
      [] row.type = "ADDED" -> {row.new}
      [] row.type = "REMOVED" -> {row.old}
      [] OTHER -> {}

(* The review tab. *)
NeedsReview(row) == row.type \in Technical \/ row.onboarding

-----------------------------------------------------------------------------
(* A pill counts what choosing it shows. *)
PillsCount(row) ==
    \A f \in Filter :
        Fetched(row, Counts(f)) /\ OnPill(row, f.change) <=> Fetched(row, Ledger(f))

(* With nothing but a carrier chosen, the ledger shows the rows the charts     *)
(* narrow to, among them every migration the pivot lists for it.               *)
SelectionShows(row) ==
    \A f \in {g \in Filter : g.search = "none" /\ g.change = {} /\ g.provider # Null} :
        LET p == f.provider
        IN /\ Charted(row, f, p) <=> Fetched(row, Ledger(f))
           /\ Fetched(row, Overview(f)) /\ (PivotGain(row, p) \/ PivotLoss(row, p))
                => Fetched(row, Ledger(f))

(* The gains and losses of the summary are those of the pivot, of the feed by  *)
(* role and of a report on the unrefined ledger.                               *)
FiguresMatch(row) ==
    \A f \in {g \in Filter : g.search = "none" /\ g.change = {} /\ g.provider = Null},
       p \in Provider :
        LET q == Overview(f)
            seen == Fetched(row, q)
        IN /\ SummaryGain(row, q, p) <=> seen /\ PivotGain(row, p)
           /\ SummaryLoss(row, q, p) <=> seen /\ PivotLoss(row, p)
           /\ SummaryGain(row, q, p)
                <=> Fetched(row, [q EXCEPT !.provider = p, !.role = "gainer"])
           /\ SummaryLoss(row, q, p)
                <=> Fetched(row, [q EXCEPT !.provider = p, !.role = "loser"])
           /\ SummaryGain(row, q, p) <=> MovementGain(row, f, p)
           /\ SummaryLoss(row, q, p) <=> MovementLoss(row, f, p)

(* The ledger names every carrier the row has. *)
NamesBothSides(row) == Named(row) = {row.old, row.new} \ {Null}

(* What the default view hides is what the review tab lists. *)
HiddenIsReviewed(row) ==
    \A f \in {g \in Filter : g.inScope /\ row.day \in g.days} :
        NeedsReview(row) <=> ~Fetched(row, Overview(f))

ReadAlike(row) ==
    /\ PillsCount(row) /\ SelectionShows(row) /\ HiddenIsReviewed(row)
    /\ row.reviewed \/ (FiguresMatch(row) /\ NamesBothSides(row))

(* Rows some reading of which two views read differently. *)
DisputedRows == UNION {{row : r \in {x \in Readings(row) : ~ReadAlike(x)}} : row \in Row}

(* Files, passes that die half way, corrections and alias edits never leave a  *)
(* row the views read differently: each pill counts what it fetches, a carrier *)
(* selected in the pivot shows the same rows everywhere, the ledger names both *)
(* sides, and the summary, the pivot, the role filters and the report count    *)
(* one set of gains and losses.  A row whose type an admin changed keeps its   *)
(* sides, and only there the last two part (page.tsx:132-141 and 110-118,      *)
(* pivotData.ts:46-51, ir21-routing-changes.service.ts:159-166).               *)
MarketFiguresAgree == \A i \in DOMAIN rows : rows[i] \notin DisputedRows

=============================================================================
