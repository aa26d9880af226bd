---------------------------- MODULE CarrierViews ----------------------------
(***************************************************************************)
(* What the pages are told of the grid: the queries of                      *)
(* apps/api/src/mno/mno.service.ts, provider/provider.service.ts and        *)
(* dashboard/dashboard.service.ts over the database and the alias cache of  *)
(* ProviderAliases, and what apps/web/src/app/search/mno/page.tsx and        *)
(* lib/reports/exclusivityReportData.ts derive from them.                   *)
(*                                                                         *)
(* Each of them counts "declared" and "exclusive" with code of its own, and *)
(* their comments promise that the pages agree; every view is translated     *)
(* from its own code path.  A view is taken at one instant: a request whose *)
(* queries straddle a write may be torn, which no property here is about.   *)
(* A reach list is an argument: its rows are ReachList's to write.          *)
(***************************************************************************)
EXTENDS ProviderAliases

CONSTANTS ReachLists  \* row sets the ProviderReachlist table may hold

ASSUME ReachListsAssumption == ReachLists \subseteq SUBSET (Key \X Provider)

(* An id is a 32-bit integer (schema.prisma:188). *)
ASSUME ProviderAssumption == IsFiniteSet(Provider)

Source == {"ir21", "reachlist", "both"}

(* Rows of the reach list go with their MNO and their provider. *)
Claims(reach) == {x \in reach : x[1][1] \in mnos /\ x[2] \in providers}

(* The latest snapshot with carriers, or none at all: mno.service.ts:212-214  *)
(* asks only whether there is a row, and a file of this model that stores one *)
(* declares at least one carrier in it.                                       *)
HasSnapshot(m) == \E s \in Service : snap[<<m, s>>] # NoCarriers

(* mno.service.ts rawCandidatesFor: the raw strings of a service. *)
Candidates(k) == ({snap[k].first} \ {Null}) \cup snap[k].rest

(* matchAlias on its own: placeholder text is no pattern of any alias. *)
Resolved(t) ==
    IF t = Junk \/ Match(t) = {} THEN Null ELSE CHOOSE p \in Match(t) : TRUE

-----------------------------------------------------------------------------
(* MnoService.                                                                *)

(* resolveAllDeclaredProviders: the primary row is never dropped. *)
DetailProviders(k) ==
    ({Resolved(t) : t \in Candidates(k)} \cup {conn[k]}) \ {Null}

(* resolvedProvidersByMno. *)
Canonical(k, source, reach) ==
    {p \in providers :
        \/ source # "reachlist" /\ conn[k] = p
        \/ source # "ir21" /\ <<k, p>> \in Claims(reach)}

(* resolvedAllDeclaredProvidersByMno: an id without a row has no name to show. *)
Broad(k, source, reach) ==
    Canonical(k, source, reach) \cup
    IF source = "reachlist" THEN {}
    ELSE {Resolved(t) : t \in Candidates(k)} \cap providers

DeclaredMnos == {m \in mnos : \E s \in Service : conn[<<m, s>>] # Null}

(* search: which MNOs a dataset scope includes. *)
Scope(scope, reach) ==
    CASE scope = "ir21" -> {m \in mnos : HasSnapshot(m) \/ m \in DeclaredMnos}
      [] scope = "reachlist_only" ->
            {m \in mnos : ~HasSnapshot(m) /\ m \notin DeclaredMnos}
      [] scope = "reachlist_claimed" -> {x[1][1] : x \in Claims(reach)}
      [] OTHER -> mnos

(* Which provider data it shows for them. *)
ScopeSource(scope) ==
    CASE scope = "ir21" -> "ir21"
      [] scope \in {"reachlist_only", "reachlist_claimed"} -> "reachlist"
      [] OTHER -> "both"

(* compareMatrix: (service, provider, MNO, kind of mark) per chosen operator. *)
OperatorMatrix(ms, reach) ==
    UNION {{<<k, p, "ir21">> : p \in DetailProviders(k)} : k \in ms \X Service}
    \cup {<<x[1], x[2], "reachlist">> : x \in {y \in Claims(reach) : y[1][1] \in ms}}

-----------------------------------------------------------------------------
(* ProviderService.                                                           *)

EmptyIndex(p) == {}

(* buildMultiHomedProviderIndex. *)
MultiHomed(p) == {k \in mnos \X Service : p \in {Resolved(t) : t \in Candidates(k)}}

(* The on-net rows of detail, computeFootprints and compareMatrix. *)
OnNet(p, source, reach) ==
    (IF source = "reachlist" THEN {}
     ELSE {k \in mnos \X Service : conn[k] = p} \cup MultiHomed(p))
    \cup IF source = "ir21" THEN {} ELSE {x[1] : x \in {y \in Claims(reach) : y[2] = p}}

PrimaryHolders(k, source, reach) == Canonical(k, source, reach)

(* computeProvidersByMnoService. *)
Holders(k, source, reach) ==
    (IF source = "reachlist" THEN {}
     ELSE ({conn[k]} \cup {Resolved(t) : t \in Candidates(k)}) \ {Null})
    \cup IF source = "ir21" THEN {} ELSE {x[2] : x \in {y \in Claims(reach) : y[1] = k}}

(* detail: isExclusiveSccp, isExclusiveDsx, isExclusiveIpx. *)
ExclusiveTo(p, k, source, reach) ==
    k \in OnNet(p, source, reach) /\ Cardinality(Holders(k, source, reach)) = 1

-----------------------------------------------------------------------------
(* DashboardService.metrics.                                                  *)

TotalMnos == Cardinality({m \in mnos : HasSnapshot(m)} \cup DeclaredMnos)
ReachlistOnlyCount == Cardinality(mnos) - TotalMnos

(* The pairs behind sccpCount, dsxCount and ipxCount. *)
Relationships ==
    {x \in (mnos \X Service) \X Provider : conn[x[1]] = x[2]}
    \cup UNION {{<<k, p>> : p \in {Resolved(t) : t \in Candidates(k)} \ {Null}} :
                k \in mnos \X Service}

-----------------------------------------------------------------------------
(* The MNO search page.  A row holds the providers shown per service.         *)

RowOf(m, scope, reach) ==
    [s \in Service |-> Broad(<<m, s>>, ScopeSource(scope), reach)]

Carried(row) == UNION {row[s] : s \in Service}

(* withExclusivity. *)
SoleOn(row, s) == Cardinality(row[s]) = 1
FullyExclusive(row) == Cardinality(Carried(row)) = 1

(* A mode is an exclusivity pill, or "shared"; a service filter may be Null.   *)
Pooled == {"all", "shared", "full", "any"}
Mode == Pooled \cup Service

ASSUME ModeAssumption == Pooled \cap Service = {}

(* EXCLUSIVE_MODE_PREDICATE. *)
Qualifies(row, mode) ==
    CASE mode = "all" -> TRUE
      [] mode = "shared" -> ~FullyExclusive(row)
      [] mode = "full" -> FullyExclusive(row)
      [] mode = "any" -> \E s \in Service : SoleOn(row, s)
      [] OTHER -> SoleOn(row, mode)

ProviderAnywhere(row, mode, p, filter) == p \in Carried(row)

(* providerMatchesRow. *)
ProviderMatches(row, mode, p, filter) ==
    CASE mode = "full" -> Carried(row) = {p}
      [] mode = "any" -> \E s \in Service : row[s] = {p}
      [] mode \in Service -> row[mode] = {p}
      [] OTHER -> IF filter # Null THEN p \in row[filter] ELSE p \in Carried(row)

(* scopedRows: what the table and the charts start from. *)
InScopedRows(row, filter) == filter # Null => row[filter] # {}

(* visibleRows with a provider filter. *)
Visible(row, mode, p, filter) ==
    Qualifies(row, mode) /\ ProviderMatches(row, mode, p, filter)

(* exclusivityModeCounts, the count on a pill, has no service in its match.    *)
OnPill(row, mode, p) == Qualifies(row, mode) /\ ProviderMatches(row, mode, p, Null)

(* toAggregationMode. *)
Aggregation(mode) == IF mode = "shared" THEN "any" ELSE mode

(* aggregateCarrierExclusivity: whether the row is in p's exclusiveMnoCount.   *)
OnChart(row, mode, p, filter) ==
    LET counted == IF filter = Null THEN Service ELSE {filter}
    IN CASE Aggregation(mode) = "any" -> \E s \in counted : row[s] = {p}
         [] Aggregation(mode) = "all" -> \E s \in counted : p \in row[s]
         [] Aggregation(mode) = "full" -> Carried(row) = {p}
         [] OTHER -> row[mode] = {p}

-----------------------------------------------------------------------------
ScopeName == {"ir21", "reachlist_only", "reachlist_claimed", "all"}

Quiet == (\A i \in Ingest : ing[i].pc = "idle") /\ (\A a \in Admin : adm[a].pc = "idle")

(* The totals are the search's scopes, which split the MNOs; every MNO on a    *)
(* provider's footprint is under "IR.21 Verified".                             *)
TotalsAreScopes ==
    /\ TotalMnos = Cardinality(Scope("ir21", {}))
    /\ ReachlistOnlyCount = Cardinality(Scope("reachlist_only", {}))
    /\ Scope("ir21", {}) \cap Scope("reachlist_only", {}) = {}
    /\ \A p \in Provider, k \in Key :
            k \in OnNet(p, "ir21", {}) => k[1] \in Scope("ir21", {})

(* A provider is on an MNO's page, in its search row, on its own footprint, in  *)
(* the operator matrix and among the relationships, or on none of them.        *)
CarriersAgree ==
    \A p \in providers : \A k \in mnos \X Service :
        LET onNet == k \in OnNet(p, "ir21", {})
        IN /\ onNet <=> p \in DetailProviders(k)
           /\ onNet <=> p \in Broad(k, "ir21", {})
           /\ onNet <=> <<k, p>> \in Relationships
           /\ onNet <=> <<k, p, "ir21">> \in OperatorMatrix({k[1]}, {})

(* The dashboard, the MNO pages and the provider pages count the same MNOs and  *)
(* show the same carriers, after any partial load, remap, deletion or crash    *)
(* (mno.service.ts:190-226, provider.service.ts:514-562,                        *)
(* dashboard.service.ts:37-48 and 74-98).                                       *)
PagesAgree == TotalsAreScopes /\ CarriersAgree

(* Exclusivity means the same on both pages: when every cached provider still  *)
(* has its row, a carrier is exclusive at an MNO on the provider page exactly   *)
(* when it is the sole one in the MNO search row under the same sources; and    *)
(* never while another provider is on-net there, whatever the cache holds.      *)
ExclusiveIsAlone ==
    \A reach \in ReachLists, source \in Source, p \in providers, k \in mnos \X Service :
        LET exclusive == ExclusiveTo(p, k, source, reach)
        IN /\ exclusive => \A q \in providers \ {p} : k \notin OnNet(q, source, reach)
           /\ {cache[t] : t \in Text} \subseteq providers \cup {Null} =>
                (exclusive <=> Broad(k, source, reach) = {p})

(* With a provider filter, the pills count the rows they show and the charts    *)
(* count the same ones for that provider, except where the code leaves the       *)
(* service filter out: in a pill tied to no exclusivity, and in the rows under    *)
(* "any"; "shared" charts another measure.  Stated of the pages between requests  *)
(* (page.tsx:182-251 and 750-806, exclusivityReportData.ts:93-185).               *)
ChartsCountTheTable ==
    Quiet => \A reach \in ReachLists, scope \in ScopeName :
             \A row \in {RowOf(m, scope, reach) : m \in Scope(scope, reach)} :
             \A filter \in {f \in Service \cup {Null} : InScopedRows(row, f)} :
             \A mode \in Mode, p \in providers :
        LET shown == Visible(row, mode, p, filter)
        IN /\ filter = Null \/ mode \notin {"all", "shared"} =>
                (OnPill(row, mode, p) <=> shown)
           /\ mode # "shared" /\ (filter = Null \/ mode # "any") =>
                (OnChart(row, mode, p, filter) <=> shown)
=============================================================================
