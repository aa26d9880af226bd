# CCIP verified: models of the carrier-connectivity platform

CCIP keeps, for every mobile operator (MNO) and every roaming service (SCCP,
IPX, DSX), which carrier connects it.  The answer comes from GSMA IR.21 files
the operators publish, from reach lists the carriers publish, and from the
overrides an administrator pins.  The program is a NestJS API over Postgres
(`apps/api`), a Next.js client (`apps/web`) and a package of shared types.  The
repository has no tests of its own; the reference for what it promises is its
Prisma schema and the comments beside its code.

This directory holds TLA+ models of that code, the TLC runs that check them,
and TLAPS proofs about them.  Paths below are relative to `src/apps/api/`
unless they start with `web/` (`src/apps/web/src/`).

## Inventory

| Component | State | Operations | Hard behaviour | What makes it correct |
|---|---|---|---|---|
| IR.21 XML ingestion (`src/upload/upload.service.ts`) | `MnoMaster`, `Ir21Connectivity` (the grid), `MnoMasterConnectivity` (snapshot), `Ir21RoutingChange` (audit log), `UploadHistory` | additive upload, Replace Active Dataset, full reset, active-baseline query | a request is dozens of awaited queries and only the wipe and the reset are transactions; crash after the wipe; a file that fails half way; two administrators at once | the grid is what the last file and the overrides say; the log explains the grid; an unchanged service logs nothing; one active baseline; onboarding is not churn |
| Provider overrides (`src/provider-override/`) | `MnoProviderOverride`, `isManualOverride` | save a batch, revert | rule and grid row are written by two queries; an upload between them | an override survives every upload; the flag is set only where an override put a provider (the alias repairs break this one) |
| IR.21 change history (`upload.service.ts:1103-1505`, `ir21-change-history.util.ts`, `src/analytics/`) | `CHANGE_HISTORY` rows, review fields | backfill on upload, reclassify, reprocess | deduplication against reconciled pairs; replay in date order; rows an admin reviewed | an entry is stored once and a win credited once; a pass agrees with ingestion and with itself |
| Provider resolution and aliases (`provider-resolver.service.ts`, `src/provider-alias/`) | `ProviderAlias`, `UnmappedProviderVariant`, in-memory alias cache | resolve, refresh, add, reassign, delete alias, resolve/remap a variant, delete a provider | cache against table, read-modify-write of `affectedTadigs`, backfill over declared rows | cache = table when quiet; every unmapped sighting reaches triage and is listed there until its carrier has an alias; a resolution leaves no blank behind |
| Reach list ingestion (`upload.service.ts:174-600`, `reachlist-*.ts`) | `ProviderReachlist` by source file | sheet upload, ZIP batch, replace one file, purge | a row changes its source file on re-upload; delete then insert without a transaction; maps shared by concurrent ZIP batches | replacing one file never loses what another declares |
| MNO normalization (`src/mno-normalization/`) | `MnoNormalizationAudit`, the pool of placeholder TADIGs | resolve, ignore, create from audits, bulk resolve | status read before a transaction; finite pool; a re-upload resets the status | a resolved entry stays as it is, an ignored one comes back only when it is declared again; one audit resolves once |
| MNO and provider search, dashboard (`src/mno/`, `src/provider/`, `src/dashboard/`, `web/app/search/mno/`) | none of their own (except `setSecondaryTadigs`) | scopes, declared providers, footprints, exclusivity, totals | one notion counted by several code paths, over tables partial loads and deletions leave uneven | every page counts and shows the same MNOs and carriers |
| Accounts and sessions (`src/auth/`, `src/user/`) | `User`, `LoginHistory`, presence fields | login, Microsoft login, refresh, logout, role and status changes | last-admin rule checked by a count; presence by read-modify-write | there is always an active administrator |
| Upload parsers, object storage | none | decode XML/PDF/XLSX/MSG, store a PDF | none (pure, or I/O whose failure is swallowed) | out of scope |
| Web upload client (`web/lib/splitZipForUpload.ts`, `web/app/admin/upload/page.tsx:356-411`) | the batches of a split archive | sequential upload, replace on the first batch only | a batch fails or is lost after the wipe, a reload between batches | the dataset is always a prefix of the archive, pairs stay together, the card is never busy for ever |
| Web session client (`web/lib/auth-context.tsx`, `web/lib/api.ts`) | token and user in a `localStorage` all tabs share, a refresh timer | login, refresh, logout, reload, a 401 | calls answered late, expiry, deactivation and role changes behind the client's back | a dead token goes, a changed role arrives |
| Web pages, charts, reports | the answers on screen, filters | filter, count and chart the same rows by separate code | answers out of order; counts that should agree | a pill, a chart, a ledger and a report count the rows they show |

How they meet: the web client sends an archive to the upload controller, which
runs ingestion; ingestion asks provider resolution for each declared carrier,
reads the overrides, writes the grid, the audit log and the snapshot, then
backfills the change history from the file; analytics and search read those
tables; triage (aliases) and overrides write the same grid rows ingestion does.
Everything shares one Postgres, nothing holds a lock across two queries, and
the process keeps one cache (the aliases).  `PROJECT.json` lists the components
with their status and the hazards with their source lines.

## Plan, and where it stands

Each module is a state machine with CONSTANTS and named assumptions, so that it
can be proved about as well as checked.

1. `Ir21Ingest` - ingestion, overrides and reset over the grid, with crashes and
   failed queries. **Done**, proved.
2. `ChangeHistory` - backfill and reclassification over the audit log of one
   (MNO, service). **Done**, proved.
3. `ProviderAliases` - alias table, cache, triage and the repairs they make in the
   grid. **Done**, proved.
4. `ReachList` - reach-list rows by source file with the normalization queue.
   **Done**, proved.
5. `Accounts`, `WebClient` - roles and statuses; browser tabs over them. **Done**,
   proved but for the liveness of the tabs.
6. `SplitUpload` - the cut of an archive, run by `WebClient`. **Done**,
   proved.  The composition is with the dataset an upload leaves rather
   than with `Ir21Ingest` itself: a request is one step there.
7. `GridTruth` - the abstract promise of the grid. **Done**: `Ir21Ingest` with
   `Overlap = "none"` implements it, checked and proved.
8. `CarrierViews` (over `ProviderAliases`) and `MarketViews` (over
   `ChangeHistory`) - what the pages are told of every reachable database.
   **Done**, proved.

Every invariant and action property that a passing run checks is the statement of a
theorem (see Proofs).  What is left to model are three hazards of the list that no
property covers: two overlapping uploads of one MNO, each logging its own
replacement or storing its own history rows; a pass that writes the automatic type
back over a reviewed row's; and the provider maps that concurrent archives share.

| Module | Extends | Run by | Proofs |
|---|---|---|---|
| `Ir21Ingest`, `GridTruth` | `Ir21Ingest` instantiates `GridTruth` | `MCIr21Ingest` | `Ir21IngestProofs`, `Ir21GridProofs` |
| `ChangeHistory`, `MarketViews` | `MarketViews` extends `ChangeHistory` | `MCChangeHistory` | `ChangeHistoryProofs` |
| `ProviderAliases`, `CarrierViews` | `CarrierViews` extends `ProviderAliases` | `MCProviderAliases` | `ProviderAliasesProofs` |
| `ReachList` | - | `MCReachList` | `ReachListProofs` |
| `Accounts`, `SplitUpload`, `WebClient` | `WebClient` extends both others | `MCWebClient` | `AccountsProofs`, `WebClientProofs` |
| `InductionLemmas` | - | - | used by `ChangeHistoryProofs`, `Ir21GridProofs`, `WebClientProofs` |

## Ir21Ingest

### State

| Variable | Code |
|---|---|
| `mnos`, `epoch` | `MnoMaster` rows; a row's autoincrement id is abstracted to the number of full resets before it was created, which is all that tells a live id from a dead one |
| `conn`, `pinned` | `Ir21Connectivity.providerId` and `.isManualOverride` per (MNO, service); `Null` is no row |
| `snap` | the MNOs with an `MnoMasterConnectivity` row |
| `rule`, `raw` | `MnoProviderOverride`, and what its `originalRawString` resolves to |
| `log` | the `LIVE_DIFF` rows of `Ir21RoutingChange` |
| `activeRows` | how many `UploadHistory` rows have `isCurrentActive` |
| `up` | the frame of each `uploadIr21XmlBatch` in flight: where it is, its mode, the pre-wipe map (and the epoch of its ids), the files so far |
| `file` | the frame of the `applyParsedIr21` it is in: the MNO and its id, the overrides loaded once, the onboarding flag, the current service, what was read |
| `adm` | the frame of each `saveBatch` entry or `revert` in flight |
| `uploads`, `edits`, `fails`, `crashes` | bounds |
| `decl`, `everRule`, `parsed`, `torn`, `moved`, `up[r].was` | observers, read by properties only (and `moved` by its bound): the declaration a key was last brought in line with, the providers ever named by an override, the MNOs applied in full, the rows the log does not explain (a failure cost their audit entry, or triage, which logs nothing, wrote them), the rows triage was the last to write, the declarations when the request began |

### Actions

Every query the code awaits is an action, since the event loop may run another
request there: `StartUpload`, `ReadPreWipe`, `WipeBaseline` (a transaction),
`UpsertMno`, `LoadOverrides`, `CheckFirstUpload`, then for each service
`ReadExisting`, `WriteConnectivity`, `RecordChange` or `SkipUnmapped`, then
`SaveSnapshot`, and after the last file `FinishUpload`.  `FileFails` is the
catch of the loop, from any query of a file (a foreign key broken by a reset, or
a fault of the database); `UploadFails` a query that throws outside that try.
`SaveOverride`, `UpsertRule`, `PinRow` are `saveBatch` (a batch is its entries
one after the other); `StartRevert`, `DeleteRule`, `UnpinRow` are `revert`;
`EditFails` is either of them throwing.  `RepointRow` is the upsert by which alias
triage moves a row to a carrier (`backfillOccurrence` and `remap` of
`src/provider-alias/provider-alias.service.ts:113-123`, `184-188`): the provider
changes, the flag of an override stays.  It may hit any row of a known MNO at any
time; which texts lead it where is the subject of `ProviderAliases`.  `ResetDatabase` is one transaction.
`Crash` stops everything in flight and keeps the database.

Abstractions, all of data:

- The archive is chosen file by file as the loop gets to it (which MNO, what it
  declares for each service), which covers every archive.  A file that does not
  parse, or whose MNO row cannot be written, changes nothing, so it is an
  archive without it.
- What a carrier's text resolves to is part of the file: a provider, `Unmapped`
  (queued for triage, line 1062), or `Undeclared`.  The alias table itself is
  the subject of `ProviderAliases`.
- An audit row keeps its type, its two providers and its onboarding flag;
  an `UploadHistory` row its active flag.  Names, dates, the PDF and the other
  snapshot columns are left out: nothing here branches on them.
- `revert` deletes a rule by its id.  With one override request in flight an id
  and its key are the same thing; a rule deleted and created again between two
  queries of a revert needs two and is outside the runs (the theorems hold for
  any number of requests of the model as written).
- `backfillChangeHistory` (line 910) writes only `CHANGE_HISTORY` rows, which no
  variable here holds.  One API process is modelled, as deployed.

`Overlap` says which requests the administrators start while another runs; the
code itself restricts nothing.  `"none"`: one admin action at a time, the way the
admin page is used by one person.  `"oneReplace"`: anything but two replacements
at once.  `"any"`: whatever HTTP lets through.  Each property is checked under
the weakest of the three it holds under, and what goes wrong beyond is a finding
or is said in the hazards.

### Properties

| Property | Says | Holds under |
|---|---|---|
| `TypeOK` | rows and frames keep their shape | any |
| `AtMostOneActiveBaseline` | one `UploadHistory` row at most is the active baseline | oneReplace |
| `PinnedOnlyByRule` | a row flagged manual holds a provider some override named, unless alias triage was the last to write it | any |
| `BaselineLoadIsNotChurn` | no gain of an MNO never applied in full is logged as churn, however often its first load is interrupted | any |
| `WipeIsPublished` | a replacement always publishes a new active baseline unless the request is killed | any, fair |
| `GridFollowsDeclaration` | an applied declaration and an override decide the grid row and its flag, across later uploads, replacements, reverts and faults | none |
| `LogEndsAtGrid` | the last gain logged for a declared service is the provider the grid shows, unless a fault hit exactly between the row and its audit entry, or triage moved the row | none |
| `RedeclaredIsSilent` | declaring the same carrier again, additively or after a wipe, logs nothing | none |
| `ImplementsGridTruth` | every step is one of `GridTruth`, or changes nothing it speaks of | none |
| `ReplaceLeavesOnlyItsBatch` | a finished replacement leaves data only for the MNOs of its archive | none |

`GridTruth` says what the grid promises without requests, queries or failures: a
row is written only as the rule in force at that moment says or, where there is
none, as a file declares, and its flag tells which; a rule goes only with the
admin or a full reset; and the rows alias triage repointed (`Repoint`), the only
ones whose flag may say otherwise, are known.  The mapping is `grid <- conn`,
`manual <- pinned`, `rule <- rule`, `moved <- moved`; everything else of `Ir21Ingest` (frames, snapshot, log) is
hidden.  It is not a restatement of the writing step: the code reads the rules
once per file and writes rows queries later, so that with overlapping requests a
write may follow a rule that is gone, and the refinement holds for `"none"` only.

### Runs

| Run | Bounds | Shows |
|---|---|---|
| `serial` (`Ir21Serial.cfg`) | 2 MNOs, 2 providers, 1 service, 3 uploads of up to 2 files, 1 override edit (and its reverts), 1 row alias triage has moved at a time, 1 fault (crash or failed query) anywhere | the four `none` properties and `ImplementsGridTruth` |
| `overlap` (`Ir21Overlap.cfg`) | 1 MNO, 2 providers, 2 concurrent uploads, 1 override request, 1 moved row at a time, 1 reset, 1 fault | the `oneReplace`/`any` invariants, all interleavings query by query |
| `live` (`Ir21Live.cfg`) | 1 MNO, 2 services, 2 concurrent uploads of either mode, 1 reset, 1 fault, fairness | the liveness property, and onboarding over two services with reset in between |
| `two_replaces` | 2 concurrent replacements, no fault | `AtMostOneActiveBaseline` fails: finding 1 |
| `undeclared` | one admin, no fault | `UnchangedIsSilent` fails: finding 2 |
| `onboarding` | one admin, no fault | `OnboardingIsFirstEver` fails: finding 3 |

Why the bounds are enough.  Three uploads are what the longest scenario needs:
load, interrupted replacement, retry.  Two files let an archive hold two MNOs, or
the same one twice (the second file read after the first wrote).  Two MNOs tell
those of the archive from those only the wipe removes.  Two providers tell
"same" from "different".  One service is enough where services do not interact;
`live` has two, for the onboarding flag they share and for the failure between
them.  One moved row at a time (`MaxMoved`), written over again and moved again as
often as it goes, shows each race of a repoint with an upload, an override or a
wipe; the runs about other matters have none.  One override edit still gives save, upload, revert, upload.  Deadlock
checking is off because a bounded workload ends: with all uploads made and
nothing in flight there is no next step.

`serial` and `overlap` use symmetry over sets of unordered model values, and no
liveness is checked with it.  `SerialView` keeps, of the audit log, the last gain
of each key: nothing the model does reads the log, and `LogEndsAtGrid` reads only
that; `RedeclaredIsSilent` compares the log before and after one step, which a
view does not disturb.  `OverlapView` drops the observers (`decl`, `was`, `torn`)
that no property of that run reads.

Fairness: `FairSpec` assumes weak fairness of each request's next step.  An
awaited query returns or throws, and Node's event loop resumes the request; both
outcomes are steps of `UploadStep`.  Nothing is assumed of administrators, resets
or crashes.

### Findings

1. Two overlapping Replace Active Dataset requests both end with
   `isCurrentActive: true` (`src/upload/upload.service.ts:738`), against
   `prisma/schema.prisma:510-511`.
2. A file that leaves a service undeclared logs `REMOVED` but keeps the grid row,
   so every later upload of the same file logs `REMOVED` again
   (`upload.service.ts:1057`), against "an unchanged (MNO, service) on a
   re-upload produces no row" (`schema.prisma:405-407`).
3. A replacement empties `MnoMasterConnectivity` before asking it whether an MNO
   is new, so a known MNO's genuine gain is filed as onboarding
   (`upload.service.ts:853`), against `schema.prisma:429-430`.

A divergence without a run of its own: alias triage repoints a row an override
pinned and leaves the flag (`provider-alias.service.ts:115`, `186`), so that the row
says "manual" of a provider no override named, against `schema.prisma:343-346`.
The `overlap` run reaches such rows.  `PinnedOnlyByRule` says that there are no
others, whatever overlaps, and that the next write of the row by an upload or an
override, or a wipe, ends it.

## ChangeHistory

The market-intelligence page ranks carriers by the rows of `Ir21RoutingChange`.
Besides the live differences, a file carries its own history in free text
("Removed BICS as SCCP carrier and add TATA"), which `backfillChangeHistory`
turns into rows and `reclassifyChangeHistoryTaxonomy` re-reads on demand.  Both
must credit each win once.  No code relates two (MNO, service) groups, so the
module is one group.

### State and actions

| Variable | Code |
|---|---|
| `rows` | the group's `Ir21RoutingChange` rows in insertion order: source, type, sides, onboarding flag, description, date, reviewed flag |
| `loaded`, `current` | whether the MNO has a snapshot row; `Ir21Connectivity.providerId` |
| `known` | providers whose names the in-memory alias cache resolves (`matchAlias`) |
| `req` | the request in flight: `seen`, `added`, `onb` are `seen`, `hasAdditionRecorded` and `onboardingAdditionByService`; `todo` is `updates` |
| `won`, `disturbed`, `settled` | observers: winners the file's swaps named, whether anything but uploads wrote or re-aliased, whether a pass has gone through undisturbed |
| `uploads`, `items`, `passes`, `edits`, `faults` | bounds |

`BeginFile` sums up `applyServiceConnectivity` (which `Ir21Ingest` details) as the
live row it leaves; `ReadRows` is the one query of the backfill; `RecordItem` and
`SkipItem` are its loop, entry by entry; `FinishFile` is the snapshot.
`StartPass` reads the table and computes the updates, `ApplyBatch` is one
transaction of them, `FinishPass` the answer.  `RequestDies` is a crash or a query
that throws, in either.  `ToggleAlias`, `Review` and `ReprocessOnboarding` are the
admin's corrections.

Abstractions: a description is the two carriers its patterns extract and whether
a non-carrier pattern matches it; the four non-carrier types are one, as no code
tells them apart here; `matchedRule` is a function of the type and the sides for
every row a pass compares, so it is left out.  Where the code leaves an order to
the database (the onboarding row found, rows of one date) the model takes any.
The first-upload flag is true when the MNO has no snapshot or the upload is a
replacement, which empties that table.  Names of one provider's many aliases are
one name, known or not.  `ReprocessOnboarding` acts when the MNO's earliest live
row is in this group, and is nothing otherwise.

Requests do not overlap in this module: uploads, passes, reviews and reprocessing
are started one after the other.  Two overlapping uploads of one MNO would each
read the table before the other's inserts, and no unique index stops the double
rows; that is a hazard of the list and not covered.  Alias edits are taken at any
moment, since the cache is one for the process.

### Properties

| Property | Says |
|---|---|
| `TypeOK` | rows and request keep their shape; a pass has only history rows to write |
| `InsertsAreNew` | an entry is never stored under a key the table has |
| `NamedGainOnce` | a winner the entry's text names is stored only if no counted row gains it |
| `SwapIsCredited` | after dedup, stripping and pairing, each winner a file's swap named is gained by a counted row |
| `PassCreditsEveryWin` | the same of every stored swap after a pass |
| `SecondPassIsSilent` | after a pass, even one resumed after dying between batches, another has nothing to write (distinct dates, one onboarding row) |
| `FreshHistoryIsStable` | rows uploads alone wrote in date order, after the live rows, are what a pass makes of them: the two copies of the rules agree |

### Runs

| Run | Bounds | Shows |
|---|---|---|
| `history` | 2 providers, 2 dates, a swap, an addition, a removal that also reads as technical, a technical note; 2 uploads with 2 entries in all, 2 passes in batches of one update, 1 correction, 1 fault | the seven properties, and `MarketFiguresAgree` of `MarketViews` |
| `history_reupload` | 3 providers, 2 uploads of swaps a-b and b-c, no fault | `OneRowPerEntry` fails: finding 4 |
| `history_pass` | 1 upload of two entries, 1 pass in one batch | `PassCountsGainOnce` fails: finding 5 |

Two entries are what it takes for one to claim the winner of the other, two
uploads for a row to meet its own entry again, two passes for one to resume the
other, and batches of one update for the table to be seen between batches.

### Findings

4. Uploading an unchanged file again stores a second row for an entry whose winner
   the first row already claims (`upload.service.ts:1240`): a bare removal, or,
   paired with the onboarding carrier, a swap no text names; against
   `upload.service.ts:1091-1093` and `ir21-routing-changes.service.ts:273-276`.
5. A pass credits by date what ingestion credited in file order, and leaves a row
   whose every side is claimed as it was (`upload.service.ts:1400`, `1445-1448`), so
   one gain becomes two; against `upload.service.ts:1307-1310`.

Also seen, with no text that promises otherwise: a pass overwrites the type of a
reviewed row; with equal dates a second pass may swap what the first decided,
since an update moves a row in the order Postgres returns; an entry that only adds
a carrier, dated as its onboarding row, is taken for that row and credited to
nobody.

## MarketViews

The market-intelligence page shows the rows of `ChangeHistory` in seven places,
each with its own idea of which rows count for whom: the feed and the summary
(`ir21-routing-changes.service.ts`), the pill counts, the charts and the ledger
(`web/app/analytics/ir21-changes/`), the pivot and the report
(`web/lib/reports/`), and the review tab.  All of them count row by row, so a
view is a predicate of a row and a figure the number of rows it holds of; two
figures agree on every log exactly when the predicates agree on each row.

`Fetched` is `fetchFiltered`, with the two places where the spread of object
literals overwrites an earlier key (a role's types over the change filter's, a
search's `OR` over the provider's).  `Overview`, `Ledger` and `Counts` are the
three query strings of the page.  The rows are of one (MNO, service), so region,
service and search keep all of them or none (`inScope`, `search`); a timeframe or
custom range is an interval of days.  `ChangeHistory` has one type for the four
non-carrier ones; `Readings` tries each.

`MarketFiguresAgree` is an invariant of the `history` run: no reachable log, after
files, passes that die half way, corrections and alias edits, holds a row that

- is counted by a pill which does not fetch it, or the reverse;
- is charted for a selected carrier and missing from the ledger, or listed among
  the pivot's migrations of that carrier and missing from the ledger;
- the summary, the pivot, the feed by role and a report on the unrefined ledger
  credit to different carriers;
- has a carrier on one side the ledger's detail does not name;
- the default view hides without the review tab listing it, or the reverse.

`DisputedRows` is the set of rows the views read differently, computed once; the
invariant is that none of them is ever stored.  It is not empty: among the
rows nobody reviewed it holds every `ADDED` one with an old side and every
technical one with a carrier on it, which is why a pass has to clear the sides of
an entry it makes technical.

Two disagreements are real and excused.  `reclassify` changes the type of a row
and not its sides, so a `REPLACED` row an admin turned into `REMOVED` is a gain in
the summary and in no other figure (the comment at
`ir21-routing-changes.service.ts:165-166` has gains as ADDED and REPLACED): the
third and fourth points are stated of rows not reviewed.  And with both a carrier
and a search set, `fetchFiltered` drops the carrier (line 101 over line 72, against
the comment at 61-65): the second is stated for no search.  The state machine of
the page (its effects and late answers) is not modelled; its fetches carry a
`cancelled` flag, unlike those of the MNO search in `WebClient`.

## ProviderAliases

A carrier's free text becomes a provider through the alias table, of which the
one API process keeps a cache; text that matches nothing goes to "Others" and
waits in the triage queue until an administrator resolves it, which repairs the
grid behind it.

### State and actions

| Variable | Code |
|---|---|
| `providers`, `used`, `alias` | `ProviderMaster` rows, ids ever given (never reused), `ProviderAlias` |
| `queue` | `UnmappedProviderVariant` by pattern: status, `detectedService`, `affectedTadigs` |
| `mnos`, `epoch`, `conn`, `snap` | as in `Ir21Ingest`; `snap` keeps the carriers of each service, as `MnoMasterConnectivity` does |
| `cache` | `ProviderResolverService.cache`, and `othersProviderId` |
| `ing`, `adm` | the ingesting and the administration requests in flight |
| `desync`, `raced`, `detached`, `sighted`, `missed`, `arrived` | observers, said where they are declared: `raced` are the sightings queued while another file held a read of the variant, `detached` the texts whose alias was deleted since it was last given |

One action per awaited query.  A file: `StartFile`, `MatchText`, `FindVariant`,
`QueueVariant`, `WriteRow`, `SaveSnapshot`; the DSX backfill: `StartDsxBackfill`,
`NextGap`, then the same, `FinishDsxBackfill`.  Resolving a variant: `StartResolve`,
`PickTarget` or `CreateTarget`, `UpsertAlias`, `SetCache`, `MarkResolved`,
`RepointRow` per MNO, `FinishRows`; a remap (`StartRemap`, `StartRemapToNew`) adds
`ScanSnapshots`; `StartAddAlias` stops at the cache.  A deletion counts
(`StartDeleteProvider`), erases in a transaction (`EraseProvider`) and reloads the
cache by two steps, `ReadAliases` and `SwapCache`, between which anything may run;
`DeleteAlias` is the same for one alias.  `IngestFails`, `EditFails`, `Crash` and
`ResetDatabase` may come at any of them.

Abstractions.  A text is a model value: which texts are equal after
normalisation, which pass the confident-substring test (`Similar`), which are
generic, and that `Junk` is placeholder text, are constants.  A file declares the
carriers of one service; overrides are `Ir21Ingest`'s.  `RepointRow` is the look-up
of the MNO and the service and the upsert in one: a reset between them has the
upsert hit a foreign key, which is `EditFails` of a request whose MNO has gone.
The count of a provider's reach-list rows, one more reason to refuse a deletion, is
left out, as those rows are `ReachList`'s.  `deleteProvider` does not
delete the audit entries and overrides that point at the provider, so that even a
forced deletion throws when there are any; those tables are not here.
`reassignAlias` is `addAlias` of an existing pattern.

### Properties

| Property | Says |
|---|---|
| `TypeOK` | tables, cache and requests keep their shape, and every provider row's id was recorded as given |
| `CacheFollowsTable` | between requests the cache is the table, unless an update of it was overtaken or lost, and then until a refresh runs undisturbed |
| `TriageIsComplete` | every MNO that declared an unmapped carrier is in its variant, and the variant is listed (PENDING) or the carrier has its alias, or had one that was deleted; but for a sighting written while another file held a read of the variant |
| `ResolvedSightingsAreFilled` | a resolution leaves no blank cell behind its sightings, but for those of another service than the last, those that came after it read, those a fault cut off, and those of `raced` |
| `UnforcedDeleteKeepsOldRows` | a deletion without force takes only rows that arrived after its count |

Divergences met, without a run of their own: the comment at
`provider-alias.service.ts:46-51` has every occurrence of the text backfilled, the
code fills the last `detectedService` only; the one at 302-303 has a deleted
alias' text route to triage again, but its variant stays RESOLVED, which the triage
page does not list (24-27): such texts are in `detached`, and `TriageIsComplete`
says no more than that their MNOs are in the variant; `affectedTadigs` is read and
written back in two queries, so that one of two files loses its MNO (`raced`); a
generic name that was resolved has an alias nothing looks at, so its new sightings
go to a variant that stays RESOLVED; a remap matches backup carriers too and
repoints the primary row; a generic pattern can still match longer texts; a refresh that fails after a committed deletion leaves the
cache stale until the next.

## CarrierViews

`MnoService`, `ProviderService` and `DashboardService` each derive "which carriers
does this MNO declare" on their own, from the grid, from the raw carriers of the
snapshot, from the reach lists, and the search page narrows the result three more
times (table, pills, chart).  Each view is an operator translated from its own
code path, over the database and the cache of `ProviderAliases`; reach lists are
an argument (`ReachLists`: none, and two carriers claiming the SCCP of every
MNO).  A view is taken at one instant; a request whose parallel queries straddle a
write may be torn, and no property speaks of that.  An MNO has a snapshot when
there are carriers in it (`HasSnapshot`): the code asks for the row alone, and every
file of the model that stores a row declares a carrier in it.

| Property | Says |
|---|---|
| `PagesAgree` | the dashboard's MNO totals are the search's scopes and split the MNOs; every MNO on a provider's footprint is "IR.21 Verified"; a provider is on an MNO's page, its search row, its own footprint, the operator matrix and the dashboard's relationships, or on none |
| `ExclusiveIsAlone` | exclusive on the provider page is sole in the MNO's search row, under every source, and never with another provider on-net there |
| `ChartsCountTheTable` | with a provider filter, pills, table and chart count the same MNOs |

They are invariants of the `aliases` run, so they are checked on grids no load
leaves tidy: after partial files, remaps, deletions and backfills.  Excused, and
seen in the code: a pill's count ignores the service filter
(`web/app/search/mno/page.tsx:750-806`), the rows under "any" ignore it while the
chart narrows, and `ExclusiveIsAlone` needs every cached provider to have its row
(an id without one is shown by the dashboard and the detail page only).  Also seen:
"full" exclusivity is one carrier over all services together, not on each of the
three; the comment at `mno.service.ts:356-370` speaks of the canonical provider
where the page uses the broad set.

### Run

`aliases`: 2 MNOs, SCCP and DSX, three texts (two similar, one generic) and junk,
3 providers of which 2 are seeded, four kinds of file, 2 ingesting and 2 admin
requests, 3 requests in all, 1 reset, crash or failing query; symmetry on MNOs and
on the requests.  Two similar texts are what it takes for a match by containment
to differ from one by equality; two requests of each kind for each race in the
hazards; three in all for file, triage and a second file or a deletion.

## ReachList

A carrier's own list of the operators it reaches comes as a sheet, a matrix or an
archive of sheets.  Each row is placed on an MNO, by code or by name, or queued
for an administrator in `MnoNormalizationAudit`.

### State and actions

| Variable | Code |
|---|---|
| `mnos`, `secondary`, `epoch` | `MnoMaster` by TADIG with its operator name, its secondary TADIGs, resets so far |
| `providers`, `alias` | `ProviderMaster`, and those whose own name is in the alias directory |
| `reach` | `ProviderReachlist.sourceFile` per (MNO, provider, service) |
| `audit`, `erased` | `MnoNormalizationAudit`; deletions so far, which tell a live id from a dead one |
| `up`, `adm` | uploads and administration requests in flight |
| `alone`, `declared`, `taken`, `wiped`, `overtaken` | observers |

An upload is `StartUpload` (or `StartArchive` and `NextFile`), `DeleteOldRows`,
`ReadRoster`, and for each row `TakeRow`, `FindMnoByName`, `CreateProvider`,
`RegisterAlias`, then `FindAudit` and `WriteAudit` or `UpsertRow` per service;
`FinishFile`, `FinishArchive`, `UploadFails`.  The queue's operations are
`StartResolve`, `MapService`, `MarkOverridden`, and of the bulk request
`StartBulk` with `CommitMapping`, `CommitNewMnos`, `CommitIgnore`,
`CommitDelete`, each a read followed by a transaction; `createFromAudits` is the
"create" of these.  `StartSecondary`, `WriteSecondary` are `setSecondaryTadigs`.
`LoadIr21`, `PurgeReachlist`, `ResetDatabase` and `Crash` come at any time.

Abstractions: header detection and cell formats are reduced to the rows they
yield; a matrix queues its rows without a code that cannot be placed before it
comes to the others (`InOrder`); a name is a (country, operator) pair with a similarity relation; of the
placeholder TADIGs only a pool is kept.  An archive has provider and roster maps
of its own, where the code keeps them in instance fields two archives would share
(`reachlist-zip-batch.service.ts:89-90`); two inner files of one base name are
left out.

### Properties

| Property | Says |
|---|---|
| `TypeOK` | shapes, and that a reach row has its MNO and provider |
| `OtherFilesKeepTheirRows` | a row only one file declared stays under that file until it is replaced or purged |
| `ReplaceIsExact` | after an undisturbed replacement the file's rows are exactly what its content stands for, and `recordsLoaded` is their number |
| `NothingUnplacedVanishes` | what an undisturbed upload could not place waits in the queue with every service |
| `DecisionsOutliveUploads` | an upload that runs alone changes no entry an administrator resolved, and any other only if its own file declares that entry again, keeping id and services |
| `OverriddenIsApplied` | an entry marked resolved has its rows, whatever failed |

`alone` is an upload nothing has run beside: the properties that compare what a
file says with the tables are about those, the others about any interleaving.

Divergences met: re-uploading a replaced file whose entry was resolved deletes the
rows the resolution made and never recreates them (`upload.service.ts:624` returns
early, against 604-608), and a new service of a resolved entry is dropped;
replacing a file deletes rows another file declares too, since a row has one
`sourceFile`; an IGNORED entry goes back to PENDING_REVIEW when it is declared again
(`upload.service.ts:631`, against `schema.prisma:248-254`, which has ignored entries
stop recurring), the one change of an administrator's decision that
`DecisionsOutliveUploads` admits; an upload that finds an entry before a resolution and
writes it after undoes the resolution; of an archive, rows without a TADIG that
resolve to nothing are dropped (`reachlist-zip-batch.service.ts:297-303`); two
uploads that meet the same unknown carrier both create it and the second throws;
`setSecondaryTadigs` does not look at the secondary codes of other MNOs.

### Run

`reachlist`: 3 codes of which one is a placeholder, 3 names of which two are
similar, 2 providers, 2 services, 2 files, 5 kinds of row, 2 uploads or 1 upload
and 1 admin request in flight, 2 uploads in all with up to 2 rows, 1 edit, 1 fault;
symmetry on uploads and files.  Two uploads give re-upload, replacement and
take-over; two rows two carriers of one operator or one operator twice; one edit
beside an upload every read-then-write of the queue.

## Accounts, SplitUpload, WebClient

`Accounts` has the `User` rows and the two requests that change them; each admits
the acting administrator, finds the target, counts the active administrators when
it deactivates, and writes: four awaited steps.  The rule is "not yourself, and
not the last active administrator", and `AdminRemains` is that the table always
has one.  It holds of requests that do not overlap; two that do may each remove the
other's author (`user.service.ts:55-60`, `72-79`), the run reaches that state, and
the observer `overlap` excuses it.

`SplitUpload` is the cut of an archive into requests under the size cap with each
XML and its PDF kept together, and the pairing the server does within one request:
pure operators over sequences of files, each loop of the code a recursive function
of the number of files (`Pairing`, `Adding`) or groups (`Packing`) it has gone
through.

`WebClient` extends both with browser tabs that share one `localStorage`: password
and Microsoft sign-in, the silent refresh, logout, reload, the 401 handler, the
loop over the requests of a split archive, and the search page with its fallback to
the reach lists.

| Variable | Code |
|---|---|
| `account`, `edit`, `edited`, `overlap` | `User` rows; administration requests in flight; bound; observer |
| `stored` | `ccip_token` and `ccip_user` |
| `tab` | per tab: the user shown, the login and refresh calls in flight, the searches in flight, what the page shows, the upload card |
| `batch` | the upload request a tab has sent; it outlives the page |
| `dataset`, `now`, `events` | the TADIGs of the active dataset; the clock of the tokens; bound |

A call reads the token and reaches the server in one step, and its answer comes
back in another any time later; an upload request has a step of its own in which
it is applied.  Faults turn a call into an error or lose it.  Redirect and remount
are one step; a tab without a user is on `/login`.  Each tab has at most one
refresh and one upload loop in flight: the busy flag is the mounted card's, and a
second card, opened while the loop of the first runs on, is to the server one more
uploader (`OtherUpload`).  Splitting an archive is part of `StartUpload` and may fail.  A batch is applied whole: what a server
crash does in the middle of one is `Ir21Ingest`'s subject.  The default role of a
Microsoft account is assumed not to be ADMIN.

| Property | Says |
|---|---|
| `TypeOK` | shapes; an upload in progress points at a batch there is; a fallback is only asked for an empty answer |
| `AdminRemains` | an active administrator exists, unless two administration requests overlapped |
| `UploadIsPrefix` | as long as no other upload lands in between, the dataset is the one before (purged, for a replacement) and the first batches in order; all of them at the end |
| `SplitKeepsPairs` | the server finds for every XML the PDF it would have found in the whole archive |
| `ResultsMatchSearch` | with no search in flight the rows and the notice are those of the URL |
| `UploadEnds` | the upload card never stays busy |
| `DeadSessionEnds` | while a tab shows a user, an expired or deactivated token is dropped or replaced |
| `RolesCatchUp` | a tab showing a role its account no longer has catches up, unless the session is gone |

Fairness: weak fairness of the refresh timer while the tab is open, of the server
serving a batch, and of the browser sending the first and delivering each answer of
the refresh and the upload.  None of these waits for a person, and none is promised
of logins, searches or administration.

Excused, and seen in the code: two searches answered out of order leave the older
rows (no cancellation, `late`); a failed search leaves the previous rows; a name
that mentions two TADIGs, or two XMLs of one, can lose its pairing in the split.
Divergences met, without a run of their own: only the first request of a split
replacement knows what the dataset was, so the later batches log MNOs that were
there before as ADDED (against `upload.service.ts:673-682`); a later batch that
fails leaves the purged dataset with a prefix of the archive, which is exactly what
`UploadIsPrefix` says; a wrong password with a stale token in storage clears the
session (`web/lib/api.ts:17-24` means another case); a refresh answered after a
logout stores the session again; a tab whose storage another tab emptied keeps
showing its user until a request fails.

### Run

`webclient`: 2 tabs, 2 accounts (one with a password), 2 account tables, 2
administration requests, 3 events (acts of the person, faults, ticks, others'
uploads), or 2 together with the administration requests where there is one; one
tab that searches, with two searches in flight, and uploads; an archive that needs
three requests, one that needs one and one without anything to load; a token
lifetime of one tick.  Three events are a login or reload, the act and the fault
that meets it; two tabs are what a shared
`localStorage` needs.  No symmetry, since liveness is checked.

## Proofs

Every invariant and action property that a passing run checks is also proved, for
arbitrary sets of operators, carriers, services, texts, requests, tabs and archives
and for every bound.  The run shows it on an instance and, through the mutants,
that it can fail; the theorem shows it of all instances.  What the theorems take
for granted are the named assumptions of the modules on their constants (below)
and, where said, a hypothesis on `Overlap`.

The proofs go one way throughout: an inductive invariant that strengthens the
property, a lemma per action (or per group of actions that move the same state), a
lemma that puts the actions together, and a temporal step.  A component's type
invariant is proved first and carries what the frames of its requests need: that a
request past its look-up has found something, that a row number is in the table.

| Theorem | Inductive invariant, and why `Property` alone is not inductive |
|---|---|
| **`Ir21IngestProofs`** | |
| `TypeCorrect`: `Spec => []TypeOK` | `TypeInv` = shapes + `FrameOK` (a request applying a file knows its MNO and a valid service; an idle one starts at service 1) + `AdminFrameOK`. Without the frames a write could hit a key that does not exist. |
| `ActiveBaselineUnique`: `Overlap # "any" => (Spec => []AtMostOneActiveBaseline)` | `BaselineInv`: a replacement is alone, and between its wipe and its end no row is active; only then does `FinishUpload` add the one. |
| `PinsComeFromRules`: `Spec => []PinnedOnlyByRule` | `PinInv`: the rule table, the overrides a file loaded (possibly since deleted) and the target of an edit in flight all name providers in `everRule`; a stale loaded override is what a plain invariant on tables misses. A row triage writes enters `moved`, and each other writer of the row takes it out only with a provider from those sources. |
| `FirstLoadIsNotChurn`: `Spec => BaselineLoadIsNotChurn` | `FirstInv`: a snapshot implies the MNO was applied in full, ids never come from the future, and a file open on a live MNO not yet applied in full carries `first`. |
| **`Ir21GridProofs`** | each under `Overlap = "none"` |
| `GridIsFaithful`: `[]GridFollowsDeclaration` | `GridInv`: `Alone` (one request or edit in flight), what each phase of a file has loaded equals the tables, and the key under work has no declaration in force until its `RecordChange`. |
| `ReplacementIsComplete`: `ReplaceLeavesOnlyItsBatch` | `BatchInv`: from its wipe on, a replacement's touched MNOs include every MNO with data and the one being applied. |
| `IngestImplementsGridTruth`: `ImplementsGridTruth` | `GridInv`, by which the overrides a file loaded are the rule table when it writes, with `RefinementInv`: a file about to write has something to write, and an edit about to touch the row still has the rule table as it left it. So each write is an `Apply`, `UnpinRow` an `Unpin` and a move by triage a `Repoint`. One lemma per group of actions says which abstract step, or stutter, it is. |
| `LogExplainsGrid`: `[]LogEndsAtGrid` | `LogInv` with `GridInv`: what explains a key moves. While its row is there the last gain is the row; after a wipe it is the pre-wipe map; between the row and its audit entry it is what the request read before writing (`KeyLogged`). |
| `RedeclaringIsSilent`: `RedeclaredIsSilent` | the same `LogInv`, by its part `StillSo`: a key declared when the request began, and not declared anew since, is on the grid (or in the pre-wipe map) as that declaration and the rules have it, so the comparison finds nothing. |
| **`ChangeHistoryProofs`** | |
| `HistoryTypeCorrect`: `Spec => []TypeOK` | `TypeInv` and `TodoInv`: updates outstanding point at rows there are, of history rows with a text, and at different ones. |
| `EntriesAreStoredOnce`: `Spec => InsertsAreNew`, `GainsAreNamedOnce`: `Spec => NamedGainOnce` | `BackfillInv`: while the loop runs, `seen` covers the key of every row in the table and `added` every counted gain, though both were read once and the table grows under them. |
| `SwapsAreCredited`: `Spec => []SwapIsCredited` | `CreditInv`, the converse: every key in `seen` and every win in `added` comes from a row (`LoopInv`). So an entry skipped as seen, or stripped as already won, leaves its winner credited by the row that stands for it. |
| `PassesCreditWins`: `Spec => []PassCreditsEveryWin` | `PassInv`: there is an order, a pairing row and a sequence of win sets, one per row read, such that each reading is in the table or among the outstanding updates (`SaysAll`). The sequence is found by induction over the pass; what makes it an invariant of the batches is that an update writes what it says and touches no other row. |
| `SecondPassesAreSilent`: `Spec => []SecondPassIsSilent` | `PassInv` with the outstanding updates gone: a second pass has the same order (distinct dates) and pairing (one row), so by induction the same win sets, and every reading is already so. |
| `FreshHistoryStaysStable`: `Spec => []FreshHistoryIsStable` | `FreshInv`: each history row is as a pass would read it that knew the rows stored before it. For rows stored in date order after the live ones, what a pass knows at a row is exactly that. |
| `MarketViewsAgree`: `Spec => []MarketFiguresAgree` | `FitsInv`: the sides of a stored row, and of an update waiting for its batch, are those of its type, unless it was reviewed. Each view then reads the row alike, for any carrier, filters, dates and report; the property says nothing of pending updates, which is why it is not inductive. |
| **`ProviderAliasesProofs`** | |
| `AliasesTypeCorrect`: `Spec => []TypeOK` | `TypeInv` = shapes + frames: an operation is where its kind can be, and a resolution works on a variant there is. |
| `TriageComplete`: `Spec => []TriageIsComplete` | `TriageInv`, two halves. `ListedInv`: a sighting not in `raced` is on its variant's list, and on every copy of the list a file holds and will write back, since a file that read before the sighting puts it in `raced`. `GivenInv`: a RESOLVED variant has its alias or lost it (`detached`), and a resolution about to mark its variant has given the alias before. The property forgets both the copies and the resolutions under way. |
| `CacheTrue`: `Spec => []CacheFollowsTable` | `CacheInv`: unless `desync`, at most one request is between writing the table and writing the cache, and the table is the cache with what that request still brings. |
| `UnforcedDeleteIsSafe`: `Spec => UnforcedDeleteKeepsOldRows` | `EraseInv`: between the count and the transaction, every row of the provider arrived in between. |
| `ResolvedAreFilled`: `Spec => []ResolvedSightingsAreFilled` | `ResolveInv`: what a resolution has read is every sighting of its variant (`PlanInv`); once marked, each is filled or still on its list (`FillInv`); and sightings are of live MNOs (`LiveInv`). |
| `PagesAlwaysAgree`, `ExclusiveIsAlwaysAlone`, `ChartsAlwaysCountTheTable`: `Spec => []PagesAgree`, `[]ExclusiveIsAlone`, `[]ChartsCountTheTable` | `ViewInv`: rows have their MNO and their provider. The rest is that the operators of `CarrierViews`, each from its own code path, come to the same sets on any such database; cardinalities need `Provider` finite. |
| **`ReachListProofs`** | |
| `ReachTypeCorrect`: `Spec => []TypeOK` | `TypeInv` = shapes + references + frames: what an upload or a request has looked up is there, or of an epoch that will refuse it. |
| `OtherFilesAreLeftAlone`: `Spec => []OtherFilesKeepTheirRows` | inductive with `TypeInv`, which gives that an upload that writes has a file and a bulk mapping a source for each row: whoever puts a row under another name puts it in `taken`, and a deletion takes only the rows under its own file's. |
| `OverriddenAreApplied`: `Spec => []OverriddenIsApplied` | `SawInv` and `MapInv`: an entry still alive has the services a request read of it, and each service the request has passed has its row. |
| `DecisionsAreKept`: `Spec => DecisionsOutliveUploads` | `AloneInv` and `SteadyInv`: an upload alone still sees what it read, so the entry it writes is the one it found, and that is the entry of the row in hand. |
| `UnplacedAreQueued`: `Spec => NothingUnplacedVanishes` | those and `QueueInv`: of a row nothing places, every carrier the loop has passed is in the queue, and those left are in `carriers`. |
| `ReplacementsAreExact`: `Spec => ReplaceIsExact` | those and `LoadInv`: what the file has is what this upload has written, and its number the counter's. |
| **`AccountsProofs`, `WebClientProofs`** | |
| `AccountsAreTyped`: `AccountSpec => []AccountTypeOK` | `TypedAccounts` = types and `Found`: a request past its look-up has a target with a row, without which its write would update nothing. |
| `AnAdminRemains`: `AccountSpec => []AdminRemains` | `Guarded`: without an overlap at most one request is in flight, and unless it activates, somebody other than its target is an active administrator (its author). The invariant alone would let a request in flight be about the only one. |
| `ClientImplementsAccounts`: `Safety => AccountSpec`, `AdminRemainsWithClients`: `Spec => []AdminRemains` | none needed: each step of `WebClient` is a step of `Accounts` or leaves its variables alone; the second follows from it and the theorem before. |
| `TabsTypeCorrect`: `Spec => []TypeOK`, `UploadsArePrefixes`: `Spec => []UploadIsPrefix` | `UploadInv`: types, that a request whose page still waits for it carries the batch its busy card points at (`RidesOn`), and that with no other upload in between the dataset is before or after that batch, and after it once the request is answered (`InStep`). |
| `SplitsKeepPairs`: `Spec => []SplitKeepsPairs` | `UploadInv`, by which a card's batches are those its archive is cut into, and a fact about the cut for every archive: induction over the pairing (a PDF is taken by an XML file that names it), over the unpaired PDFs (they come last), and over the packing (each batch is `Sound`: before an XML file stand only PDFs that belong to others). |
| `UploadsAddUp`: `Spec => []ArchiveIsIn` | the same, with the other half of those inductions: no file of the archive is left out. `ArchiveIsIn` is `UploadIsPrefix` said of the archive instead of its batches: after an upload went through the dataset has exactly its operators. |
| `PagesShowTheirSearch`: `Spec => []ResultsMatchSearch` | `SearchInv`: a call in flight that is not stale, or the fallback it will make, settles on the page's search; the property alone forgets what is on its way. |

`InductionLemmas` has what the inductions rest on.  The theorem modules of the
library state induction with an operator as parameter, which the provers do not
instantiate; `LeastNatural` obtains the least element of a set of naturals from
well-foundedness of `<`, where sets are first order, and `InductionUpTo` the
induction over `0..N` from it, with the set of numbers that satisfy the hypothesis in
place of a predicate.  `RecursionSolvable` is the existence of a recursive function up to
a bound.  That is why the loops of the code are recursive functions in the models
(`Reading`, `Pairing`, `Adding`, `Packing`), not folds of the community modules:
their equations at each index are then facts, and every invariant of a loop can be
proved by induction over it.

### Assumptions

Distinctness of special values, bounds that are numbers, and non-empty sets where
the code has them are in `ConstantsAssumption` (and `AccountConstants`,
`ClientConstants`) of each module.  Those with a reason in the code:

- `PopulationsHaveAnAdmin`: a system starts with an active administrator, as the
  seed script makes one (`prisma/seed.ts:368-372`).
- `IsArchive` of every archive: names within a zip are distinct, as JSZip keys
  entries by name (`web/lib/splitZipForUpload.ts:27-39`).  Two PDFs of one name would
  be one entry there, and one would seem taken by the other's XML file here.
- `RememberedTokens`: what `localStorage` holds at the start are sessions.
- `ProviderAssumption`: ids are 32-bit integers, so finitely many
  (`prisma/schema.prisma:188`).
- `MaxMixed <= MaxEvents` relates two bounds of the model and nothing of the code.
- `NoVariantAssumption`, `NoEntryAssumption`, `NullIsNoRecord`, `ModeAssumption`:
  `Null` is not a row, and the names of the pills are not services.  TLC evaluates
  them; they hold of model values and strings.

### Only model-checked

- Liveness: `WipeIsPublished` of `Ir21Ingest`, `UploadEnds`, `DeadSessionEnds` and
  `RolesCatchUp` of `WebClient`.  They rest on fairness, whose `ENABLED` is out of the
  prover's reach.
- The five runs that expect a violation: a counterexample is its own proof.
- That each property can fail at all: the mutants are TLC runs.

## Not modelled, and why

- The parsers (XML, PDF, MSG, XLSX, the flexible headers of reach lists): decoding
  without state.  The models start from what they yield.
- Object storage: a PDF is stored or not, and a failure is swallowed; nothing
  branches on it.
- `LoginHistory` and presence: the seconds of presence are added by an unguarded
  read and write in `src/auth/jwt.strategy.ts:52`, so two requests at once can count
  them twice; no other code reads them but the user page.
- Text search, regions, rankings, autocomplete and paging of the MNO and provider
  searches: filters and sums over what `CarrierViews` computes.
- The provider and roster maps two archives share while both are uploaded
  (`reachlist-zip-batch.service.ts:89`): each upload has its own in `ReachList`.
- The help page, layout, charts as drawings, and the writing of Excel, PDF and CSV
  files: presentation, and much the larger part of the lines of `apps/web`.  The
  provider, comparison and administration pages are left out too: forms and tables
  over endpoints the other modules have, one request at a time.
- The DTO types of the shared package: shapes that TypeScript checks.
