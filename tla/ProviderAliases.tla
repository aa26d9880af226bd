--------------------------- MODULE ProviderAliases ---------------------------
(***************************************************************************)
(* Provider resolution and triage:                                         *)
(* apps/api/src/upload/provider-resolver.service.ts (the alias cache and   *)
(* resolve), apps/api/src/provider-alias/provider-alias.service.ts         *)
(* (resolve, remap, addAlias, deleteAlias, deleteProvider) and, from       *)
(* apps/api/src/upload/upload.service.ts, the part of a file that meets    *)
(* the resolver and backfillDsxFromSnapshot.                               *)
(*                                                                         *)
(* The alias table is shared through Postgres, its cache lives in the one  *)
(* API process.  A request runs until it awaits a query, so there is one   *)
(* action per query, or per step that follows one.                         *)
(*                                                                         *)
(* A file declares the carriers of one service here: what Ir21Ingest says  *)
(* of the loop over the services is not repeated, nor are the overrides.   *)
(***************************************************************************)
EXTENDS Naturals, FiniteSets

CONSTANTS
    Mno,       \* operators, by TADIG code
    Service,   \* services
    Dsx,       \* the one backfillDsxFromSnapshot fills
    Text,      \* normalised carrier names
    Generic,   \* those of them isGenericPlaceholderToken refuses
    Similar,   \* pairs of them isConfidentSubstringMatch accepts
    Junk,      \* placeholder text, as isJunkProviderName sees it
    Provider,  \* ids a ProviderMaster row may get
    Seeded,    \* those the seed creates
    Others,    \* the seeded "Others / Unassigned"
    File,      \* what a file may declare
    Ingest,    \* ingesting requests that can be in flight at once
    Admin,     \* provider requests that can be in flight at once
    Null,      \* an absent row or value
    MaxRequests, MaxFaults  \* bounds

Key == Mno \X Service
Declared == Text \cup {Junk}
Holder == Provider \cup {Null}

ASSUME ConstantsAssumption ==
    /\ Dsx \in Service
    /\ Generic \subseteq Text /\ Similar \subseteq Text \X Text
    /\ Junk \notin Text /\ Null \notin Declared \cup Provider \cup Key
    /\ Others \in Seeded /\ Seeded \subseteq Provider
    /\ File \subseteq [service : Service, first : Declared, rest : SUBSET Text]
    /\ {MaxRequests, MaxFaults} \subseteq Nat

VARIABLES
    (* The database. *)
    providers,  \* ProviderMaster rows
    used,       \* ids ever given to one
    alias,      \* ProviderAlias.providerId by aliasPattern
    queue,      \* UnmappedProviderVariant rows by normalizedPattern
    mnos,       \* MnoMaster rows
    epoch,      \* full resets so far: an MnoMaster id lives in one epoch
    conn,       \* Ir21Connectivity.providerId per (MNO, service)
    snap,       \* the carriers MnoMasterConnectivity keeps per (MNO, service)
    (* The process. *)
    cache,      \* ProviderResolverService.cache, and othersProviderId at Junk
    ing,        \* ingesting requests in flight
    adm,        \* provider requests in flight
    (* Bounds. *)
    requests, faults,
    (* Observers, read by properties only. *)
    desync,     \* a cache update has been overtaken by another, or never came
    raced,      \* sightings queued while another file held a read of the variant
    detached,   \* texts whose alias was deleted since it was last given
    sighted,    \* (text, key) pairs that reached the triage queue
    missed,     \* those a resolution was not going to fill
    arrived     \* keys written while a deletion is past its count

db == <<providers, used, alias, queue, mnos, epoch, conn, snap>>
bounds == <<requests, faults>>
observers == <<desync, raced, detached, sighted, missed, arrived>>
vars == <<db, cache, ing, adm, bounds, observers>>

(* One bound for the resets, the crashes and the queries that throw by        *)
(* themselves.                                                                *)
FaultAllowed == faults + epoch < MaxFaults

Variant ==
    [status : {"PENDING", "RESOLVED"}, service : Service, tadigs : SUBSET Mno]

ASSUME NoVariantAssumption == Null \notin Variant

Carriers == [first : Declared \cup {Null}, rest : SUBSET Text]
NoCarriers == [first |-> Null, rest |-> {}]

IngestPhase == {"idle", "gap", "match", "find", "queue", "write", "snapshot"}

(* The frame of applyParsedIr21, or of backfillDsxFromSnapshot when dsx. *)
IngestRecord ==
    [pc : IngestPhase, dsx : BOOLEAN, key : Key \cup {Null},
     text : Declared \cup {Null}, rest : SUBSET Text, epoch : Nat,
     to : Holder, tadigs : SUBSET Mno, list : [Mno -> Declared \cup {Null}]]

IdleIngest ==
    [pc |-> "idle", dsx |-> FALSE, key |-> Null, text |-> Null, rest |-> {},
     epoch |-> 0, to |-> Null, tadigs |-> {}, list |-> [m \in Mno |-> Null]]

AdminPhase ==
    {"idle", "target", "upsert", "cache", "mark", "scan", "rows", "erase",
     "reload", "swap"}

AdminRecord ==
    [pc : AdminPhase, op : {"add", "resolve", "remap", "delete", "none"},
     text : Text \cup {Null}, to : Holder, service : Service \cup {Null},
     todo : SUBSET Key, epoch : Nat, force : BOOLEAN,
     loaded : [Declared -> Holder]]

NoAliases == [t \in Declared |-> Null]

IdleAdmin ==
    [pc |-> "idle", op |-> "none", text |-> Null, to |-> Null, service |-> Null,
     todo |-> {}, epoch |-> 0, force |-> FALSE, loaded |-> NoAliases]

(* What refreshCache reads, lines 25-28: every alias, and the catch-all. *)
Table ==
    [t \in Declared |->
        IF t = Junk THEN IF Others \in providers THEN Others ELSE Null
        ELSE alias[t]]

Init ==
    /\ providers = Seeded /\ used = Seeded
    /\ alias = [t \in Text |-> Null] /\ queue = [t \in Text |-> Null]
    /\ mnos = {} /\ epoch = 0
    /\ conn = [k \in Key |-> Null] /\ snap = [k \in Key |-> NoCarriers]
    /\ cache = Table
    /\ ing = [i \in Ingest |-> IdleIngest]
    /\ adm = [a \in Admin |-> IdleAdmin]
    /\ requests = 0 /\ faults = 0
    /\ desync = FALSE /\ raced = {} /\ detached = {}
    /\ sighted = {} /\ missed = {} /\ arrived = {}

-----------------------------------------------------------------------------
(* ProviderResolverService.                                                   *)

(* matchAlias, lines 55-67: exact, then the first pattern that contains or is *)
(* contained in it.  The patterns come in the order of a findMany without an  *)
(* orderBy, so any of them may be the first.                                  *)
Match(t) ==
    IF t \in Generic THEN {}
    ELSE IF cache[t] # Null THEN {cache[t]}
    ELSE {cache[u] : u \in {v \in Text : <<t, v>> \in Similar /\ cache[v] # Null}}

(* Requests whose write to the alias table has not reached the cache yet. *)
Writing == {a \in Admin : adm[a].pc \in {"cache", "reload", "swap"}}
Erasing == {a \in Admin : adm[a].pc = "erase"}

(* A row of Ir21Connectivity is written. *)
PutRow(k, p) ==
    /\ conn' = [conn EXCEPT ![k] = p]
    /\ arrived' = IF Erasing = {} THEN {} ELSE arrived \cup {k}

Stale(i) == ing[i].epoch # epoch

(* Where a request goes once its text is dealt with. *)
AfterText(i) == IF ing[i].dsx THEN "gap" ELSE "snapshot"

-----------------------------------------------------------------------------
(* applyParsedIr21: the MnoMaster row, then the service's declared carrier.   *)
StartFile(i, m, f) ==
    /\ ing[i].pc = "idle"
    /\ requests < MaxRequests
    /\ requests' = requests + 1
    /\ mnos' = mnos \cup {m}
    /\ ing' = [ing EXCEPT ![i] = [IdleIngest EXCEPT
                !.pc = "match", !.key = <<m, f.service>>, !.text = f.first,
                !.rest = f.rest, !.epoch = epoch]]
    /\ UNCHANGED <<providers, used, alias, queue, epoch, conn, snap, cache, adm,
                   faults, observers>>

(* backfillDsxFromSnapshot, lines 1517-1520: the candidates, read at once. *)
StartDsxBackfill(i) ==
    /\ ing[i].pc = "idle"
    /\ requests < MaxRequests
    /\ requests' = requests + 1
    /\ ing' = [ing EXCEPT ![i] = [IdleIngest EXCEPT
                !.pc = "gap", !.dsx = TRUE, !.epoch = epoch,
                !.list = [m \in Mno |-> snap[<<m, Dsx>>].first]]]
    /\ UNCHANGED <<db, cache, adm, faults, observers>>

(* Lines 1527-1534: a row that is already there is left alone. *)
NextGap(i, m) ==
    LET taken == ~Stale(i) /\ conn[<<m, Dsx>>] # Null
    IN /\ ing[i].pc = "gap"
       /\ ing[i].list[m] # Null
       /\ ing' = [ing EXCEPT ![i].list[m] = Null,
                   ![i].pc = IF taken THEN "gap" ELSE "match",
                   ![i].key = <<m, Dsx>>, ![i].text = ing[i].list[m]]
       /\ UNCHANGED <<db, cache, adm, bounds, observers>>

FinishDsxBackfill(i) ==
    /\ ing[i].pc = "gap"
    /\ \A m \in Mno : ing[i].list[m] = Null
    /\ ing' = [ing EXCEPT ![i] = IdleIngest]
    /\ UNCHANGED <<db, cache, adm, bounds, observers>>

(* resolve, lines 79-90.  Junk without the catch-all provider is dropped. *)
MatchText(i) ==
    /\ ing[i].pc = "match"
    /\ \/ \E p \in Match(ing[i].text) :
             ing' = [ing EXCEPT ![i].pc = "write", ![i].to = p]
       \/ /\ Match(ing[i].text) = {}
          /\ ing' = [ing EXCEPT ![i].pc =
                       IF ing[i].text = Junk THEN AfterText(i) ELSE "find"]
    /\ UNCHANGED <<db, cache, adm, bounds, observers>>

TadigsOf(t) == IF queue[t] = Null THEN {} ELSE queue[t].tadigs

(* Lines 93-96: the variant's TADIGs, read before they are written back. *)
FindVariant(i) ==
    /\ ing[i].pc = "find"
    /\ ing' = [ing EXCEPT ![i].pc = "queue", ![i].tadigs = TadigsOf(ing[i].text)]
    /\ UNCHANGED <<db, cache, adm, bounds, observers>>

(* Lines 97-99. *)
QueuedTadigs(i) == ing[i].tadigs \cup {ing[i].key[1]}

Resolving(t) ==
    \E a \in Admin : adm[a].pc # "idle" /\ adm[a].op = "resolve" /\ adm[a].text = t

(* Lines 101-115; an update leaves the row's status as it is. *)
QueueVariant(i) ==
    LET t == ing[i].text
        k == ing[i].key
        late == \/ Stale(i) \/ Resolving(t)
                \/ queue[t] # Null /\ queue[t].status = "RESOLVED"
        other == \E j \in Ingest \ {i} : ing[j].pc = "queue" /\ ing[j].text = t
    IN /\ ing[i].pc = "queue"
       /\ queue' = [queue EXCEPT ![t] =
            [status |-> IF queue[t] = Null THEN "PENDING" ELSE queue[t].status,
             service |-> k[2], tadigs |-> QueuedTadigs(i)]]
       /\ sighted' = sighted \cup {<<t, k>>}
       /\ missed' = IF late THEN missed \cup {<<t, k>>} ELSE missed
       /\ raced' = IF other THEN raced \cup ({<<t, k>>} \ sighted) ELSE raced \ {<<t, k>>}
       /\ ing' = [ing EXCEPT ![i].pc = AfterText(i), ![i].tadigs = {}]
       /\ UNCHANGED <<providers, used, alias, mnos, epoch, conn, snap, cache, adm,
                      bounds, desync, detached, arrived>>

(* A file upserts its row (upload.service.ts:1064-1068); the backfill creates *)
(* it (1537-1545), and the unique key refuses one that came first.            *)
MayWrite(i) == ing[i].dsx => conn[ing[i].key] = Null

WriteRow(i) ==
    /\ ing[i].pc = "write"
    /\ ~Stale(i) /\ ing[i].to \in providers
    /\ MayWrite(i)
    /\ PutRow(ing[i].key, ing[i].to)
    /\ ing' = [ing EXCEPT ![i].pc = AfterText(i), ![i].to = Null]
    /\ UNCHANGED <<providers, used, alias, queue, mnos, epoch, snap, cache, adm,
                   bounds, desync, raced, detached, sighted, missed>>

(* upload.service.ts:952-956: the snapshot is replaced as a whole. *)
SaveSnapshot(i) ==
    LET k == ing[i].key
    IN /\ ing[i].pc = "snapshot"
       /\ ~Stale(i)
       /\ snap' = [j \in Key |->
            IF j = k THEN [first |-> ing[i].text, rest |-> ing[i].rest]
            ELSE IF j[1] = k[1] THEN NoCarriers ELSE snap[j]]
       /\ ing' = [ing EXCEPT ![i] = IdleIngest]
       /\ UNCHANGED <<providers, used, alias, queue, mnos, epoch, conn, cache, adm,
                      bounds, observers>>

(* A query throws: on a row that has gone, on the unique key, or by itself. *)
IngestFails(i) ==
    LET refused == \/ ing[i].pc \in {"write", "snapshot"} /\ Stale(i)
                   \/ ing[i].pc = "write" /\ (ing[i].to \notin providers \/ ~MayWrite(i))
    IN /\ ing[i].pc # "idle"
       /\ refused \/ FaultAllowed
       /\ faults' = IF refused THEN faults ELSE faults + 1
       /\ ing' = [ing EXCEPT ![i] = IdleIngest]
       /\ UNCHANGED <<db, cache, adm, requests, observers>>

-----------------------------------------------------------------------------
(* ProviderAliasService.  resolve starts from a variant, remap and addAlias   *)
(* from a name the admin typed; reassignAlias is a remap of a stored pattern.  *)

StartEdit(a, record) ==
    /\ adm[a].pc = "idle"
    /\ requests < MaxRequests
    /\ requests' = requests + 1
    /\ adm' = [adm EXCEPT ![a] = record]

StartResolveMarking(a, t) ==
    /\ queue[t] # Null
    /\ StartEdit(a, [IdleAdmin EXCEPT !.pc = "target", !.op = "resolve", !.text = t,
                        !.service = queue[t].service,
                        !.todo = queue[t].tadigs \X {queue[t].service}])
    /\ queue' = [queue EXCEPT ![t].status = "RESOLVED"]
    /\ UNCHANGED <<providers, used, alias, mnos, epoch, conn, snap, cache, ing, faults,
                   observers>>

(* Line 53: the variant, with the service and the TADIGs it will fill. *)
StartResolve(a, t) ==
    /\ queue[t] # Null
    /\ StartEdit(a, [IdleAdmin EXCEPT !.pc = "target", !.op = "resolve", !.text = t,
                        !.service = queue[t].service,
                        !.todo = queue[t].tadigs \X {queue[t].service}])
    /\ UNCHANGED <<db, cache, ing, faults, observers>>

(* The target of any of them is an existing row ... *)
PickTarget(a, p) ==
    /\ adm[a].pc = "target"
    /\ p \in providers
    /\ adm' = [adm EXCEPT ![a].pc = "upsert", ![a].to = p]
    /\ UNCHANGED <<db, cache, ing, bounds, observers>>

CreateTargetReusingId(a, p) ==
    /\ adm[a].pc = "target"
    /\ p \notin providers
    /\ providers' = providers \cup {p}
    /\ adm' = [adm EXCEPT ![a].pc = "upsert", ![a].to = p]
    /\ UNCHANGED <<used, alias, queue, mnos, epoch, conn, snap, cache, ing, bounds, observers>>

(* ... or, lines 73-76 and 161-165, a new one, with a new id. *)
CreateTarget(a, p) ==
    /\ adm[a].pc = "target"
    /\ p \notin used
    /\ providers' = providers \cup {p} /\ used' = used \cup {p}
    /\ adm' = [adm EXCEPT ![a].pc = "upsert", ![a].to = p]
    /\ UNCHANGED <<alias, queue, mnos, epoch, conn, snap, cache, ing, bounds, observers>>

(* The first query of addAlias and remap is the one for the target. *)
StartAlias(a, op, t, p) ==
    StartEdit(a, [IdleAdmin EXCEPT !.pc = "upsert", !.op = op, !.text = t, !.to = p])

StartAddAlias(a, t, p) ==
    /\ p \in providers
    /\ StartAlias(a, "add", t, p)
    /\ UNCHANGED <<db, cache, ing, faults, observers>>

StartRemap(a, t, p) ==
    /\ p \in providers
    /\ StartAlias(a, "remap", t, p)
    /\ UNCHANGED <<db, cache, ing, faults, observers>>

StartRemapToNew(a, t, p) ==
    /\ p \notin used
    /\ providers' = providers \cup {p} /\ used' = used \cup {p}
    /\ StartAlias(a, "remap", t, p)
    /\ UNCHANGED <<alias, queue, mnos, epoch, conn, snap, cache, ing, faults,
                   observers>>

(* addAlias of the resolver, lines 38-42 ... *)
UpsertAlias(a) ==
    /\ adm[a].pc = "upsert"
    /\ adm[a].to \in providers
    /\ alias' = [alias EXCEPT ![adm[a].text] = adm[a].to]
    /\ desync' = (desync \/ Writing # {})
    /\ detached' = detached \ {adm[a].text}
    /\ adm' = [adm EXCEPT ![a].pc = "cache"]
    /\ UNCHANGED <<providers, used, queue, mnos, epoch, conn, snap, cache, ing, bounds,
                   raced, sighted, missed, arrived>>

AfterAlias(a) ==
    CASE adm[a].op = "resolve" -> "mark"
      [] adm[a].op = "remap" -> "scan"
      [] OTHER -> "idle"

SetCacheIfNew(a) ==
    /\ adm[a].pc = "cache"
    /\ cache' = [cache EXCEPT ![adm[a].text] = IF @ = Null THEN adm[a].to ELSE @]
    /\ adm' = [adm EXCEPT ![a] = IF AfterAlias(a) = "idle" THEN IdleAdmin
                                 ELSE [@ EXCEPT !.pc = AfterAlias(a)]]
    /\ UNCHANGED <<db, ing, bounds, observers>>

(* ... and line 43. *)
SetCache(a) ==
    /\ adm[a].pc = "cache"
    /\ cache' = [cache EXCEPT ![adm[a].text] = adm[a].to]
    /\ adm' = [adm EXCEPT ![a] = IF AfterAlias(a) = "idle" THEN IdleAdmin
                                 ELSE [@ EXCEPT !.pc = AfterAlias(a)]]
    /\ UNCHANGED <<db, ing, bounds, observers>>

(* Lines 81-84.  Sightings of another service are not in what will be filled. *)
MarkResolved(a) ==
    LET t == adm[a].text
    IN /\ adm[a].pc = "mark"
       /\ adm[a].to \in providers
       /\ queue' = [queue EXCEPT ![t].status = "RESOLVED"]
       /\ missed' = missed \cup {x \in sighted : x[1] = t /\ x[2][2] # adm[a].service}
       /\ adm' = [adm EXCEPT ![a].pc = "rows", ![a].epoch = epoch]
       /\ UNCHANGED <<providers, used, alias, mnos, epoch, conn, snap, cache, ing, bounds,
                      desync, raced, detached, sighted, arrived>>

(* Lines 170-179: every MNO one of whose declared carriers is this name. *)
ScanSnapshots(a) ==
    LET t == adm[a].text
    IN /\ adm[a].pc = "scan"
       /\ adm' = [adm EXCEPT ![a].pc = "rows", ![a].epoch = epoch,
                    ![a].todo = {k \in Key : snap[k].first = t \/ t \in snap[k].rest}]
       /\ UNCHANGED <<db, cache, ing, bounds, observers>>

RepointsExisting(k) == conn[k] # Null

(* Both are upserts of providerId. *)
Repoints(k) == TRUE

(* backfillOccurrence, lines 105-123, which looks the TADIG up again, and the *)
(* loop of remap, lines 181-189, which trusts the id it scanned.  The lookup   *)
(* falls anywhere since the row before: after a reset (the name is gone, or    *)
(* back under a new id), or before it, and the upsert throws (EditFails).      *)
RepointRow(a, k) ==
    /\ adm[a].pc = "rows"
    /\ k \in adm[a].todo
    /\ adm[a].op = "remap" => adm[a].epoch = epoch
    /\ adm[a].to \in providers \/ k[1] \notin mnos
    /\ IF k[1] \in mnos /\ Repoints(k) THEN PutRow(k, adm[a].to)
       ELSE UNCHANGED <<conn, arrived>>
    /\ adm' = [adm EXCEPT ![a].todo = @ \ {k}, ![a].epoch = epoch]
    /\ UNCHANGED <<providers, used, alias, queue, mnos, epoch, snap, cache, ing, bounds,
                   desync, raced, detached, sighted, missed>>

FinishRows(a) ==
    /\ adm[a].pc = "rows"
    /\ adm[a].todo = {}
    /\ adm' = [adm EXCEPT ![a] = IdleAdmin]
    /\ UNCHANGED <<db, cache, ing, bounds, observers>>

DeletableAlways(p, force) == TRUE

(* Line 213, without the provider's reach-list rows, which this module has not: *)
(* one more reason to refuse.                                                  *)
Deletable(p, force) == force \/ \A k \in Key : conn[k] # p

(* deleteProvider, lines 206-217: the rows are counted before the transaction. *)
StartDeleteProvider(a, p, force) ==
    /\ p \in providers
    /\ Deletable(p, force)
    /\ StartEdit(a, [IdleAdmin EXCEPT !.pc = "erase", !.op = "delete", !.to = p,
                        !.force = force])
    /\ arrived' = IF Erasing = {} THEN {} ELSE arrived
    /\ UNCHANGED <<db, cache, ing, faults, desync, raced, detached, sighted, missed>>

(* Lines 219-224, one transaction. *)
EraseProvider(a) ==
    LET p == adm[a].to
    IN /\ adm[a].pc = "erase"
       /\ p \in providers
       /\ providers' = providers \ {p}
       /\ alias' = [t \in Text |-> IF alias[t] = p THEN Null ELSE alias[t]]
       /\ conn' = [k \in Key |-> IF conn[k] = p THEN Null ELSE conn[k]]
       /\ missed' = missed \cup {x \in sighted : conn[x[2]] = p}
       /\ desync' = (desync \/ Writing # {})
       /\ detached' = detached \cup {t \in Text : alias[t] = p}
       /\ adm' = [adm EXCEPT ![a].pc = "reload"]
       /\ UNCHANGED <<used, queue, mnos, epoch, snap, cache, ing, bounds,
                      raced, sighted, arrived>>

(* deleteAlias, lines 305-307. *)
DeleteAlias(a, t) ==
    /\ alias[t] # Null
    /\ StartEdit(a, [IdleAdmin EXCEPT !.pc = "reload", !.op = "delete"])
    /\ alias' = [alias EXCEPT ![t] = Null]
    /\ desync' = (desync \/ Writing # {})
    /\ detached' = detached \cup {t}
    /\ UNCHANGED <<providers, used, queue, mnos, epoch, conn, snap, cache, ing, faults,
                   raced, sighted, missed, arrived>>

(* refreshCache, lines 25-28 ... *)
ReadAliases(a) ==
    /\ adm[a].pc = "reload"
    /\ adm' = [adm EXCEPT ![a].pc = "swap", ![a].loaded = Table]
    /\ UNCHANGED <<db, cache, ing, bounds, observers>>

(* ... and 29-30.  One that nothing disturbed makes the cache whole again. *)
SwapCache(a) ==
    /\ adm[a].pc = "swap"
    /\ cache' = adm[a].loaded
    /\ desync' = (desync /\ (Writing # {a} \/ adm[a].loaded # Table))
    /\ adm' = [adm EXCEPT ![a] = IdleAdmin]
    /\ UNCHANGED <<db, ing, bounds, raced, detached, sighted, missed, arrived>>

(* What a resolution that stops here leaves unfilled. *)
Unfilled(a) ==
    IF adm[a].pc = "rows" /\ adm[a].op = "resolve"
    THEN {<<adm[a].text, k>> : k \in adm[a].todo} ELSE {}

(* A query throws: its provider or its MNO has gone, or by itself. *)
EditFails(a) ==
    LET refused ==
            \/ adm[a].pc \in {"upsert", "mark", "rows", "erase"} /\ adm[a].to \notin providers
            \/ adm[a].pc = "rows" /\ adm[a].todo # {} /\ adm[a].epoch # epoch
    IN /\ adm[a].pc # "idle"
       /\ refused \/ FaultAllowed
       /\ faults' = IF refused THEN faults ELSE faults + 1
       /\ adm' = [adm EXCEPT ![a] = IdleAdmin]
       /\ desync' = (desync \/ a \in Writing)
       /\ missed' = missed \cup Unfilled(a)
       /\ UNCHANGED <<db, cache, ing, requests, raced, detached, sighted, arrived>>

-----------------------------------------------------------------------------
(* resetIr21AndMnoDatabase keeps providers, aliases and variants              *)
(* (upload.service.ts:128-137).                                               *)
ResetDatabase ==
    /\ FaultAllowed
    /\ mnos # {}
    /\ mnos' = {} /\ epoch' = epoch + 1
    /\ conn' = [k \in Key |-> Null] /\ snap' = [k \in Key |-> NoCarriers]
    /\ sighted' = {} /\ missed' = {}
    /\ UNCHANGED <<providers, used, alias, queue, cache, ing, adm, bounds, desync,
                   raced, detached, arrived>>

(* The process dies; the next one loads its cache before it serves            *)
(* (onModuleInit, lines 20-22).                                               *)
Crash ==
    /\ FaultAllowed
    /\ \/ \E i \in Ingest : ing[i].pc # "idle"
       \/ \E a \in Admin : adm[a].pc # "idle"
    /\ faults' = faults + 1
    /\ cache' = Table /\ desync' = FALSE
    /\ ing' = [i \in Ingest |-> IdleIngest] /\ adm' = [a \in Admin |-> IdleAdmin]
    /\ missed' = missed \cup UNION {Unfilled(a) : a \in Admin}
    /\ UNCHANGED <<db, requests, raced, detached, sighted, arrived>>

-----------------------------------------------------------------------------
IngestStep(i) ==
    \/ \E m \in Mno, f \in File : StartFile(i, m, f)
    \/ StartDsxBackfill(i)
    \/ \E m \in Mno : NextGap(i, m)
    \/ FinishDsxBackfill(i)
    \/ MatchText(i)
    \/ FindVariant(i)
    \/ QueueVariant(i)
    \/ WriteRow(i)
    \/ SaveSnapshot(i)
    \/ IngestFails(i)

AdminStep(a) ==
    \/ \E t \in Text : StartResolve(a, t)
    \/ \E t \in Text, p \in Provider : StartAddAlias(a, t, p)
    \/ \E t \in Text, p \in Provider : StartRemap(a, t, p) \/ StartRemapToNew(a, t, p)
    \/ \E p \in Provider : PickTarget(a, p) \/ CreateTarget(a, p)
    \/ UpsertAlias(a)
    \/ SetCache(a)
    \/ MarkResolved(a)
    \/ ScanSnapshots(a)
    \/ \E k \in Key : RepointRow(a, k)
    \/ FinishRows(a)
    \/ \E p \in Provider, force \in BOOLEAN : StartDeleteProvider(a, p, force)
    \/ EraseProvider(a)
    \/ \E t \in Text : DeleteAlias(a, t)
    \/ ReadAliases(a)
    \/ SwapCache(a)
    \/ EditFails(a)

Next ==
    \/ \E i \in Ingest : IngestStep(i)
    \/ \E a \in Admin : AdminStep(a)
    \/ ResetDatabase
    \/ Crash

Spec == Init /\ [][Next]_vars

-----------------------------------------------------------------------------
(* Every table, the cache and every request in flight have the shape the code *)
(* gives them.                                                                *)
TypeOK ==
    /\ providers \subseteq used /\ used \subseteq Provider
    /\ alias \in [Text -> Holder] /\ queue \in [Text -> Variant \cup {Null}]
    /\ mnos \subseteq Mno /\ epoch \in Nat
    /\ conn \in [Key -> Holder] /\ snap \in [Key -> Carriers]
    /\ cache \in [Declared -> Holder]
    /\ ing \in [Ingest -> IngestRecord] /\ adm \in [Admin -> AdminRecord]
    /\ {requests, faults} \subseteq Nat
    /\ desync \in BOOLEAN /\ raced \subseteq Text \X Key /\ detached \subseteq Text
    /\ sighted \subseteq Text \X Key /\ missed \subseteq Text \X Key
    /\ arrived \subseteq Key

(* Between requests the cache is the alias table, through additions, remaps,  *)
(* deletions and restarts, unless the cache update of one of them was         *)
(* overtaken by another's write or lost to a failing query -- and then until   *)
(* a refresh runs undisturbed (provider-resolver.service.ts:24-44).           *)
CacheFollowsTable ==
    Writing = {} /\ ~desync => cache = Table

(* Nobody drops out of triage: every MNO that declared a carrier no alias could *)
(* place is named by the carrier's variant, and the variant is listed (PENDING) *)
(* or else the carrier has had its alias                                        *)
(* (provider-resolver.service.ts:93-115, provider-alias.service.ts:24-27 and    *)
(* 79-84), whatever requests overlap, fail or die.  Three things the code does   *)
(* not do are left out, as it does not try: the list is read and written back    *)
(* in two queries, so a sighting written while another file is between them may  *)
(* go; a variant stays RESOLVED when its alias is deleted again, though          *)
(* provider-alias.service.ts:302-303 says its carriers come back to triage; and  *)
(* the alias of a generic name is never looked at (provider-resolver 56), so a   *)
(* RESOLVED one keeps what is still sighted.                                     *)
TriageIsComplete ==
    \A x \in sighted \ raced :
        /\ x[2][1] \in TadigsOf(x[1])
        /\ \/ queue[x[1]].status = "PENDING"
           \/ alias[x[1]] # Null
           \/ x[1] \in detached

(* Resolving a variant fills the blank cell of every MNO behind it, except for *)
(* a sighting under another service than the last, one that came after the     *)
(* variant was read, one a crash or an error cut off, or one queued while      *)
(* another file held a read of the variant                                     *)
(* (provider-alias.service.ts:46-123).                                         *)
ResolvedSightingsAreFilled ==
    \A x \in sighted \ missed :
        /\ x \notin raced /\ ~Resolving(x[1])
        /\ queue[x[1]].status = "RESOLVED"
        => conn[x[2]] # Null

(* A deletion without force takes no connectivity row that was there when it   *)
(* counted: only what arrived since (provider-alias.service.ts:209-224).       *)
UnforcedDeleteKeepsOldRows ==
    [][\A a \in Admin : EraseProvider(a) /\ ~adm[a].force =>
            {k \in Key : conn[k] = adm[a].to} \subseteq arrived]_vars
=============================================================================
