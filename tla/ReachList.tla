------------------------------ MODULE ReachList ------------------------------
(***************************************************************************)
(* Reach lists and the queue of operators they could not place:            *)
(* apps/api/src/upload/upload.service.ts (ingestReachlistRowsRaw,          *)
(* recordNormalizationAudit, resolveProvider, the purge and the reset),    *)
(* reachlist-zip-batch.service.ts (the loop over an archive),              *)
(* reachlist-matrix.util.ts (buildMnoResolver),                            *)
(* apps/api/src/mno-normalization/mno-normalization.service.ts and, from   *)
(* apps/api/src/mno/mno.service.ts, setSecondaryTadigs.                    *)
(*                                                                         *)
(* One action per awaited query, or per step that follows one; what runs   *)
(* in a transaction is a step that reads and a step that commits.          *)
(*                                                                         *)
(* An MnoMaster row is named by its TADIG, which is unique and never       *)
(* updated; a provider by its canonical name.  A Name is an operator name  *)
(* with its country.                                                       *)
(***************************************************************************)
EXTENDS Naturals, FiniteSets, Sequences

CONSTANTS
    Code,      \* TADIG codes
    Pool,      \* those resolveOrSynthesizeTadig may mint
    Name,      \* (country, operator name) pairs
    Similar,   \* pairs of them isConfidentSubstringMatch accepts
    Provider,  \* carriers
    Seeded,    \* those the seed creates
    Service,   \* services
    File,      \* file names
    Row,       \* what a row of a file may say
    Rosters,   \* operators IR.21 has loaded by then
    Ir21,      \* (code, name) pairs IR.21 may yet register or rename
    Selection, \* entries an administrator may tick together
    Upload,    \* uploads that can be in flight at once
    Admin,     \* admin requests that can be in flight at once
    Null,      \* an absent row or value
    MaxInFlight, MaxUploads, MaxRows, MaxFiles, MaxEdits, MaxFaults  \* bounds

ReachKey == Code \X Provider \X Service

(* (providerId, rawTadigCode, rawOperatorName) of an audit entry.             *)
AuditKey ==
    UNION {{<<r.carriers[i], c, r.name>> : i \in DOMAIN r.carriers,
                c \in IF r.code = Null THEN Code \cup {Null} ELSE {r.code}} : r \in Row}

ASSUME ConstantsAssumption ==
    /\ Pool \subseteq Code /\ Seeded \subseteq Provider
    /\ Similar \subseteq Name \X Name
    /\ Null \notin Code \cup Name \cup Provider \cup File
    /\ Row \subseteq [code : Code \cup {Null}, name : Name,
                      carriers : Seq(Provider), services : SUBSET Service]
    /\ \A r \in Row : r.carriers # <<>> /\ r.services # {}
    /\ Selection \subseteq SUBSET AuditKey
    /\ Ir21 \subseteq (Code \ Pool) \X Name
    /\ Rosters \subseteq [Code -> Name \cup {Null}]
    /\ {MaxInFlight, MaxUploads, MaxRows, MaxFiles, MaxEdits, MaxFaults} \subseteq Nat

VARIABLES
    (* The database. *)
    mnos,       \* operatorName of each MnoMaster row
    secondary,  \* and its secondaryTadigs
    epoch,      \* full resets so far: an MnoMaster id lives in one epoch
    providers,  \* ProviderMaster rows
    alias,      \* providers whose own name is in the alias directory
    reach,      \* ProviderReachlist.sourceFile per (MNO, provider, service)
    audit,      \* MnoNormalizationAudit rows
    erased,     \* deletions of some of them so far: an id lives between two
    (* The process. *)
    up,         \* uploads in flight
    adm,        \* admin requests in flight
    (* Bounds. *)
    uploads, lines, edits, faults,
    (* Observers, read by properties only. *)
    alone,      \* the upload nothing else has run beside
    declared,   \* the rows each file has loaded since it was last replaced
    taken,      \* rows that have passed from one file to another
    wiped,      \* rows a replacement or a purge deleted and nobody restored
    overtaken   \* entries that changed between a resolution's read and its mark

db == <<mnos, secondary, epoch, providers, alias, reach, audit, erased>>
bounds == <<uploads, lines, edits, faults>>
observers == <<alone, declared, taken, wiped, overtaken>>
vars == <<db, up, adm, bounds, observers>>

(* One bound for the resets, the crashes and the queries that throw by        *)
(* themselves.                                                                *)
FaultAllowed == faults + epoch < MaxFaults

Status == {"PENDING_REVIEW", "ALIAS_MATCHED", "MANUALLY_OVERRIDDEN", "IGNORED"}

(* affectedFiles in the order they came: the last one names the rows that a   *)
(* resolution creates.                                                        *)
AuditRow ==
    [id : Nat, status : Status, services : SUBSET Service, files : Seq(File),
     mno : Code \cup {Null}]

ASSUME NoEntryAssumption == Null \notin AuditRow

Roster == [Code -> Name \cup {Null}]
NoRoster == [c \in Code |-> Null]

UploadPhase ==
    {"idle", "batch", "delete", "roster", "rows", "name", "create", "alias",
     "find", "audit", "upsert"}

(* The frame of ingestReachlistRowsRaw and, for an archive, of ingestZip.     *)
UploadRecord ==
    [pc : UploadPhase, kind : {"sheet", "matrix", "zip"}, replace : BOOLEAN,
     file : File \cup {Null}, names : SUBSET Provider,
     batch : Roster, roster : Roster, rosterAt : Nat,
     rows : SUBSET Row, files : Nat,
     row : Row \cup {Null}, code : Code \cup {Null}, mno : Code \cup {Null},
     at : Nat, exact : BOOLEAN, carriers : Seq(Provider), services : SUBSET Service,
     found : AuditRow \cup {Null},
     seen : SUBSET ReachKey, loaded : Nat]

IdleUpload ==
    [pc |-> "idle", kind |-> "sheet", replace |-> FALSE, file |-> Null,
     names |-> {}, batch |-> NoRoster, roster |-> NoRoster, rosterAt |-> 0,
     rows |-> {}, files |-> 0, row |-> Null, code |-> Null, mno |-> Null,
     at |-> 0, exact |-> FALSE, carriers |-> <<>>, services |-> {},
     found |-> Null, seen |-> {}, loaded |-> 0]

(* The frame of resolve, of a transaction, or of setSecondaryTadigs.          *)
AdminRecord ==
    [pc : {"idle", "map", "commit", "secondary"},
     op : {"none", "resolve", "delete", "create", "group", "map", "accept",
           "ignore", "secondary"},
     saw : UNION {[K -> AuditRow] : K \in SUBSET AuditKey},
     to : Code \cup {Null}, at : Nat, todo : SUBSET Service, codes : SUBSET Code]

NothingSeen == [k \in {} |-> Null]

IdleAdmin ==
    [pc |-> "idle", op |-> "none", saw |-> NothingSeen, to |-> Null, at |-> 0,
     todo |-> {}, codes |-> {}]

Registered == {c \in Code : mnos[c] # Null}

Init ==
    /\ mnos \in Rosters
    /\ secondary = [c \in Code |-> {}] /\ epoch = 0
    /\ providers = Seeded /\ alias = {}
    /\ reach = [k \in ReachKey |-> Null]
    /\ audit = [k \in AuditKey |-> Null] /\ erased = 0
    /\ up = [r \in Upload |-> IdleUpload] /\ adm = [a \in Admin |-> IdleAdmin]
    /\ uploads = 0 /\ lines = 0 /\ edits = 0 /\ faults = 0
    /\ alone = {} /\ declared = [f \in File |-> {}] 
    /\ taken = {} /\ wiped = {} /\ overtaken = {}

-----------------------------------------------------------------------------
(* What the code computes.                                                    *)

(* buildMnoResolver over one country: a unique exact name, else a unique      *)
(* similar one, else nothing -- "not-found" and "ambiguous" end alike.        *)
ByName(roster, n) ==
    LET exact == {c \in Code : roster[c] = n}
        fuzzy == {c \in Code : <<n, roster[c]>> \in Similar}
        best == IF exact # {} THEN exact ELSE fuzzy
    IN IF Cardinality(best) = 1 THEN CHOOSE c \in best : TRUE ELSE Null

(* findFirst on tadigCode or secondaryTadigs, without an orderBy.             *)
Holders(c) == {m \in Registered : m = c \/ c \in secondary[m]}

(* The code a row is ingested under: its own, else what the roster at hand    *)
(* says of its name (matrix: lines 332-343, archive: 293-306).                *)
CodeOf(r, row) ==
    IF row.code # Null THEN row.code
    ELSE CASE up[r].kind = "sheet"  -> Null
           [] up[r].kind = "matrix" -> ByName(up[r].roster, row.name)
           [] up[r].kind = "zip"    -> ByName(up[r].batch, row.name)

(* resolveProvider finds it without creating it, lines 1634-1644. *)
Known(u, p) == p \in u.names \cup alias

(* The carrier of the row it is at. *)
Carrier(r) == Head(up[r].carriers)

AuditOf(r) == <<Carrier(r), up[r].code, up[r].row.name>>

SourceOf(row) == row.files[Len(row.files)]

Extend(s, x) == IF \E i \in DOMAIN s : s[i] = x THEN s ELSE Append(s, x)

Busy == {r \in Upload : up[r].pc # "idle"} \cup {a \in Admin : adm[a].pc # "idle"}

(* An upsert of ProviderReachlist.sourceFile. *)
PutRow(k, f) ==
    /\ reach' = [reach EXCEPT ![k] = f]
    /\ wiped' = wiped \ {k}
    /\ taken' = IF reach[k] \in {Null, f} THEN taken ELSE taken \cup {k}

-----------------------------------------------------------------------------
(* A file is opened, lines 239-240: the providers as they are now.            *)
Opened(u, f) ==
    [u EXCEPT !.pc = IF u.replace THEN "delete" ELSE "roster",
              !.file = f, !.files = u.files + 1, !.names = providers]

Start(r, u) ==
    /\ up[r].pc = "idle"
    /\ uploads < MaxUploads /\ Cardinality(Busy) < MaxInFlight
    /\ uploads' = uploads + 1
    /\ alone' = IF Busy = {} THEN {r} ELSE {}
    /\ up' = [up EXCEPT ![r] = u]
    /\ UNCHANGED <<db, adm, lines, edits, faults, declared, taken, wiped, overtaken>>

(* uploadReachlist.  What the rows of a file say is chosen when the code gets *)
(* to them.                                                                   *)
StartUpload(r, kind, replace, f) ==
    Start(r, Opened([IdleUpload EXCEPT !.kind = kind, !.replace = replace], f))

(* ingestZip, lines 86-95: the operators as they are now ...                  *)
StartArchive(r, replace) ==
    Start(r, [IdleUpload EXCEPT !.pc = "batch", !.kind = "zip", !.replace = replace,
                                !.batch = mnos])

(* ... and then file by file.                                                 *)
NextFile(r, f) ==
    /\ up[r].pc = "batch"
    /\ up[r].files < MaxFiles
    /\ up' = [up EXCEPT ![r] = Opened(up[r], f)]
    /\ UNCHANGED <<db, adm, bounds, observers>>

FileRowsAll(f) == {k \in ReachKey : reach[k] # Null}

FileRows(f) == {k \in ReachKey : reach[k] = f}

(* Lines 247-250.                                                             *)
DeleteOldRows(r) ==
    LET f == up[r].file
    IN /\ up[r].pc = "delete"
       /\ reach' = [k \in ReachKey |-> IF k \in FileRows(f) THEN Null ELSE reach[k]]
       /\ declared' = [declared EXCEPT ![f] = {}]
       /\ wiped' = wiped \cup FileRows(f)
       /\ up' = [up EXCEPT ![r].pc = "roster"]
       /\ UNCHANGED <<mnos, secondary, epoch, providers, alias, audit, erased, adm,
                      bounds, alone, taken, overtaken>>

(* Lines 269-272.                                                             *)
ReadRoster(r) ==
    /\ up[r].pc = "roster"
    /\ up' = [up EXCEPT ![r].pc = "rows", ![r].roster = mnos, ![r].rosterAt = epoch]
    /\ UNCHANGED <<db, adm, bounds, observers>>

(* What comes for a carrier: it is created if nothing knows it, then the row  *)
(* is queued or upserted.  An exact code needs no entry, lines 540-553.       *)
AtCarrier(u) ==
    [u EXCEPT !.services = u.row.services,
              !.pc = CASE ~Known(u, Head(u.carriers)) -> "create"
                       [] Known(u, Head(u.carriers)) /\ u.exact -> "upsert"
                       [] OTHER -> "find"]

(* The row's next carrier, or the next row.                                   *)
NextCarrier(u) ==
    IF Len(u.carriers) > 1
    THEN AtCarrier([u EXCEPT !.carriers = Tail(@), !.found = Null])
    ELSE [u EXCEPT !.pc = "rows", !.row = Null, !.code = Null, !.mno = Null, !.at = 0,
                   !.exact = FALSE, !.carriers = <<>>, !.services = {}, !.found = Null]

(* Where the row's code leads: lines 489-491.                                 *)
Located(u) ==
    IF u.code = Null THEN {AtCarrier(u)}
    ELSE IF Holders(u.code) = {} THEN {[u EXCEPT !.pc = "name"]}
    ELSE {AtCarrier([u EXCEPT !.mno = m, !.at = epoch, !.exact = TRUE]) :
              m \in Holders(u.code)}

(* The carriers of a matrix and of an archive are known ones, and an archive's *)
(* file has only one.                                                          *)
MayName(u, row) ==
    /\ u.kind # "sheet" => \A i \in DOMAIN row.carriers : row.carriers[i] \in u.names
    /\ u.kind = "zip" => /\ Len(row.carriers) = 1
                         /\ \A other \in u.rows : other.carriers = row.carriers

(* A matrix queues the rows without a code its roster cannot place while it    *)
(* reads them, before it comes to the others (lines 345-396).                  *)
InOrder(r, row) ==
    up[r].kind = "matrix" /\ CodeOf(r, row) = Null =>
        \A before \in up[r].rows : CodeOf(r, before) = Null

(* The next row.  An archive keeps the rows its batch roster can place and     *)
(* drops the others with a line in its report (lines 293-306 there).           *)
TakeRow(r, row) ==
    /\ up[r].pc = "rows"
    /\ lines < MaxRows
    /\ row \notin up[r].rows
    /\ up[r].kind # "matrix" => CodeOf(r, row) # Null
    /\ MayName(up[r], row) /\ InOrder(r, row)
    /\ lines' = lines + 1
    /\ \E u \in Located([up[r] EXCEPT !.row = row, !.rows = @ \cup {row},
                           !.code = CodeOf(r, row), !.carriers = row.carriers]) :
          up' = [up EXCEPT ![r] = u]
    /\ UNCHANGED <<db, adm, uploads, edits, faults, observers>>

(* Lines 502-508: the roster's answer, looked up again by its id.             *)
FindMnoByName(r) ==
    LET m == ByName(up[r].roster, up[r].row.name)
    IN /\ up[r].pc = "name"
       /\ up' = [up EXCEPT ![r] = AtCarrier([up[r] EXCEPT
                   !.mno = IF up[r].rosterAt = epoch THEN m ELSE Null,
                   !.at = epoch])]
       /\ UNCHANGED <<db, adm, bounds, observers>>

(* resolveProvider, lines 1646-1649: a name the table keeps unique ...        *)
CreateProvider(r) ==
    /\ up[r].pc = "create"
    /\ Carrier(r) \notin providers
    /\ providers' = providers \cup {Carrier(r)}
    /\ up' = [up EXCEPT ![r].pc = "alias", ![r].names = @ \cup {Carrier(r)}]
    /\ UNCHANGED <<mnos, secondary, epoch, alias, reach, audit, erased, adm, bounds,
                   observers>>

(* ... and then its alias, lines 1650-1652.                                   *)
RegisterAlias(r) ==
    /\ up[r].pc = "alias"
    /\ alias' = alias \cup {Carrier(r)}
    /\ up' = [up EXCEPT ![r] = AtCarrier(up[r])]
    /\ UNCHANGED <<mnos, secondary, epoch, providers, reach, audit, erased, adm, bounds,
                   observers>>

AfterFindIgnoringStatus(entry) == "audit"

(* recordNormalizationAudit, line 624: an entry an administrator has resolved *)
(* is left alone.                                                             *)
AfterFind(entry) ==
    IF entry # Null /\ entry.status = "MANUALLY_OVERRIDDEN" THEN "skip" ELSE "audit"

AfterAudit(u) == IF u.mno = Null THEN NextCarrier(u) ELSE [u EXCEPT !.pc = "upsert"]

(* Lines 620-622.                                                             *)
FindAudit(r) ==
    LET entry == audit[AuditOf(r)]
    IN /\ up[r].pc = "find"
       /\ up' = [up EXCEPT ![r] =
            IF AfterFind(entry) = "skip" THEN AfterAudit(up[r])
            ELSE [up[r] EXCEPT !.pc = "audit", !.found = entry]]
       /\ UNCHANGED <<db, adm, bounds, observers>>

HasOperatorAlways(u) == TRUE

(* The foreign keys to MnoMaster: an id does not survive a reset. *)
HasOperator(u) == u.mno # Null => u.at = epoch

Alive(k, row) == audit[k] # Null /\ audit[k].id = row.id

MayRecord(r) ==
    LET k == AuditOf(r)
    IN IF up[r].found = Null THEN audit[k] = Null ELSE Alive(k, up[r].found)

RecordedLatest(r) ==
    LET was == up[r].found
        status == IF up[r].mno = Null THEN "PENDING_REVIEW" ELSE "ALIAS_MATCHED"
    IN [id |-> IF was = Null THEN erased ELSE was.id, status |-> status,
        services |-> up[r].row.services, files |-> <<up[r].file>>, mno |-> up[r].mno]

(* Lines 625-649: what was read, extended and written back.                   *)
Recorded(r) ==
    LET was == up[r].found
        status == IF up[r].mno = Null THEN "PENDING_REVIEW" ELSE "ALIAS_MATCHED"
    IN IF was = Null
       THEN [id |-> erased, status |-> status, services |-> up[r].row.services,
             files |-> <<up[r].file>>, mno |-> up[r].mno]
       ELSE [was EXCEPT !.status = status, !.services = @ \cup up[r].row.services,
                        !.files = Extend(@, up[r].file),
                        !.mno = IF up[r].mno = Null THEN @ ELSE up[r].mno]

(* Resolutions that have read an entry and not marked it yet.                 *)
Resolving(k) == \E a \in Admin : adm[a].pc # "idle" /\ k \in DOMAIN adm[a].saw

WriteAudit(r) ==
    LET k == AuditOf(r)
    IN /\ up[r].pc = "audit"
       /\ MayRecord(r)
       /\ HasOperator(up[r])
       /\ audit' = [audit EXCEPT ![k] = Recorded(r)]
       /\ overtaken' = IF Resolving(k) THEN overtaken \cup {k} ELSE overtaken
       /\ up' = [up EXCEPT ![r] = AfterAudit(up[r])]
       /\ UNCHANGED <<mnos, secondary, epoch, providers, alias, reach, erased, adm,
                      bounds, alone, declared, taken, wiped>>

RowKeyByCode(r, s) == <<up[r].code, Carrier(r), s>>

(* Line 561: the operator, not the code the file quotes.                      *)
DedupeKey(r, s) == <<up[r].mno, Carrier(r), s>>

NextService(u, s) ==
    LET rest == u.services \ {s}
    IN IF rest = {} THEN NextCarrier(u) ELSE [u EXCEPT !.services = rest]

(* Lines 556-586.                                                             *)
UpsertRow(r, s) ==
    LET k == <<up[r].mno, Carrier(r), s>>
        d == DedupeKey(r, s)
    IN /\ up[r].pc = "upsert"
       /\ s \in up[r].services
       /\ \/ /\ d \in up[r].seen
             /\ up' = [up EXCEPT ![r] = NextService(up[r], s)]
             /\ UNCHANGED <<reach, declared, taken, wiped>>
          \/ /\ d \notin up[r].seen
             /\ HasOperator(up[r])
             /\ PutRow(k, up[r].file)
             /\ declared' = [declared EXCEPT ![up[r].file] = @ \cup {k}]
             /\ up' = [up EXCEPT ![r] = NextService(
                        [up[r] EXCEPT !.seen = @ \cup {d}, !.loaded = @ + 1], s)]
       /\ UNCHANGED <<mnos, secondary, epoch, providers, alias, audit, erased, adm,
                      bounds, alone, overtaken>>

(* An archive goes on with its next file. *)
AfterFile(u) ==
    IF u.kind # "zip" THEN IdleUpload
    ELSE [IdleUpload EXCEPT !.pc = "batch", !.kind = "zip", !.replace = u.replace,
             !.batch = u.batch, !.files = u.files]

(* The file is done.  An archive hands no file on without a row (308-310).    *)
FinishFile(r) ==
    /\ up[r].pc = "rows"
    /\ up[r].kind = "zip" => up[r].rows # {}
    /\ up' = [up EXCEPT ![r] = AfterFile(@)]
    /\ alone' = IF up[r].kind = "zip" THEN alone ELSE alone \ {r}
    /\ UNCHANGED <<db, adm, bounds, declared, taken, wiped, overtaken>>

FinishArchive(r) ==
    /\ up[r].pc = "batch"
    /\ up[r].kind = "zip" /\ up[r].files > 0
    /\ up' = [up EXCEPT ![r] = IdleUpload]
    /\ alone' = alone \ {r}
    /\ UNCHANGED <<db, adm, bounds, declared, taken, wiped, overtaken>>

(* A query throws: on a row that has gone, on a unique key another request    *)
(* took first, or by itself.  A direct upload ends there, with what it has    *)
(* deleted and loaded; an archive goes on (reachlist-zip-batch:121-133).      *)
UploadFails(r) ==
    LET u == up[r]
        refused ==
            \/ u.pc = "create" /\ Carrier(r) \in providers
            \/ u.pc = "audit" /\ (~MayRecord(r) \/ ~HasOperator(u))
            \/ u.pc = "upsert" /\ ~HasOperator(u)
                 /\ \E s \in u.services : DedupeKey(r, s) \notin u.seen
    IN /\ u.pc \notin {"idle", "batch"}
       /\ refused \/ FaultAllowed
       /\ faults' = IF refused THEN faults ELSE faults + 1
       /\ up' = [up EXCEPT ![r] = AfterFile(u)]
       /\ alone' = alone \ {r}
       /\ UNCHANGED <<db, adm, uploads, lines, edits, declared, taken, wiped, overtaken>>

-----------------------------------------------------------------------------
(* MnoNormalizationService.                                                   *)

StartEdit(a, record) ==
    /\ adm[a].pc = "idle"
    /\ edits < MaxEdits /\ Cardinality(Busy) < MaxInFlight
    /\ edits' = edits + 1
    /\ adm' = [adm EXCEPT ![a] = record]
    /\ alone' = {}

Seen(K) == [k \in K |-> audit[k]]

(* resolve, lines 82-93: the entry and the operator to map it to.             *)
StartResolve(a, k, m) ==
    /\ audit[k] # Null /\ audit[k].status # "MANUALLY_OVERRIDDEN"
    /\ m \in Registered
    /\ StartEdit(a, [IdleAdmin EXCEPT !.pc = "map", !.op = "resolve", !.saw = Seen({k}),
                        !.to = m, !.at = epoch, !.todo = audit[k].services])
    /\ UNCHANGED <<db, up, uploads, lines, faults, declared, taken, wiped, overtaken>>

TheKey(a) == CHOOSE k \in DOMAIN adm[a].saw : TRUE

(* Lines 95-107, one service at a time.                                       *)
MapService(a, s) ==
    LET k == TheKey(a)
    IN /\ adm[a].pc = "map"
       /\ s \in adm[a].todo
       /\ adm[a].at = epoch
       /\ PutRow(<<adm[a].to, k[1], s>>, SourceOf(adm[a].saw[k]))
       /\ adm' = [adm EXCEPT ![a].todo = @ \ {s}]
       /\ UNCHANGED <<mnos, secondary, epoch, providers, alias, audit, erased, up,
                      bounds, alone, declared, overtaken>>

(* Every service is mapped before the entry is marked. *)
MayMarkEarly(a) == TRUE

MayMark(a) == adm[a].todo = {}

Overridden(row, m) == [row EXCEPT !.status = "MANUALLY_OVERRIDDEN", !.mno = m]

(* Lines 109-116, by the entry's id.                                          *)
MarkOverridden(a) ==
    LET k == TheKey(a)
    IN /\ adm[a].pc = "map" /\ MayMark(a)
       /\ Alive(k, adm[a].saw[k]) /\ adm[a].at = epoch
       /\ audit' = [audit EXCEPT ![k] = Overridden(@, adm[a].to)]
       /\ adm' = [adm EXCEPT ![a] = IdleAdmin]
       /\ UNCHANGED <<mnos, secondary, epoch, providers, alias, reach, erased, up,
                      bounds, observers>>

(* createFromAudits ("group") and the five actions of bulkResolve read their  *)
(* entries first ...                                                          *)
StartBulk(a, op, K, m) ==
    /\ K # {} /\ \A k \in K : audit[k] # Null
    /\ op = "map" <=> m # Null
    /\ op = "map" => m \in Registered
    /\ op = "group" => \A k \in K : audit[k].status # "MANUALLY_OVERRIDDEN"
    /\ op = "group" => Cardinality(K) > 1  \* one entry is as well a "create"
    /\ StartEdit(a, [IdleAdmin EXCEPT !.pc = "commit", !.op = op, !.saw = Seen(K),
                        !.to = m, !.at = epoch])
    /\ UNCHANGED <<db, up, uploads, lines, faults, declared, taken, wiped, overtaken>>

Open(a) == {k \in DOMAIN adm[a].saw : adm[a].saw[k].status # "MANUALLY_OVERRIDDEN"}

(* Which of them a committed mapping applies to, and the operator of each.    *)
Mapped(a) ==
    CASE adm[a].op = "map"    -> [k \in Open(a) |-> adm[a].to]
      [] adm[a].op = "accept" ->
            [k \in {j \in Open(a) : adm[a].saw[j].status = "ALIAS_MATCHED"
                                    /\ adm[a].saw[j].mno # Null} |-> adm[a].saw[k].mno]
      [] OTHER -> [k \in {} |-> Null]

(* What applyMapping and createOneMnoFromGroup write for them, to: each       *)
(* entry's services under the operator, lines 185-201 and 249-268.            *)
WriteMappings(a, to) ==
    LET rowsOf(k) == {to[k]} \X {k[1]} \X adm[a].saw[k].services
        rows == UNION {rowsOf(k) : k \in DOMAIN to}
        sources(x) == {SourceOf(adm[a].saw[k]) : k \in {j \in DOMAIN to : x \in rowsOf(j)}}
    IN /\ \A k \in DOMAIN to : Alive(k, adm[a].saw[k])
       /\ \E source \in [rows -> File] :
            /\ \A x \in rows : source[x] \in sources(x)
            /\ reach' = [x \in ReachKey |-> IF x \in rows THEN source[x] ELSE reach[x]]
            /\ taken' = taken \cup {x \in rows : reach[x] \notin {Null, source[x]}}
       /\ wiped' = wiped \ rows
       /\ audit' = [k \in AuditKey |->
            IF k \in DOMAIN to THEN Overridden(audit[k], to[k]) ELSE audit[k]]
       /\ adm' = [adm EXCEPT ![a] = IdleAdmin]

(* ... and commit.  MAP_TO_CANONICAL and ACCEPT_SUGGESTIONS.                  *)
CommitMapping(a) ==
    /\ adm[a].pc = "commit" /\ adm[a].op \in {"map", "accept"}
    /\ adm[a].at = epoch
    /\ WriteMappings(a, Mapped(a))
    /\ UNCHANGED <<mnos, secondary, epoch, providers, alias, erased, up, bounds,
                   alone, declared, overtaken>>

(* One new operator per raw name and code, or a single one for a group.       *)
GroupsOf(a) ==
    IF adm[a].op = "group" THEN {DOMAIN adm[a].saw}
    ELSE {{j \in Open(a) : j[2] = k[2] /\ j[3] = k[3]} : k \in Open(a)}

(* resolveOrSynthesizeTadig, lines 330-354: the entry's own code if nobody    *)
(* has it as a primary one, else one of the pool nobody has.                  *)
Mintable(held, raw) ==
    IF raw # Null /\ raw \notin held THEN {raw} ELSE Pool \ held

(* The groups come one after the other, so a later one sees the codes of an   *)
(* earlier; a group is named after any of its entries.                        *)
NewCodes(a) ==
    {new \in [GroupsOf(a) -> [code : Code, of : DOMAIN adm[a].saw]] :
        \A g \in GroupsOf(a) :
            /\ new[g].of \in g
            /\ \A h \in GroupsOf(a) \ {g} : new[h].code # new[g].code
            /\ \E earlier \in SUBSET (GroupsOf(a) \ {g}) :
                  new[g].code \in Mintable(
                      Registered \cup {new[h].code : h \in earlier}, new[g].of[2])}

(* CREATE_NEW_MNO and createFromAudits, lines 163-210 and 278-302.            *)
CommitNewMnos(a) ==
    /\ adm[a].pc = "commit" /\ adm[a].op \in {"create", "group"}
    /\ \E new \in NewCodes(a) :
          LET group(c) == {g \in GroupsOf(a) : new[g].code = c}
              nameOf(c) == new[CHOOSE g \in group(c) : TRUE].of[3]
              codeOf(k) == new[CHOOSE g \in GroupsOf(a) : k \in g].code
          IN /\ mnos' = [c \in Code |-> IF group(c) = {} THEN mnos[c] ELSE nameOf(c)]
             /\ WriteMappings(a, [k \in UNION GroupsOf(a) |-> codeOf(k)])
    /\ UNCHANGED <<secondary, epoch, providers, alias, erased, up, bounds, alone,
                   declared, overtaken>>

(* IGNORE, lines 321-328.                                                     *)
CommitIgnore(a) ==
    /\ adm[a].pc = "commit" /\ adm[a].op = "ignore"
    /\ \A k \in Open(a) : Alive(k, adm[a].saw[k])
    /\ audit' = [k \in AuditKey |->
            IF k \in Open(a) THEN [audit[k] EXCEPT !.status = "IGNORED"] ELSE audit[k]]
    /\ adm' = [adm EXCEPT ![a] = IdleAdmin]
    /\ UNCHANGED <<mnos, secondary, epoch, providers, alias, reach, erased, up, bounds,
                   observers>>

(* DELETE, lines 236-239, takes whatever is still there.                      *)
CommitDelete(a) ==
    /\ adm[a].pc = "commit" /\ adm[a].op = "delete"
    /\ audit' = [k \in AuditKey |->
            IF k \in DOMAIN adm[a].saw /\ Alive(k, adm[a].saw[k]) THEN Null ELSE audit[k]]
    /\ erased' = erased + 1
    /\ adm' = [adm EXCEPT ![a] = IdleAdmin]
    /\ UNCHANGED <<mnos, secondary, epoch, providers, alias, reach, up, bounds,
                   observers>>

(* setSecondaryTadigs, lines 611-628: the check ...                           *)
StartSecondary(a, m, C) ==
    /\ m \in Registered /\ C \cap Registered = {} /\ C # secondary[m]
    /\ StartEdit(a, [IdleAdmin EXCEPT !.pc = "secondary", !.op = "secondary", !.to = m,
                        !.at = epoch, !.codes = C])
    /\ UNCHANGED <<db, up, uploads, lines, faults, declared, taken, wiped, overtaken>>

(* ... and the update, line 630.                                              *)
WriteSecondary(a) ==
    /\ adm[a].pc = "secondary"
    /\ adm[a].at = epoch
    /\ secondary' = [secondary EXCEPT ![adm[a].to] = adm[a].codes]
    /\ adm' = [adm EXCEPT ![a] = IdleAdmin]
    /\ UNCHANGED <<mnos, epoch, providers, alias, reach, audit, erased, up, bounds,
                   observers>>

(* A query throws, or no placeholder code is left: a transaction changes      *)
(* nothing, a resolve keeps what it has mapped.                               *)
EditFails(a) ==
    LET f == adm[a]
        gone == \E k \in Open(a) : ~Alive(k, f.saw[k])
        refused == \/ f.pc = "map" /\ (f.at # epoch \/ (MayMark(a) /\ gone))
                   \/ f.pc = "commit" /\ f.op # "delete" /\ (gone \/ f.at # epoch)
                   \/ f.pc = "commit" /\ f.op \in {"create", "group"} /\ NewCodes(a) = {}
                   \/ f.pc = "secondary" /\ f.at # epoch
    IN /\ f.pc # "idle"
       /\ refused \/ FaultAllowed
       /\ faults' = IF refused THEN faults ELSE faults + 1
       /\ adm' = [adm EXCEPT ![a] = IdleAdmin]
       /\ UNCHANGED <<db, up, uploads, lines, edits, observers>>

-----------------------------------------------------------------------------
(* IR.21 ingestion registers an operator, or renames one (Ir21Ingest).        *)
LoadIr21(m, n) ==
    /\ mnos[m] # n
    /\ edits < MaxEdits
    /\ edits' = edits + 1
    /\ mnos' = [mnos EXCEPT ![m] = n]
    /\ alone' = {}
    /\ UNCHANGED <<secondary, epoch, providers, alias, reach, audit, erased, up, adm,
                   uploads, lines, faults, declared, taken, wiped, overtaken>>

(* purgeAllReachlistData, lines 99-111.                                       *)
PurgeReachlist ==
    /\ edits < MaxEdits
    /\ edits' = edits + 1
    /\ \E k \in ReachKey : reach[k] # Null
    /\ reach' = [k \in ReachKey |-> Null]
    /\ alone' = {} /\ declared' = [f \in File |-> {}]
    /\ wiped' = wiped \cup {k \in ReachKey : reach[k] # Null}
    /\ UNCHANGED <<mnos, secondary, epoch, providers, alias, audit, erased, up, adm,
                   uploads, lines, faults, taken, overtaken>>

(* resetIr21AndMnoDatabase, lines 128-137: everything but the providers.  One  *)
(* takes the place of an upload and of a fault in the bounds.                  *)
ResetDatabase ==
    /\ FaultAllowed /\ uploads < MaxUploads
    /\ uploads' = uploads + 1
    /\ Registered # {}
    /\ mnos' = NoRoster /\ secondary' = [c \in Code |-> {}] /\ epoch' = epoch + 1
    /\ reach' = [k \in ReachKey |-> Null]
    /\ audit' = [k \in AuditKey |-> Null] /\ erased' = erased + 1
    /\ alone' = {} /\ declared' = [f \in File |-> {}]
    /\ taken' = {} /\ wiped' = {} /\ overtaken' = {}
    /\ UNCHANGED <<providers, alias, up, adm, lines, edits, faults>>

(* The process dies with everything in flight. *)
Crash ==
    /\ FaultAllowed
    /\ Busy # {}
    /\ faults' = faults + 1
    /\ up' = [r \in Upload |-> IdleUpload] /\ adm' = [a \in Admin |-> IdleAdmin]
    /\ alone' = {}
    /\ UNCHANGED <<db, uploads, lines, edits, declared, taken, wiped, overtaken>>

-----------------------------------------------------------------------------
UploadStep(r) ==
    \/ \E kind \in {"sheet", "matrix"}, replace \in BOOLEAN, f \in File :
          StartUpload(r, kind, replace, f)
    \/ \E replace \in BOOLEAN : StartArchive(r, replace)
    \/ \E f \in File : NextFile(r, f)
    \/ DeleteOldRows(r)
    \/ ReadRoster(r)
    \/ \E row \in Row : TakeRow(r, row)
    \/ FindMnoByName(r)
    \/ CreateProvider(r)
    \/ RegisterAlias(r)
    \/ FindAudit(r)
    \/ WriteAudit(r)
    \/ \E s \in Service : UpsertRow(r, s)
    \/ FinishFile(r)
    \/ FinishArchive(r)
    \/ UploadFails(r)

AdminStep(a) ==
    \/ \E k \in AuditKey, m \in Code : StartResolve(a, k, m)
    \/ \E s \in Service : MapService(a, s)
    \/ MarkOverridden(a)
    \/ \E op \in {"delete", "create", "group", "map", "accept", "ignore"},
          K \in Selection, m \in Code \cup {Null} : StartBulk(a, op, K, m)
    \/ CommitMapping(a)
    \/ CommitNewMnos(a)
    \/ CommitIgnore(a)
    \/ CommitDelete(a)
    \/ \E m \in Code, C \in SUBSET (Code \ Pool) : StartSecondary(a, m, C)
    \/ WriteSecondary(a)
    \/ EditFails(a)

Next ==
    \/ \E r \in Upload : UploadStep(r)
    \/ \E a \in Admin : AdminStep(a)
    \/ \E x \in Ir21 : LoadIr21(x[1], x[2])
    \/ PurgeReachlist
    \/ ResetDatabase
    \/ Crash

Spec == Init /\ [][Next]_vars

-----------------------------------------------------------------------------
(* Every table and every request in flight have the shape the code gives      *)
(* them.                                                                      *)
TypeOK ==
    /\ mnos \in Roster /\ secondary \in [Code -> SUBSET Code] /\ epoch \in Nat
    /\ Seeded \subseteq providers /\ alias \subseteq providers /\ providers \subseteq Provider
    /\ reach \in [ReachKey -> File \cup {Null}]
    /\ \A k \in ReachKey : reach[k] # Null => mnos[k[1]] # Null /\ k[2] \in providers
    /\ audit \in [AuditKey -> AuditRow \cup {Null}] /\ erased \in Nat
    /\ up \in [Upload -> UploadRecord]
    /\ \A a \in Admin : DOMAIN adm[a].saw \subseteq AuditKey
    /\ {uploads, lines, edits, faults} \subseteq Nat

CarriersOf(row) == {row.carriers[i] : i \in DOMAIN row.carriers}

(* Where the operators of today put a row.                                    *)
Placements(r, row) ==
    LET c == CodeOf(r, row)
    IN IF c = Null THEN {}
       ELSE IF Holders(c) # {} THEN Holders(c)
       ELSE {ByName(mnos, row.name)} \ {Null}

(* Once a replacement that nothing ran beside is through a file, the rows      *)
(* attributed to that file are those its content stands for, no ghost of an    *)
(* earlier version and none left under another file's name, and recordsLoaded  *)
(* is their number (upload.service.ts:155-172, 247-250, 556-586).              *)
ReplaceIsExact ==
    [][\A r \in alone : FinishFile(r) /\ up[r].replace =>
        LET rows == FileRows(up[r].file)
        IN /\ \A k \in rows : \E row \in up[r].rows :
                 k \in Placements(r, row) \X CarriersOf(row) \X row.services
           /\ \A row \in up[r].rows : Placements(r, row) # {} =>
                 \A p \in CarriersOf(row), s \in row.services :
                    \E m \in Placements(r, row) : <<m, p, s>> \in rows
           /\ up[r].loaded = Cardinality(rows)]_vars

(* What an upload could not place waits in the queue with every service it     *)
(* was declared for, unless an administrator has decided that entry before     *)
(* (upload.service.ts:345-396, 510-523, 600-649).                              *)
NothingUnplacedVanishes ==
    [][\A r \in alone : FinishFile(r) =>
        \A row \in up[r].rows : Placements(r, row) = {} =>
            \A p \in CarriersOf(row) :
                LET entry == audit[<<p, CodeOf(r, row), row.name>>]
                IN /\ entry # Null
                   /\ entry.status # "MANUALLY_OVERRIDDEN" =>
                        row.services \subseteq entry.services]_vars

(* A file of the upload has declared entry k of the queue.                    *)
Declares(r, k) ==
    \E row \in up[r].rows :
        k[1] \in CarriersOf(row) /\ k[2] = CodeOf(r, row) /\ k[3] = row.name

(* Nothing an upload does by itself changes an entry an administrator has      *)
(* resolved; any other changes only if the file in hand declares that very     *)
(* entry again, and then it is added to, never dropped or begun anew           *)
(* (upload.service.ts:600-649).  An entry an administrator told to ignore is   *)
(* such another: declared again it goes back to review (line 631), although    *)
(* schema.prisma:248-254 says that it stops recurring.                         *)
DecisionsOutliveUploads ==
    [][alone # {} /\ alone' = alone =>
        \A k \in AuditKey : audit[k] # Null /\ audit'[k] # audit[k] =>
            /\ audit[k].status # "MANUALLY_OVERRIDDEN"
            /\ \E r \in alone : Declares(r, k)
            /\ audit'[k] # Null /\ audit'[k].id = audit[k].id
            /\ audit[k].services \subseteq audit'[k].services]_vars

(* A row only one file has declared stays, under that file's name, until that  *)
(* file is replaced or the table purged (upload.service.ts:159-172).           *)
OtherFilesKeepTheirRows ==
    \A f \in File : \A k \in declared[f] \ taken : reach[k] = f

(* An entry marked resolved has its rows: whatever fails or dies, the mark     *)
(* comes last.  Except for rows a replacement or a purge deleted since, and    *)
(* for entries an upload added to while they were being resolved               *)
(* (mno-normalization.service.ts:76-119, 185-201, 249-268).                    *)
OverriddenIsApplied ==
    \A k \in AuditKey \ overtaken :
        audit[k] # Null /\ audit[k].status = "MANUALLY_OVERRIDDEN" =>
            \A s \in audit[k].services :
                LET x == <<audit[k].mno, k[1], s>> IN reach[x] # Null \/ x \in wiped
=============================================================================
