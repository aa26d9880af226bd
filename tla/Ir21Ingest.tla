----------------------------- MODULE Ir21Ingest -----------------------------
(***************************************************************************)
(* IR.21 ingestion: apps/api/src/upload/upload.service.ts                  *)
(* (uploadIr21XmlBatch, applyParsedIr21, applyServiceConnectivity,         *)
(* resetIr21AndMnoDatabase) and the admin-pinned overrides of              *)
(* apps/api/src/provider-override/provider-override.service.ts.            *)
(*                                                                         *)
(* The API is one Node process over Postgres.  A request runs until it     *)
(* awaits a query, so every query is one action here and the requests      *)
(* interleave between them; only what the code wraps in prisma.$transaction *)
(* is atomic.  Overlap says which requests the operators let run at the    *)
(* same time; nothing in the code restricts it.                            *)
(***************************************************************************)
EXTENDS Integers, Sequences, FiniteSets

CONSTANTS
    Mno,          \* operators, by TADIG code
    Provider,     \* rows of ProviderMaster
    NumService,   \* services, in the order applyParsedIr21 handles them
    Upload,       \* upload requests that can be in flight at once
    Admin,        \* override requests that can be in flight at once
    Null,         \* an absent row or value
    Unmapped,     \* a declared carrier no alias resolves
    Undeclared,   \* a file that names no carrier for the service
    Overlap,      \* "none", "oneReplace" or "any": see MayOverlap
    MaxUploads, MaxFiles, MaxEdits, MaxResets, MaxFaults,  \* bounds
    MaxMoved      \* bound on moved

Service == 1 .. NumService
Key == Mno \X Service
Holder == Provider \cup {Null}
Declared == Provider \cup {Unmapped, Undeclared}

ASSUME ConstantsAssumption ==
    /\ NumService \in Nat \ {0}
    /\ Null \notin Mno \cup Declared
    /\ {Unmapped, Undeclared} \cap Provider = {}
    /\ Unmapped # Undeclared
    /\ Overlap \in {"none", "oneReplace", "any"}
    /\ {MaxUploads, MaxFiles, MaxEdits, MaxResets, MaxFaults, MaxMoved} \subseteq Nat

VARIABLES
    (* The database. *)
    mnos,       \* MnoMaster rows
    epoch,      \* full resets so far: an MnoMaster id lives in one epoch
    conn,       \* Ir21Connectivity.providerId per (MNO, service)
    pinned,     \* Ir21Connectivity.isManualOverride
    snap,       \* MNOs with an MnoMasterConnectivity row
    rule,       \* MnoProviderOverride.overrideProviderId
    raw,        \* what MnoProviderOverride.originalRawString resolves to
    log,        \* the LIVE_DIFF rows of Ir21RoutingChange, oldest first
    activeRows, \* UploadHistory rows with isCurrentActive
    (* The process. *)
    up,         \* upload requests in flight
    file,       \* the file each of them is applying
    adm,        \* override requests in flight
    (* Bounds. *)
    uploads, edits, fails, crashes,
    (* Observers, read by properties only. *)
    decl,       \* the declaration (MNO, service) was last brought in line with
    everRule,   \* providers an override has named
    parsed,     \* MNOs whose first IR.21 has been applied in full
    torn,       \* (MNO, service) rows written without their audit entry
    moved       \* rows alias triage repointed since they were last written

db == <<mnos, epoch, conn, pinned, snap, rule, raw, log, activeRows>>
bounds == <<uploads, edits, fails, crashes>>
observers == <<decl, everRule, parsed, torn, moved>>
vars == <<db, up, file, adm, bounds, observers>>

NoProviders == [k \in Key |-> Null]

(* One bound for the crashes and the queries that throw by themselves. *)
FaultAllowed == fails + crashes < MaxFaults

UploadPhase ==
    {"idle", "preWipe", "wipe", "files", "overrides", "first", "service",
     "write", "record", "snapshot"}

(* The frame of uploadIr21XmlBatch ... *)
UploadRecord ==
    [pc : UploadPhase, replace : BOOLEAN, files : Nat, touched : SUBSET Mno,
     preWipe : [Key -> Holder], preEpoch : Nat,
     was : [Key -> Declared \cup {Null}]]

IdleUpload ==
    [pc |-> "idle", replace |-> FALSE, files |-> 0, touched |-> {},
     preWipe |-> NoProviders, preEpoch |-> 0, was |-> NoProviders]

(* ... and the one of applyParsedIr21 it calls for each file. *)
FileRecord ==
    [mno : Mno \cup {Null}, epoch : Nat, loaded : [Service -> Holder],
     first : BOOLEAN, svc : Nat, declared : Declared \cup {Null}, old : Holder]

NoFile ==
    [mno |-> Null, epoch |-> 0, loaded |-> [s \in Service |-> Null],
     first |-> FALSE, svc |-> 1, declared |-> Null, old |-> Null]

AdminPhase == {"idle", "saveRule", "saveRow", "delete", "revertRow"}

AdminRecord ==
    [pc : AdminPhase, key : Key \cup {Null}, to : Holder,
     raw : Provider \cup {Unmapped, Null}, epoch : Nat]

IdleAdmin ==
    [pc |-> "idle", key |-> Null, to |-> Null, raw |-> Null, epoch |-> 0]

ChangeRow ==
    [type : {"ADDED", "REMOVED", "REPLACED"}, old : Holder, new : Holder,
     onboarding : BOOLEAN]

Init ==
    /\ mnos = {} /\ epoch = 0 /\ snap = {} /\ activeRows = 0
    /\ conn = NoProviders /\ pinned = [k \in Key |-> FALSE]
    /\ rule = NoProviders /\ raw = NoProviders
    /\ log = [k \in Key |-> <<>>]
    /\ up = [r \in Upload |-> IdleUpload]
    /\ file = [r \in Upload |-> NoFile]
    /\ adm = [a \in Admin |-> IdleAdmin]
    /\ uploads = 0 /\ edits = 0 /\ fails = 0 /\ crashes = 0
    /\ decl = NoProviders /\ everRule = [k \in Key |-> {}]
    /\ parsed = {} /\ torn = {} /\ moved = {}

-----------------------------------------------------------------------------
(* Which requests may overlap: "none" is one admin action at a time,         *)
(* "oneReplace" everything except two Replace Active Dataset uploads, "any"   *)
(* whatever HTTP lets through.                                                *)

Replacing(r) == up[r].pc # "idle" /\ up[r].replace

MayOverlap(replace) ==
    /\ Overlap = "none" => /\ \A r \in Upload : up[r].pc = "idle"
                           /\ \A a \in Admin : adm[a].pc = "idle"
    /\ Overlap = "oneReplace" /\ replace => \A r \in Upload : ~Replacing(r)

-----------------------------------------------------------------------------
(* uploadIr21XmlBatch.  The archive is read lazily: which file comes next and *)
(* what it declares are chosen when the code gets to them.  A file that fails *)
(* to parse changes nothing, as if it were not in the archive.                *)

FirstPhaseNeverWipes(replace) == "files"

(* Line 684. *)
FirstPhase(replace) == IF replace THEN "preWipe" ELSE "files"

StartUpload(r, replace) ==
    /\ up[r].pc = "idle"
    /\ uploads < MaxUploads
    /\ MayOverlap(replace)
    /\ uploads' = uploads + 1
    /\ up' = [up EXCEPT ![r] = [IdleUpload EXCEPT
                !.pc = FirstPhase(replace), !.replace = replace]]
    /\ UNCHANGED <<db, file, adm, edits, fails, crashes, observers>>

(* Lines 685-690: what the wipe is about to remove, read before it. *)
ReadPreWipe(r) ==
    /\ up[r].pc = "preWipe"
    /\ up' = [up EXCEPT ![r].pc = "wipe", ![r].preWipe = conn,
                        ![r].preEpoch = epoch]
    /\ UNCHANGED <<db, file, adm, bounds, observers>>

(* Lines 692-696, one transaction. *)
WipeBaseline(r) ==
    /\ up[r].pc = "wipe"
    /\ conn' = NoProviders
    /\ pinned' = [k \in Key |-> FALSE]
    /\ snap' = {}
    /\ activeRows' = 0
    /\ up' = [up EXCEPT ![r].pc = "files", ![r].was = decl]
    /\ decl' = NoProviders /\ moved' = {}
    /\ UNCHANGED <<mnos, epoch, rule, raw, log, file, adm, bounds,
                   everRule, parsed, torn>>

(* applyParsedIr21, lines 816-830: the MnoMaster row, and its id. *)
UpsertMno(r, m) ==
    /\ up[r].pc = "files"
    /\ up[r].files < MaxFiles
    /\ mnos' = mnos \cup {m}
    /\ file' = [file EXCEPT ![r].mno = m, ![r].epoch = epoch]
    /\ up' = [up EXCEPT ![r].pc = "overrides", ![r].files = @ + 1,
                        ![r].touched = IF up[r].replace THEN @ \cup {m} ELSE @]
    /\ UNCHANGED <<epoch, conn, pinned, snap, rule, raw, log, activeRows,
                   adm, bounds, observers>>

(* Lines 841-844: the TADIG's active overrides, once per file. *)
LoadOverrides(r) ==
    /\ up[r].pc = "overrides"
    /\ file' = [file EXCEPT ![r].loaded = [s \in Service |-> rule[<<file[r].mno, s>>]]]
    /\ up' = [up EXCEPT ![r].pc = "first"]
    /\ UNCHANGED <<db, adm, bounds, observers>>

(* Whether the MnoMaster row the request holds the id of is gone. *)
Stale(r) == file[r].epoch # epoch

IsFirstByConnectivity(r) ==
    \A s \in Service : conn[<<file[r].mno, s>>] = Null

(* Lines 853-854. *)
IsFirstIr21Upload(r) == Stale(r) \/ file[r].mno \notin snap

CheckFirstUpload(r) ==
    /\ up[r].pc = "first"
    /\ file' = [file EXCEPT ![r].first = IsFirstIr21Upload(r)]
    /\ up' = [up EXCEPT ![r].pc = "service"]
    /\ UNCHANGED <<db, adm, bounds, observers>>

-----------------------------------------------------------------------------
(* applyServiceConnectivity, lines 984-1075, for the service file[r].svc.       *)

KeyOf(r) == <<file[r].mno, file[r].svc>>

OldProviderIgnoringWipe(r) ==
    IF Stale(r) THEN Null ELSE conn[KeyOf(r)]

(* Lines 998-1005: the live row, else what a replace wiped. *)
OldProvider(r) ==
    IF ~Stale(r) /\ conn[KeyOf(r)] # Null THEN conn[KeyOf(r)]
    ELSE IF up[r].preEpoch = file[r].epoch THEN up[r].preWipe[KeyOf(r)] ELSE Null

DeclaredBeforeOverride(r, d) ==
    IF d \in Provider THEN d ELSE file[r].loaded[file[r].svc]

(* Lines 1030-1065: an active override wins over the declared text, and a   *)
(* carrier no alias resolves leaves nothing to apply.                       *)
EffectiveProvider(r, d) ==
    IF file[r].loaded[file[r].svc] # Null THEN file[r].loaded[file[r].svc]
    ELSE IF d \in Provider THEN d ELSE Null

(* On to the next service, or to the end of the file. *)
AdvanceService(r) ==
    /\ file' = [file EXCEPT ![r].svc = @ + 1, ![r].declared = Null, ![r].old = Null]
    /\ up' = [up EXCEPT ![r].pc =
                IF file[r].svc = NumService THEN "snapshot" ELSE "service"]

CloseFile(r) ==
    /\ file' = [file EXCEPT ![r] = NoFile]
    /\ up' = [up EXCEPT ![r].pc = "files"]

(* A declaration is in force until something else is done to its key. *)
SettleDeclaration(r, d) ==
    decl' = IF Stale(r) THEN decl ELSE [decl EXCEPT ![KeyOf(r)] = d]

ReadExisting(r, d) ==
    /\ up[r].pc = "service"
    /\ d = Unmapped => file[r].loaded[file[r].svc] # Null
    /\ file' = [file EXCEPT ![r].declared = d, ![r].old = OldProvider(r)]
    /\ up' = [up EXCEPT
                ![r].pc = IF EffectiveProvider(r, d) = Null THEN "record" ELSE "write",
                ![r].was = IF decl[KeyOf(r)] = Null THEN @
                           ELSE [@ EXCEPT ![KeyOf(r)] = decl[KeyOf(r)]]]
    /\ SettleDeclaration(r, Null)
    /\ UNCHANGED <<db, adm, bounds, everRule, parsed, torn, moved>>

(* Line 1062: queued for triage, no write and no audit row. *)
SkipUnmapped(r) ==
    /\ up[r].pc = "service"
    /\ file[r].loaded[file[r].svc] = Null
    /\ AdvanceService(r)
    /\ SettleDeclaration(r, Unmapped)
    /\ UNCHANGED <<db, adm, bounds, everRule, parsed, torn, moved>>

PinnedFlagKept(r) == pinned[KeyOf(r)] \/ file[r].loaded[file[r].svc] # Null

(* isManualOverride as each branch writes it: lines 1033 and 1066. *)
PinnedFlag(r) == file[r].loaded[file[r].svc] # Null

WriteConnectivity(r) ==
    /\ up[r].pc = "write"
    /\ ~Stale(r)
    /\ conn' = [conn EXCEPT ![KeyOf(r)] = EffectiveProvider(r, file[r].declared)]
    /\ pinned' = [pinned EXCEPT ![KeyOf(r)] = PinnedFlag(r)]
    /\ moved' = moved \ {KeyOf(r)}
    /\ up' = [up EXCEPT ![r].pc = "record"]
    /\ UNCHANGED <<mnos, epoch, snap, rule, raw, log, activeRows, file, adm, bounds,
                   decl, everRule, parsed, torn>>

ChangeTypeOfNew(old, new) == IF new = Null THEN "REMOVED" ELSE "ADDED_OR_REPLACED"

ChangeType(old, new) ==
    IF old = Null THEN "ADDED" ELSE IF new = Null THEN "REMOVED" ELSE "REPLACED"

RecordsOnlyReplacements(old, new) == old # new /\ old # Null

(* Line 1008. *)
IsChange(old, new) == old # new

(* recordChange, lines 1007-1028; the row needs its MnoMaster row.  Line 1057 *)
(* calls it for an undeclared service and leaves the connectivity row alone.  *)
RecordChange(r) ==
    LET old == file[r].old
        new == EffectiveProvider(r, file[r].declared)
        row == [type |-> ChangeType(old, new), old |-> old, new |-> new,
                onboarding |-> ChangeType(old, new) = "ADDED" /\ file[r].first]
    IN /\ up[r].pc = "record"
       /\ IsChange(old, new) => ~Stale(r)
       /\ log' = IF IsChange(old, new)
                 THEN [log EXCEPT ![KeyOf(r)] = Append(@, row)] ELSE log
       /\ SettleDeclaration(r, file[r].declared)
       /\ AdvanceService(r)
       /\ UNCHANGED <<mnos, epoch, conn, pinned, snap, rule, raw, activeRows,
                      adm, bounds, everRule, parsed, torn, moved>>

-----------------------------------------------------------------------------
(* applyParsedIr21, lines 952-956: the wide snapshot closes the file. *)
SaveSnapshot(r) ==
    /\ up[r].pc = "snapshot"
    /\ ~Stale(r)
    /\ snap' = snap \cup {file[r].mno}
    /\ parsed' = parsed \cup {file[r].mno}
    /\ CloseFile(r)
    /\ UNCHANGED <<mnos, epoch, conn, pinned, rule, raw, log, activeRows,
                   adm, bounds, decl, everRule, torn, moved>>

FilePhase == {"overrides", "first", "service", "write", "record", "snapshot"}

(* The connectivity row is written and the audit row it calls for is not. *)
Unrecorded(r) ==
    LET new == EffectiveProvider(r, file[r].declared)
    IN up[r].pc = "record" /\ ~Stale(r) /\ new # Null /\ IsChange(file[r].old, new)

(* Lines 719-723: a query throws, because a reset removed the MnoMaster row   *)
(* or for no fault of the code's; the batch notes the file as failed and goes *)
(* on.                                                                        *)
FileFails(r) ==
    /\ up[r].pc \in FilePhase
    /\ Stale(r) \/ FaultAllowed
    /\ fails' = IF Stale(r) THEN fails ELSE fails + 1
    /\ torn' = IF Unrecorded(r) THEN torn \cup {KeyOf(r)} ELSE torn
    /\ CloseFile(r)
    /\ UNCHANGED <<db, adm, uploads, edits, crashes, decl, everRule, parsed, moved>>

(* A query outside the loop's try throws: the request is answered with an     *)
(* error.                                                                     *)
UploadFails(r) ==
    /\ up[r].pc \in {"preWipe", "wipe", "files"}
    /\ FaultAllowed
    /\ crashes' = crashes + 1
    /\ up' = [up EXCEPT ![r] = IdleUpload]
    /\ UNCHANGED <<db, file, adm, uploads, edits, fails, observers>>

ActivatesIfLoaded(r) == up[r].replace /\ up[r].touched # {}
ActivatesAlways(r) == TRUE

(* Line 738. *)
Activates(r) == up[r].replace

(* Lines 726-745: the history row; it becomes the active baseline whatever   *)
(* came of the files.                                                        *)
FinishUpload(r) ==
    /\ up[r].pc = "files"
    /\ activeRows' = activeRows + (IF Activates(r) THEN 1 ELSE 0)
    /\ up' = [up EXCEPT ![r] = IdleUpload]
    /\ UNCHANGED <<mnos, epoch, conn, pinned, snap, rule, raw, log, file, adm, bounds,
                   observers>>

-----------------------------------------------------------------------------
(* ProviderOverrideService.saveBatch, lines 50-96: read, rule, row. A batch   *)
(* of several entries is this, entry after entry.                             *)

SaveOverride(a, k, p, text) ==
    /\ adm[a].pc = "idle"
    /\ edits < MaxEdits
    /\ MayOverlap(FALSE)
    /\ k[1] \in mnos
    /\ edits' = edits + 1
    /\ adm' = [adm EXCEPT ![a] = [pc |-> "saveRule", key |-> k, to |-> p,
                                  raw |-> text, epoch |-> epoch]]
    /\ UNCHANGED <<db, up, file, uploads, fails, crashes, observers>>

UpsertRule(a) ==
    /\ adm[a].pc = "saveRule"
    /\ adm[a].epoch = epoch
    /\ rule' = [rule EXCEPT ![adm[a].key] = adm[a].to]
    /\ raw' = [raw EXCEPT ![adm[a].key] = adm[a].raw]
    /\ decl' = [decl EXCEPT ![adm[a].key] = Null]
    /\ everRule' = [everRule EXCEPT ![adm[a].key] = @ \cup {adm[a].to}]
    /\ adm' = [adm EXCEPT ![a].pc = "saveRow"]
    /\ UNCHANGED <<mnos, epoch, conn, pinned, snap, log, activeRows, up, file, bounds,
                   parsed, torn, moved>>

PinRow(a) ==
    /\ adm[a].pc = "saveRow"
    /\ adm[a].epoch = epoch
    /\ conn' = [conn EXCEPT ![adm[a].key] = adm[a].to]
    /\ pinned' = [pinned EXCEPT ![adm[a].key] = TRUE]
    /\ moved' = moved \ {adm[a].key}
    /\ adm' = [adm EXCEPT ![a] = IdleAdmin]
    /\ UNCHANGED <<mnos, epoch, snap, rule, raw, log, activeRows, up, file, bounds,
                   decl, everRule, parsed, torn>>

(* ProviderOverrideService.revert, lines 105-137: the rule is read, deleted,  *)
(* and its raw text resolved again. *)
StartRevert(a, k) ==
    /\ adm[a].pc = "idle"
    /\ MayOverlap(FALSE)
    /\ rule[k] # Null
    /\ adm' = [adm EXCEPT ![a] = [pc |-> "delete", key |-> k, to |-> Null,
                                  raw |-> raw[k], epoch |-> epoch]]
    /\ UNCHANGED <<db, up, file, bounds, observers>>

DeleteRule(a) ==
    /\ adm[a].pc = "delete"
    /\ rule[adm[a].key] # Null
    /\ adm[a].epoch = epoch
    /\ rule' = [rule EXCEPT ![adm[a].key] = Null]
    /\ raw' = [raw EXCEPT ![adm[a].key] = Null]
    /\ decl' = [decl EXCEPT ![adm[a].key] = Null]
    /\ adm' = [adm EXCEPT ![a].pc = "revertRow"]
    /\ UNCHANGED <<mnos, epoch, conn, pinned, snap, log, activeRows, up, file, bounds,
                   everRule, parsed, torn, moved>>

(* Lines 115-137: back to what the raw text resolves to; without one the flag *)
(* is cleared and the override's provider stays.                              *)
UnpinRow(a) ==
    /\ adm[a].pc = "revertRow"
    /\ adm[a].raw \in Provider => adm[a].epoch = epoch
    /\ conn' = IF adm[a].raw \in Provider
               THEN [conn EXCEPT ![adm[a].key] = adm[a].raw] ELSE conn
    /\ pinned' = IF adm[a].epoch = epoch
                 THEN [pinned EXCEPT ![adm[a].key] = FALSE] ELSE pinned
    /\ moved' = IF adm[a].epoch = epoch THEN moved \ {adm[a].key} ELSE moved
    /\ adm' = [adm EXCEPT ![a] = IdleAdmin]
    /\ UNCHANGED <<mnos, epoch, snap, rule, raw, log, activeRows, up, file, bounds,
                   decl, everRule, parsed, torn>>

(* Any of these queries may throw, as they do when a reset or another revert *)
(* has removed the row: what was written before it stays.                     *)
EditFails(a) ==
    /\ adm[a].pc # "idle"
    /\ adm' = [adm EXCEPT ![a] = IdleAdmin]
    /\ UNCHANGED <<db, up, file, bounds, observers>>

-----------------------------------------------------------------------------
(* Alias triage, apps/api/src/provider-alias/provider-alias.service.ts:        *)
(* backfillOccurrence (lines 113-123) and remap (lines 184-188) upsert the row *)
(* with a provider and nothing else: a flag an override set stays, the rule is *)
(* not consulted and nothing is logged.  Which texts lead triage to which rows *)
(* is the subject of ProviderAliases.                                          *)
RepointRow(k, p) ==
    /\ Cardinality(moved) < MaxMoved
    /\ MayOverlap(FALSE)
    /\ k[1] \in mnos
    /\ conn' = [conn EXCEPT ![k] = p]
    /\ decl' = [decl EXCEPT ![k] = Null]
    /\ torn' = torn \cup {k}
    /\ moved' = moved \cup {k}
    /\ UNCHANGED <<mnos, epoch, pinned, snap, rule, raw, log, activeRows, up, file, adm,
                   bounds, everRule, parsed>>

-----------------------------------------------------------------------------
(* resetIr21AndMnoDatabase, lines 128-155, one transaction. *)
ResetDatabase ==
    /\ epoch < MaxResets
    /\ MayOverlap(FALSE)
    /\ mnos # {}
    /\ mnos' = {} /\ epoch' = epoch + 1 /\ snap' = {} /\ activeRows' = 0
    /\ conn' = NoProviders /\ pinned' = [k \in Key |-> FALSE]
    /\ rule' = NoProviders /\ raw' = NoProviders
    /\ log' = [k \in Key |-> <<>>]
    /\ decl' = NoProviders /\ parsed' = {} /\ torn' = {} /\ moved' = {}
    /\ UNCHANGED <<up, file, adm, bounds, everRule>>

(* The process dies and restarts: whatever was in flight stops between two    *)
(* queries.                                                                   *)
Crash ==
    /\ FaultAllowed
    /\ \/ \E r \in Upload : up[r].pc # "idle"
       \/ \E a \in Admin : adm[a].pc # "idle"
    /\ crashes' = crashes + 1
    /\ up' = [r \in Upload |-> IdleUpload]
    /\ file' = [r \in Upload |-> NoFile]
    /\ adm' = [a \in Admin |-> IdleAdmin]
    /\ torn' = torn \cup {KeyOf(r) : r \in {x \in Upload : Unrecorded(x)}}
    /\ UNCHANGED <<db, uploads, edits, fails, decl, everRule, parsed, moved>>

-----------------------------------------------------------------------------
UploadStep(r) ==
    \/ ReadPreWipe(r)
    \/ WipeBaseline(r)
    \/ \E m \in Mno : UpsertMno(r, m)
    \/ LoadOverrides(r)
    \/ CheckFirstUpload(r)
    \/ \E d \in Declared : ReadExisting(r, d)
    \/ SkipUnmapped(r)
    \/ WriteConnectivity(r)
    \/ RecordChange(r)
    \/ SaveSnapshot(r)
    \/ FileFails(r)
    \/ UploadFails(r)
    \/ FinishUpload(r)

AdminStep(a) ==
    \/ UpsertRule(a)
    \/ PinRow(a)
    \/ DeleteRule(a)
    \/ UnpinRow(a)
    \/ EditFails(a)

Next ==
    \/ \E r \in Upload, replace \in BOOLEAN : StartUpload(r, replace)
    \/ \E r \in Upload : UploadStep(r)
    \/ \E a \in Admin, k \in Key, p \in Provider, text \in Provider \cup {Unmapped} :
            SaveOverride(a, k, p, text)
    \/ \E a \in Admin, k \in Key : StartRevert(a, k)
    \/ \E a \in Admin : AdminStep(a)
    \/ \E k \in Key, p \in Provider : RepointRow(k, p)
    \/ ResetDatabase
    \/ Crash

Spec == Init /\ [][Next]_vars

(* The event loop resumes every request whose query has returned. *)
FairSpec == Spec /\ \A r \in Upload : WF_vars(UploadStep(r))

-----------------------------------------------------------------------------
(* Every variable and request record has the shape the code gives it. *)
TypeOK ==
    /\ mnos \subseteq Mno /\ snap \subseteq Mno /\ parsed \subseteq Mno
    /\ epoch \in Nat /\ activeRows \in Nat
    /\ conn \in [Key -> Holder] /\ pinned \in [Key -> BOOLEAN]
    /\ rule \in [Key -> Holder] /\ raw \in [Key -> Provider \cup {Unmapped, Null}]
    /\ log \in [Key -> Seq(ChangeRow)]
    /\ up \in [Upload -> UploadRecord] /\ file \in [Upload -> FileRecord]
    /\ adm \in [Admin -> AdminRecord]
    /\ {uploads, edits, fails, crashes} \subseteq Nat
    /\ decl \in [Key -> Declared \cup {Null}]
    /\ everRule \in [Key -> SUBSET Provider]
    /\ torn \subseteq Key /\ moved \subseteq Key

(* Once a service has been brought in line with a file, the comparison grid    *)
(* shows the admin's override if there is one, flagged as manual, and what the *)
(* file declared if there is none -- across later uploads, replaces, reverts,  *)
(* resets and crashes (upload.service.ts:1030-1069).                           *)
GridFollowsDeclaration ==
    \A k \in Key : decl[k] # Null =>
        /\ rule[k] # Null => conn[k] = rule[k] /\ pinned[k]
        /\ rule[k] = Null /\ decl[k] \in Provider => conn[k] = decl[k] /\ ~pinned[k]

(* The provider of the newest row that is not a removal. *)
LastGain(rows) ==
    LET gains == {i \in DOMAIN rows : rows[i].type # "REMOVED"}
    IN IF gains = {} THEN Null
       ELSE rows[CHOOSE i \in gains : \A j \in gains : j <= i].new

(* The audit trail explains the grid: where no override ever intervened and   *)
(* no row was written without its audit entry -- by a failure, or by alias      *)
(* triage, which logs nothing -- the last gain logged for a declared service   *)
(* names the provider the grid shows, through any sequence of additive and     *)
(* replacing uploads, failed ones too (upload.service.ts:998-1028).            *)
LogEndsAtGrid ==
    \A k \in Key : decl[k] \in Provider /\ everRule[k] = {} /\ k \notin torn =>
        LastGain(log[k]) = conn[k]

(* The row r appends repeats, for its service, the declaration already in     *)
(* force when the request began; a failed file has not changed it meanwhile.  *)
LogsUnchanged(r, declarations) ==
    /\ up[r].pc = "record"
    /\ file[r].declared \in declarations
    /\ up[r].was[KeyOf(r)] = file[r].declared
    /\ KeyOf(r) \notin torn
    /\ RecordChange(r)
    /\ log' # log

(* Uploading again, additively or as a replacement, a file that still declares *)
(* the same carrier logs nothing (upload.service.ts:673-682).                  *)
RedeclaredIsSilent ==
    [][\A r \in Upload : ~LogsUnchanged(r, Provider)]_vars

(* schema.prisma:405-407 says so of every unchanged (MNO, service), the ones a *)
(* file leaves undeclared included.                                            *)
UnchangedIsSilent ==
    [][\A r \in Upload : ~LogsUnchanged(r, Declared)]_vars

(* At most one UploadHistory row is the active baseline (schema.prisma:510).   *)
AtMostOneActiveBaseline == activeRows <= 1

(* Ingestion and the override endpoints keep schema.prisma:343-346 whatever    *)
(* overlaps and wherever the process dies: a row flagged as a manual override   *)
(* names a provider some override named.  Alias triage does not keep it: it     *)
(* repoints a flagged row and leaves the flag (provider-alias.service.ts:115,   *)
(* 186), so the rows it wrote last are left out, until the next write of the    *)
(* row by an upload or an override, or a wipe, puts them right.                *)
PinnedOnlyByRule ==
    \A k \in Key : pinned[k] /\ k \notin moved => conn[k] \in everRule[k]

Gains(k) ==
    /\ Len(log'[k]) > Len(log[k])
    /\ log'[k][Len(log'[k])].type = "ADDED"

(* The first load of an MNO is never counted as market churn, however often it *)
(* is interrupted and retried (upload.service.ts:846-852).                     *)
BaselineLoadIsNotChurn ==
    [][\A k \in Key : Gains(k) /\ k[1] \notin parsed =>
            log'[k][Len(log'[k])].onboarding]_vars

(* And only it: schema.prisma:429-436 reserves the flag for the very first     *)
(* IR.21 upload of an MNO.                                                     *)
OnboardingIsFirstEver ==
    [][\A k \in Key : Gains(k) /\ k[1] \in parsed =>
            ~log'[k][Len(log'[k])].onboarding]_vars

(* getActiveBaseline, lines 80-88: the MNOs the banner counts. *)
CurrentMnos == snap \cup {m \in Mno : \E s \in Service : conn[<<m, s>>] # Null}

(* A finished replacement leaves connectivity only for the MNOs of its archive *)
(* (upload.service.ts:660-664).                                                *)
ReplaceLeavesOnlyItsBatch ==
    [][\A r \in Upload : FinishUpload(r) /\ up[r].replace =>
            CurrentMnos \subseteq up[r].touched]_vars

(* A replacement that wiped the baseline publishes a new one, even if every    *)
(* file fails, unless the process dies first (upload.service.ts:730-745).      *)
WipeIsPublished ==
    \A r \in Upload : Replacing(r) ~> (activeRows > 0 \/ crashes > 0)
-----------------------------------------------------------------------------
(* With one admin action at a time the queries, phases, failures and crashes   *)
(* above add up to the grid of GridTruth: no row is ever written from a rule   *)
(* that has changed since it was read, nor flagged for one that is gone, and   *)
(* only a row triage repointed departs from that.                              *)
Truth == INSTANCE GridTruth WITH grid <- conn, manual <- pinned, rule <- rule,
                                 moved <- moved

ImplementsGridTruth == Truth!Spec
=============================================================================
