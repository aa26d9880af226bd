---------------------------- MODULE Ir21GridProofs ----------------------------
(* What Ir21Ingest guarantees when the admins act one at a time (Overlap =   *)
(* "none"): the grid says what the last file and the overrides say, and a    *)
(* replacement replaces everything.  Crashes may still strike anywhere.  And  *)
(* with that, the whole ingestion implements GridTruth.                       *)
EXTENDS Ir21IngestProofs, InductionLemmas

Busy(r) == up[r].pc # "idle"
Editing(a) == adm[a].pc # "idle"

Alone ==
    /\ \A q, r \in Upload : Busy(q) /\ Busy(r) => q = r
    /\ \A a, b \in Admin : Editing(a) /\ Editing(b) => a = b
    /\ \A r \in Upload, a \in Admin : ~(Busy(r) /\ Editing(a))

LEMMA AloneUploadStep ==
    ASSUME TypeInv, Alone, NEW r \in Upload, UploadStep(r)
    PROVE  /\ Alone' /\ Busy(r) /\ UNCHANGED adm
           /\ \A q \in Upload \ {r} : up'[q] = up[q] /\ ~Busy(q)
           /\ \A a \in Admin : ~Editing(a)
<1>1. Busy(r)
  BY DEF UploadStep, ReadPreWipe, WipeBaseline, UpsertMno, LoadOverrides, CheckFirstUpload,
     ReadExisting, SkipUnmapped, WriteConnectivity, RecordChange, SaveSnapshot, FileFails,
     UploadFails, FinishUpload, FilePhase, Busy
<1>2. UNCHANGED adm /\ \A q \in Upload \ {r} : up'[q] = up[q]
  BY DEF TypeInv, UpTypeOK, UploadStep, ReadPreWipe, WipeBaseline, UpsertMno, LoadOverrides,
     CheckFirstUpload, ReadExisting, SkipUnmapped, AdvanceService, WriteConnectivity,
     RecordChange, SaveSnapshot, FileFails, CloseFile, UploadFails, FinishUpload
<1>3. QED BY <1>1, <1>2 DEF Alone, Busy, Editing

LEMMA AloneAdminStep ==
    ASSUME TypeInv, Alone, NEW a \in Admin, AdminStep(a)
    PROVE  /\ Alone' /\ Editing(a) /\ UNCHANGED <<up, file>>
           /\ \A b \in Admin \ {a} : adm'[b] = adm[b] /\ ~Editing(b)
           /\ \A r \in Upload : ~Busy(r)
<1>1. Editing(a)
  BY DEF AdminStep, UpsertRule, PinRow, DeleteRule, UnpinRow, EditFails, Editing
<1>2. UNCHANGED <<up, file>> /\ \A b \in Admin \ {a} : adm'[b] = adm[b]
  BY DEF TypeInv, AdmTypeOK, AdminStep, UpsertRule, PinRow, DeleteRule, UnpinRow, EditFails
<1>3. QED BY <1>1, <1>2 DEF Alone, Busy, Editing

-----------------------------------------------------------------------------
(* GridFollowsDeclaration.  A declaration is withdrawn before anything it    *)
(* speaks of changes, and made again once row and rule agree with it.        *)

GridFileInv(r) ==
    /\ up[r].pc \in FilePhase => ~Stale(r)
    /\ up[r].pc \in LoadedPhase =>
            \A s \in Service : file[r].loaded[s] = rule[<<file[r].mno, s>>]
    /\ up[r].pc \in {"write", "record"} => decl[KeyOf(r)] = Null
    /\ up[r].pc = "record" /\ EffectiveProvider(r, file[r].declared) # Null =>
            /\ conn[KeyOf(r)] = EffectiveProvider(r, file[r].declared)
            /\ pinned[KeyOf(r)] = PinnedFlag(r)

GridEditInv(a) == adm[a].pc \in {"saveRow", "revertRow"} => decl[adm[a].key] = Null

GridInv ==
    /\ Alone
    /\ \A r \in Upload : GridFileInv(r)
    /\ \A a \in Admin : GridEditInv(a)
    /\ GridFollowsDeclaration

(* The grid keeps agreeing when only keys without a declaration change. *)
LEMMA GridKept ==
    ASSUME GridFollowsDeclaration,
           \A k \in Key : decl'[k] # Null =>
               /\ decl'[k] = decl[k] /\ rule'[k] = rule[k]
               /\ conn'[k] = conn[k] /\ pinned'[k] = pinned[k]
    PROVE  GridFollowsDeclaration'
BY DEF GridFollowsDeclaration

LEMMA GridUploadStep ==
    ASSUME TypeInv, GridInv, NEW r \in Upload, UploadStep(r)
    PROVE  GridInv'
<1> USE DEF db, bounds, observers
<1>a. /\ up[r] \in UploadRecord /\ up = [q \in Upload |-> up[q]]
      /\ file[r] \in FileRecord /\ file = [q \in Upload |-> file[q]] /\ FrameOf(r)
  BY DEF TypeInv, UpTypeOK, FileTypeOK, FrameOK
<1>b. /\ Alone'
      /\ \A q \in Upload \ {r} : GridFileInv(q)'
      /\ \A a \in Admin : GridEditInv(a)'
  <2>1. \A q \in Upload \ {r} : up'[q].pc \notin FilePhase
    BY AloneUploadStep DEF GridInv, Busy, FilePhase
  <2>2. \A q \in Upload \ {r} : GridFileInv(q)'
    BY <2>1 DEF GridFileInv, FilePhase, LoadedPhase
  <2>3. \A a \in Admin : adm'[a].pc = "idle"
    BY AloneUploadStep DEF GridInv, Editing
  <2>4. QED BY <2>2, <2>3, AloneUploadStep DEF GridInv, GridEditInv
<1>c. GridFileInv(r)' /\ GridFollowsDeclaration' => GridInv'
  BY <1>b DEF GridInv
<1>d. UNCHANGED <<conn, pinned, rule, decl>> => GridFollowsDeclaration'
  BY GridKept DEF GridInv
<1>e. up'[r].pc \notin FilePhase => GridFileInv(r)'
  BY DEF GridFileInv, FilePhase, LoadedPhase
<1>f. GridFileInv(r)
  BY DEF GridInv
<1>1. CASE ReadPreWipe(r)
  <2>1. up'[r].pc = "wipe"
    BY <1>1, <1>a DEF ReadPreWipe, UploadRecord
  <2>2. QED BY <1>1, <2>1, <1>c, <1>d, <1>e DEF ReadPreWipe, FilePhase
<1>2. CASE WipeBaseline(r)
  <2>1. up'[r].pc = "files"
    BY <1>2, <1>a DEF WipeBaseline, UploadRecord
  <2>2. GridFollowsDeclaration'
    BY <1>2 DEF WipeBaseline, NoProviders, GridFollowsDeclaration
  <2>3. QED BY <2>1, <2>2, <1>c, <1>e DEF FilePhase
<1>3. ASSUME NEW m \in Mno, UpsertMno(r, m) PROVE GridInv'
  <2>1. up'[r].pc = "overrides" /\ file'[r].epoch = epoch /\ epoch' = epoch
    BY <1>3, <1>a DEF UpsertMno, UploadRecord, FileRecord
  <2>2. GridFileInv(r)'
    BY <2>1 DEF GridFileInv, LoadedPhase, Stale
  <2>3. QED BY <1>3, <2>2, <1>c, <1>d DEF UpsertMno
<1>4. CASE LoadOverrides(r)
  <2>1. /\ up'[r].pc = "first" /\ UNCHANGED <<epoch, rule>>
        /\ file'[r].epoch = file[r].epoch /\ file'[r].mno = file[r].mno
        /\ file'[r].loaded = [s \in Service |-> rule[<<file[r].mno, s>>]]
    BY <1>4, <1>a DEF LoadOverrides, UploadRecord, FileRecord
  <2>2. ~Stale(r)
    BY <1>4, <1>f DEF LoadOverrides, GridFileInv, FilePhase
  <2>3. GridFileInv(r)'
    BY <2>1, <2>2 DEF GridFileInv, Stale
  <2>4. QED BY <1>4, <2>3, <1>c, <1>d DEF LoadOverrides
<1>5. CASE CheckFirstUpload(r)
  <2>1. /\ up'[r].pc = "service" /\ UNCHANGED <<epoch, rule>>
        /\ file'[r].epoch = file[r].epoch /\ file'[r].mno = file[r].mno
        /\ file'[r].loaded = file[r].loaded
    BY <1>5, <1>a DEF CheckFirstUpload, UploadRecord, FileRecord
  <2>2. GridFileInv(r)'
    BY <1>5, <2>1, <1>f DEF CheckFirstUpload, GridFileInv, Stale, FilePhase, LoadedPhase
  <2>3. QED BY <1>5, <2>2, <1>c, <1>d DEF CheckFirstUpload
<1>6. ASSUME NEW d \in Declared, ReadExisting(r, d) PROVE GridInv'
  <2>1. /\ UNCHANGED <<epoch, conn, pinned, rule>>
        /\ file'[r].epoch = file[r].epoch /\ file'[r].mno = file[r].mno
        /\ file'[r].loaded = file[r].loaded /\ file'[r].svc = file[r].svc
        /\ file'[r].declared = d
    BY <1>6, <1>a DEF ReadExisting, FileRecord
  <2>2. KeyOf(r) \in Key /\ ~Stale(r) /\ up[r].pc = "service"
    BY <1>6, <1>f, KeyOfInKey DEF ReadExisting, GridFileInv, FilePhase, TypeInv
  <2>3. decl' = [decl EXCEPT ![KeyOf(r)] = Null]
    BY <1>6, <2>2 DEF ReadExisting, SettleDeclaration
  <2>4. up'[r].pc = IF EffectiveProvider(r, d) = Null THEN "record" ELSE "write"
    BY <1>6, <1>a DEF ReadExisting, UploadRecord
  <2>5. KeyOf(r)' = KeyOf(r) /\ Stale(r)' = Stale(r)
        /\ EffectiveProvider(r, file[r].declared)' = EffectiveProvider(r, d)
    BY <2>1 DEF KeyOf, Stale, EffectiveProvider
  <2>6. decl'[KeyOf(r)] = Null
    BY <2>2, <2>3 DEF TypeInv, DbTypeOK
  <2>7. \A s \in Service : file[r].loaded[s] = rule[<<file[r].mno, s>>]
    BY <2>2, <1>f DEF GridFileInv, LoadedPhase
  <2>8. GridFileInv(r)'
    BY <2>1, <2>2, <2>4, <2>5, <2>6, <2>7 DEF GridFileInv
  <2>9. GridFollowsDeclaration'
    BY <2>1, <2>2, <2>3, GridKept DEF GridInv, TypeInv, DbTypeOK
  <2>10. QED BY <2>8, <2>9, <1>c
<1>7. CASE SkipUnmapped(r)
  <2>1. KeyOf(r) \in Key /\ ~Stale(r) /\ file[r].svc \in Service /\ rule[KeyOf(r)] = Null
    BY <1>7, <1>a, <1>f, KeyOfInKey DEF SkipUnmapped, GridFileInv, FilePhase, LoadedPhase, TypeInv,
       FrameOf, KeyOf
  <2>2. decl' = [decl EXCEPT ![KeyOf(r)] = Unmapped] /\ UNCHANGED <<conn, pinned, rule, epoch>>
    BY <1>7, <2>1 DEF SkipUnmapped, SettleDeclaration
  <2>3. GridFollowsDeclaration'
    BY <2>1, <2>2, ConstantsAssumption
       DEF GridInv, GridFollowsDeclaration, TypeInv, DbTypeOK
  <2>4. /\ up'[r].pc \in {"snapshot", "service"}
        /\ file'[r].mno = file[r].mno /\ file'[r].loaded = file[r].loaded
        /\ file'[r].epoch = file[r].epoch
    BY <1>7, <1>a DEF SkipUnmapped, AdvanceService, UploadRecord, FileRecord
  <2>5. GridFileInv(r)'
    BY <1>7, <1>f, <2>2, <2>4 DEF SkipUnmapped, GridFileInv, FilePhase, LoadedPhase, Stale
  <2>6. QED BY <2>3, <2>5, <1>c
<1>8. CASE WriteConnectivity(r)
  <2>1. KeyOf(r) \in Key /\ decl[KeyOf(r)] = Null
    BY <1>8, <1>f, KeyOfInKey DEF WriteConnectivity, GridFileInv, FilePhase, TypeInv
  <2>2. /\ UNCHANGED <<epoch, rule, decl, file>> /\ up'[r].pc = "record"
        /\ conn'[KeyOf(r)] = EffectiveProvider(r, file[r].declared)
        /\ pinned'[KeyOf(r)] = PinnedFlag(r)
        /\ \A k \in Key \ {KeyOf(r)} : conn'[k] = conn[k] /\ pinned'[k] = pinned[k]
    BY <1>8, <1>a, <2>1 DEF WriteConnectivity, UploadRecord, TypeInv, DbTypeOK
  <2>3. GridFollowsDeclaration'
    BY <2>1, <2>2, GridKept DEF GridInv
  <2>4. /\ KeyOf(r)' = KeyOf(r) /\ Stale(r)' = Stale(r) /\ PinnedFlag(r)' = PinnedFlag(r)
        /\ EffectiveProvider(r, file[r].declared)' = EffectiveProvider(r, file[r].declared)
    BY <2>2 DEF KeyOf, Stale, EffectiveProvider, PinnedFlag
  <2>5. GridFileInv(r)'
    BY <1>8, <1>f, <2>1, <2>2, <2>4 DEF WriteConnectivity, GridFileInv, FilePhase, LoadedPhase
  <2>6. QED BY <2>3, <2>5, <1>c
<1>9. CASE RecordChange(r)
  <2>1. /\ KeyOf(r) \in Key /\ ~Stale(r) /\ file[r].svc \in Service
        /\ rule[KeyOf(r)] = file[r].loaded[file[r].svc]
    BY <1>9, <1>a, <1>f, KeyOfInKey DEF RecordChange, GridFileInv, FilePhase, LoadedPhase, TypeInv,
       FrameOf, KeyOf
  <2>2. decl' = [decl EXCEPT ![KeyOf(r)] = file[r].declared]
        /\ UNCHANGED <<conn, pinned, rule, epoch>>
    BY <1>9, <2>1 DEF RecordChange, SettleDeclaration
  <2>3. EffectiveProvider(r, file[r].declared) # Null =>
            /\ conn[KeyOf(r)] = EffectiveProvider(r, file[r].declared)
            /\ pinned[KeyOf(r)] = PinnedFlag(r)
    BY <1>9, <1>f DEF RecordChange, GridFileInv
  <2>4. /\ rule[KeyOf(r)] # Null => conn[KeyOf(r)] = rule[KeyOf(r)] /\ pinned[KeyOf(r)]
        /\ rule[KeyOf(r)] = Null /\ file[r].declared \in Provider =>
                conn[KeyOf(r)] = file[r].declared /\ ~pinned[KeyOf(r)]
    BY <2>1, <2>3, ConstantsAssumption DEF EffectiveProvider, PinnedFlag, Declared
  <2>5. GridFollowsDeclaration'
    BY <2>1, <2>2, <2>4 DEF GridInv, GridFollowsDeclaration, TypeInv, DbTypeOK
  <2>6. /\ up'[r].pc \in {"snapshot", "service"}
        /\ file'[r].mno = file[r].mno /\ file'[r].loaded = file[r].loaded
        /\ file'[r].epoch = file[r].epoch
    BY <1>9, <1>a DEF RecordChange, AdvanceService, UploadRecord, FileRecord
  <2>7. GridFileInv(r)'
    BY <1>9, <1>f, <2>2, <2>6 DEF RecordChange, GridFileInv, FilePhase, LoadedPhase, Stale
  <2>8. QED BY <2>5, <2>7, <1>c
<1>10. CASE SaveSnapshot(r) \/ FileFails(r)
  <2>1. up'[r].pc = "files"
    BY <1>10, <1>a DEF SaveSnapshot, FileFails, CloseFile, UploadRecord
  <2>2. QED BY <1>10, <2>1, <1>c, <1>d, <1>e DEF SaveSnapshot, FileFails, FilePhase
<1>11. CASE UploadFails(r) \/ FinishUpload(r)
  <2>1. up'[r].pc = "idle"
    BY <1>11, <1>a DEF UploadFails, FinishUpload, IdleUpload
  <2>2. QED BY <1>11, <2>1, <1>c, <1>d, <1>e DEF UploadFails, FinishUpload, FilePhase
<1>12. QED
  BY <1>1, <1>2, <1>3, <1>4, <1>5, <1>6, <1>7, <1>8, <1>9, <1>10, <1>11 DEF UploadStep

LEMMA GridAdminStep ==
    ASSUME TypeInv, GridInv, NEW a \in Admin, AdminStep(a)
    PROVE  GridInv'
<1> USE DEF db, bounds, observers
<1>a. adm = [b \in Admin |-> adm[b]] /\ adm[a] \in AdminRecord /\ AdminFrameOf(a)
  BY DEF TypeInv, AdmTypeOK, AdminFrameOK
<1>b. /\ Alone'
      /\ \A r \in Upload : GridFileInv(r)'
      /\ \A b \in Admin \ {a} : GridEditInv(b)'
  <2>1. \A r \in Upload : up'[r].pc \notin FilePhase
    BY AloneAdminStep DEF GridInv, Busy, FilePhase
  <2>2. \A b \in Admin \ {a} : adm'[b].pc = "idle"
    BY AloneAdminStep DEF GridInv, Editing
  <2>3. QED BY <2>1, <2>2, AloneAdminStep DEF GridInv, GridEditInv, GridFileInv, FilePhase, LoadedPhase
<1>c. GridEditInv(a)' /\ GridFollowsDeclaration' => GridInv'
  BY <1>b DEF GridInv
<1>1. CASE UpsertRule(a) \/ DeleteRule(a)
  <2>1. adm[a].key \in Key /\ adm'[a].key = adm[a].key
    BY <1>1, <1>a DEF UpsertRule, DeleteRule, AdminFrameOf, AdminRecord
  <2>2. /\ decl'[adm[a].key] = Null /\ UNCHANGED <<conn, pinned>>
        /\ \A k \in Key \ {adm[a].key} : decl'[k] = decl[k] /\ rule'[k] = rule[k]
    BY <1>1, <2>1 DEF UpsertRule, DeleteRule, TypeInv, DbTypeOK
  <2>3. GridFollowsDeclaration'
    BY <2>1, <2>2, GridKept DEF GridInv
  <2>4. QED BY <2>1, <2>2, <2>3, <1>c DEF GridEditInv
<1>2. CASE PinRow(a) \/ UnpinRow(a)
  <2>1. adm[a].key \in Key /\ decl[adm[a].key] = Null /\ adm'[a].pc = "idle"
    BY <1>2, <1>a DEF PinRow, UnpinRow, AdminFrameOf, GridInv, GridEditInv, IdleAdmin
  <2>2. /\ UNCHANGED <<rule, decl>>
        /\ \A k \in Key \ {adm[a].key} : conn'[k] = conn[k] /\ pinned'[k] = pinned[k]
    BY <1>2, <2>1 DEF PinRow, UnpinRow, TypeInv, DbTypeOK
  <2>3. GridFollowsDeclaration'
    BY <2>1, <2>2, GridKept DEF GridInv
  <2>4. QED BY <2>1, <2>3, <1>c DEF GridEditInv
<1>3. CASE EditFails(a)
  <2>1. adm'[a].pc = "idle" /\ UNCHANGED <<conn, pinned, rule, decl>>
    BY <1>3, <1>a DEF EditFails, IdleAdmin
  <2>2. QED BY <2>1, <1>c, GridKept DEF GridInv, GridEditInv
<1>4. QED BY <1>1, <1>2, <1>3 DEF AdminStep

LEMMA AllIdle ==
    ASSUME Overlap = "none", NEW replace \in BOOLEAN, MayOverlap(replace)
    PROVE  (\A r \in Upload : up[r].pc = "idle") /\ (\A a \in Admin : adm[a].pc = "idle")
BY DEF MayOverlap

LEMMA GridStep ==
    ASSUME Overlap = "none", TypeInv, GridInv, [Next]_vars
    PROVE  GridInv'
<1> USE DEF db, bounds, observers
<1>1. ASSUME NEW r \in Upload, NEW replace \in BOOLEAN, StartUpload(r, replace)
      PROVE  GridInv'
  <2>1. \A q \in Upload : q # r => up'[q].pc = "idle"
    BY <1>1, AllIdle DEF StartUpload, TypeInv, UpTypeOK
  <2>2. /\ \A a \in Admin : adm'[a].pc = "idle"
        /\ UNCHANGED <<conn, pinned, rule, decl>>
    BY <1>1, AllIdle DEF StartUpload
  <2>3. \A q \in Upload : up'[q].pc \notin FilePhase
    BY <1>1, <2>1 DEF StartUpload, TypeInv, UpTypeOK, FirstPhase, IdleUpload, FilePhase
  <2>4. Alone'
    BY <2>1, <2>2 DEF Alone, Busy, Editing
  <2>5. QED
    BY <2>2, <2>3, <2>4, GridKept
       DEF GridInv, GridFileInv, GridEditInv, FilePhase, LoadedPhase
<1>2. ASSUME NEW a \in Admin, UNCHANGED <<up, conn, pinned, rule, decl>>,
             \A r \in Upload : up[r].pc = "idle",
             \A b \in Admin : b # a => adm'[b].pc = "idle",
             adm'[a].pc \in {"saveRule", "delete"}
      PROVE  GridInv'
  <2>1. Alone'
    BY <1>2 DEF Alone, Busy, Editing
  <2>2. QED
    BY <1>2, <2>1, GridKept DEF GridInv, GridFileInv, GridEditInv, FilePhase, LoadedPhase
<1>3. ASSUME NEW a \in Admin, NEW k \in Key, NEW p \in Provider,
             NEW text \in Provider \cup {Unmapped}, SaveOverride(a, k, p, text)
      PROVE  GridInv'
  <2>1. (\A r \in Upload : up[r].pc = "idle") /\ (\A b \in Admin : adm[b].pc = "idle")
    BY <1>3, AllIdle DEF SaveOverride
  <2>2. adm'[a].pc = "saveRule" /\ \A b \in Admin : b # a => adm'[b].pc = "idle"
    BY <1>3, <2>1 DEF SaveOverride, TypeInv, AdmTypeOK
  <2>3. QED BY <1>2, <1>3, <2>1, <2>2 DEF SaveOverride
<1>4. ASSUME NEW a \in Admin, NEW k \in Key, StartRevert(a, k)
      PROVE  GridInv'
  <2>1. (\A r \in Upload : up[r].pc = "idle") /\ (\A b \in Admin : adm[b].pc = "idle")
    BY <1>4, AllIdle DEF StartRevert
  <2>2. adm'[a].pc = "delete" /\ \A b \in Admin : b # a => adm'[b].pc = "idle"
    BY <1>4, <2>1 DEF StartRevert, TypeInv, AdmTypeOK
  <2>3. QED BY <1>2, <1>4, <2>1, <2>2 DEF StartRevert
<1>5. CASE ResetDatabase
  <2>1. (\A r \in Upload : up[r].pc = "idle") /\ (\A b \in Admin : adm[b].pc = "idle")
    BY <1>5, AllIdle DEF ResetDatabase
  <2>2. UNCHANGED <<up, adm>> /\ decl' = NoProviders
    BY <1>5 DEF ResetDatabase
  <2>3. QED
    BY <2>1, <2>2 DEF NoProviders, GridInv, GridFileInv, GridEditInv, Alone, Busy, Editing,
       FilePhase, LoadedPhase, GridFollowsDeclaration
<1>6. CASE Crash
  <2>1. /\ \A r \in Upload : up'[r].pc = "idle"
        /\ \A a \in Admin : adm'[a].pc = "idle"
        /\ UNCHANGED <<conn, pinned, rule, decl>>
    BY <1>6 DEF Crash, IdleUpload, IdleAdmin
  <2>2. QED
    BY <2>1, GridKept DEF GridInv, GridFileInv, GridEditInv, Alone, Busy, Editing, FilePhase,
       LoadedPhase
<1>7. CASE UNCHANGED vars
  BY <1>7 DEF vars, GridInv, GridFileInv, GridEditInv, Alone, Busy, Editing, Stale, KeyOf,
     EffectiveProvider, PinnedFlag, GridFollowsDeclaration
<1>8. ASSUME NEW k \in Key, NEW p \in Provider, RepointRow(k, p) PROVE GridInv'
  <2>1. (\A r \in Upload : up[r].pc = "idle") /\ (\A a \in Admin : adm[a].pc = "idle")
    BY <1>8, AllIdle DEF RepointRow
  <2>2. /\ UNCHANGED <<up, adm, pinned, rule>> /\ decl'[k] = Null
        /\ \A j \in Key \ {k} : decl'[j] = decl[j] /\ conn'[j] = conn[j]
    BY <1>8 DEF RepointRow, TypeInv, DbTypeOK
  <2>3. GridFollowsDeclaration'
    BY <2>2 DEF GridInv, GridFollowsDeclaration
  <2>4. QED
    BY <2>1, <2>2, <2>3 DEF GridInv, GridFileInv, GridEditInv, Alone, Busy, Editing,
       FilePhase, LoadedPhase
<1>9. QED
  BY <1>1, <1>3, <1>4, <1>5, <1>6, <1>7, <1>8, GridUploadStep, GridAdminStep DEF Next

LEMMA InitGridInv == Init => GridInv
<1> SUFFICES ASSUME Init PROVE GridInv
  OBVIOUS
<1>1. /\ \A r \in Upload : up[r].pc = "idle"
      /\ \A a \in Admin : adm[a].pc = "idle"
  BY DEF Init, IdleUpload, IdleAdmin
<1>2. GridFollowsDeclaration
  BY DEF Init, NoProviders, GridFollowsDeclaration
<1>3. QED
  BY <1>1, <1>2 DEF GridInv, GridFileInv, GridEditInv, Alone, Busy, Editing, FilePhase,
     LoadedPhase

(* With one admin action at a time, and crashes anywhere, the grid shows for  *)
(* every declared service the override if there is one and the file's carrier *)
(* if there is none.                                                          *)
THEOREM GridIsFaithful == Overlap = "none" => (Spec => []GridFollowsDeclaration)
<1> SUFFICES ASSUME Overlap = "none" PROVE Spec => []GridFollowsDeclaration
  OBVIOUS
<1>1. Init => TypeInv /\ GridInv
  BY InitTypeInv, InitGridInv
<1>2. TypeInv /\ GridInv /\ [Next]_vars => (TypeInv /\ GridInv)'
  BY NextTypeInv, GridStep
<1>3. GridInv => GridFollowsDeclaration
  BY DEF GridInv
<1>4. QED BY <1>1, <1>2, <1>3, PTL DEF Spec

-----------------------------------------------------------------------------
(* ReplaceLeavesOnlyItsBatch.                                                *)

BatchInv ==
    /\ Alone
    /\ \A r \in Upload : Replacing(r) =>
           /\ up[r].pc \in AfterWipe => CurrentMnos \subseteq up[r].touched
           /\ up[r].pc \in FilePhase => file[r].mno \in up[r].touched

(* Writing rows of one MNO adds at most that MNO to the banner. *)
LEMMA CurrentMnosGrow ==
    ASSUME NEW m, snap' \subseteq snap \cup {m},
           \A k \in Key : conn'[k] # Null => conn[k] # Null \/ k[1] = m
    PROVE  CurrentMnos' \subseteq CurrentMnos \cup {m}
<1>1. ASSUME NEW n \in Mno, NEW s \in Service, conn'[<<n, s>>] # Null
      PROVE  n \in CurrentMnos \cup {m}
  <2>1. <<n, s>> \in Key /\ <<n, s>>[1] = n
    BY DEF Key
  <2>2. conn[<<n, s>>] # Null \/ n = m
    BY <1>1, <2>1
  <2>3. QED BY <2>2 DEF CurrentMnos
<1>2. QED BY <1>1 DEF CurrentMnos

LEMMA BatchUploadStep ==
    ASSUME TypeInv, BatchInv, NEW r \in Upload, UploadStep(r)
    PROVE  BatchInv'
<1> USE DEF db, bounds, observers
<1>a. /\ up[r] \in UploadRecord /\ up = [q \in Upload |-> up[q]]
      /\ file[r] \in FileRecord /\ file = [q \in Upload |-> file[q]] /\ FrameOf(r)
  BY DEF TypeInv, UpTypeOK, FileTypeOK, FrameOK
<1>b. Alone' /\ \A q \in Upload \ {r} : ~Replacing(q)'
  BY AloneUploadStep DEF BatchInv, Replacing, Busy
<1>c. ASSUME Replacing(r)' => /\ up'[r].pc \in AfterWipe => CurrentMnos' \subseteq up'[r].touched
                              /\ up'[r].pc \in FilePhase => file'[r].mno \in up'[r].touched
      PROVE  BatchInv'
  BY <1>b, <1>c DEF BatchInv
<1>d. Replacing(r)' => Replacing(r)
  <2>1. UploadFails(r) \/ FinishUpload(r) => ~Replacing(r)'
    BY <1>a DEF UploadFails, FinishUpload, IdleUpload, Replacing
  <2>2. QED BY <1>a, <2>1, UploadKeepsMode, AloneUploadStep DEF BatchInv, Replacing, Busy
<1>e. /\ Replacing(r) /\ up[r].pc \in AfterWipe => CurrentMnos \subseteq up[r].touched
      /\ Replacing(r) /\ up[r].pc \in FilePhase => file[r].mno \in up[r].touched
  BY DEF BatchInv
<1>f. UNCHANGED <<conn, snap>> => CurrentMnos' = CurrentMnos
  BY DEF CurrentMnos
<1>g. FilePhase \subseteq AfterWipe /\ "files" \in AfterWipe
  BY DEF FilePhase, AfterWipe, UploadPhase
<1>1. CASE ReadPreWipe(r)
  <2>1. up'[r].pc = "wipe"
    BY <1>1, <1>a DEF ReadPreWipe, UploadRecord
  <2>2. QED BY <2>1, <1>c DEF AfterWipe, FilePhase
<1>2. CASE WipeBaseline(r)
  <2>1. up'[r].pc = "files"
    BY <1>2, <1>a DEF WipeBaseline, UploadRecord
  <2>2. snap' = {} /\ \A m \in Mno, s \in Service : conn'[<<m, s>>] = Null
    BY <1>2 DEF WipeBaseline, NoProviders, Key
  <2>3. CurrentMnos' = {}
    BY <2>2 DEF CurrentMnos
  <2>4. QED BY <2>1, <2>3, <1>c DEF FilePhase
<1>3. ASSUME NEW m \in Mno, UpsertMno(r, m) PROVE BatchInv'
  <2>1. /\ file'[r].mno = m
        /\ up'[r].touched = IF up[r].replace THEN up[r].touched \cup {m} ELSE up[r].touched
    BY <1>3, <1>a DEF UpsertMno, UploadRecord, FileRecord
  <2>2. UNCHANGED <<conn, snap>> /\ ~FinishUpload(r)
    BY <1>3, <1>a DEF UpsertMno, FinishUpload, IdleUpload, UploadRecord
  <2>3. up[r].pc \in AfterWipe
    BY <1>3, <1>g DEF UpsertMno
  <2>4. QED
    BY <2>1, <2>2, <2>3, <1>c, <1>d, <1>e, <1>f DEF Replacing
<1>4. CASE LoadOverrides(r) \/ CheckFirstUpload(r) \/ \E d \in Declared : ReadExisting(r, d)
  <2>1. /\ file'[r].mno = file[r].mno /\ up'[r].touched = up[r].touched
        /\ UNCHANGED <<conn, snap>> /\ up[r].pc \in FilePhase
    <3>1. CASE LoadOverrides(r) \/ CheckFirstUpload(r)
      BY <3>1, <1>a DEF LoadOverrides, CheckFirstUpload, UploadRecord, FileRecord, FilePhase
    <3>2. ASSUME NEW d \in Declared, ReadExisting(r, d)
          PROVE  /\ file'[r].mno = file[r].mno /\ up'[r].touched = up[r].touched
                 /\ UNCHANGED <<conn, snap>> /\ up[r].pc \in FilePhase
      BY <3>2, <1>a DEF ReadExisting, UploadRecord, FileRecord, FilePhase
    <3>3. QED BY <1>4, <3>1, <3>2
  <2>2. ~FinishUpload(r)
    BY <2>1 DEF FinishUpload, FilePhase
  <2>3. QED BY <2>1, <2>2, <1>c, <1>d, <1>e, <1>f, <1>g
<1>5. CASE SkipUnmapped(r) \/ RecordChange(r)
  <2>1. /\ file'[r].mno = file[r].mno /\ up'[r].touched = up[r].touched
        /\ UNCHANGED <<conn, snap>> /\ up[r].pc \in FilePhase
    BY <1>5, <1>a DEF SkipUnmapped, RecordChange, AdvanceService, UploadRecord, FileRecord,
       FilePhase
  <2>2. ~FinishUpload(r)
    BY <2>1 DEF FinishUpload, FilePhase
  <2>3. QED BY <2>1, <2>2, <1>c, <1>d, <1>e, <1>f, <1>g
<1>6. CASE WriteConnectivity(r)
  <2>1. /\ file' = file /\ up'[r].touched = up[r].touched
        /\ up[r].pc \in FilePhase /\ ~FinishUpload(r)
    BY <1>6, <1>a DEF WriteConnectivity, UploadRecord, FilePhase, FinishUpload
  <2>2. KeyOf(r)[1] = file[r].mno
    BY DEF KeyOf
  <2>3. CurrentMnos' \subseteq CurrentMnos \cup {file[r].mno}
    <3>1. snap' \subseteq snap \cup {file[r].mno}
      BY <1>6 DEF WriteConnectivity
    <3>2. \A k \in Key : conn'[k] # Null => conn[k] # Null \/ k[1] = file[r].mno
      BY <1>6, <2>2 DEF WriteConnectivity, TypeInv, DbTypeOK
    <3>3. QED BY <3>1, <3>2, CurrentMnosGrow
  <2>4. QED BY <2>1, <2>3, <1>c, <1>d, <1>e, <1>g
<1>7. CASE SaveSnapshot(r)
  <2>1. /\ up'[r].pc = "files" /\ up'[r].touched = up[r].touched
        /\ up[r].pc \in FilePhase /\ ~FinishUpload(r)
    BY <1>7, <1>a DEF SaveSnapshot, CloseFile, UploadRecord, FilePhase, FinishUpload
  <2>2. CurrentMnos' \subseteq CurrentMnos \cup {file[r].mno}
    BY <1>7, CurrentMnosGrow DEF SaveSnapshot
  <2>3. QED BY <2>1, <2>2, <1>c, <1>d, <1>e, <1>g DEF FilePhase
<1>8. CASE FileFails(r)
  <2>1. /\ up'[r].pc = "files" /\ up'[r].touched = up[r].touched /\ UNCHANGED <<conn, snap>>
        /\ up[r].pc \in FilePhase /\ ~FinishUpload(r)
    BY <1>8, <1>a DEF FileFails, CloseFile, UploadRecord, FilePhase, FinishUpload
  <2>2. QED BY <2>1, <1>c, <1>d, <1>e, <1>f, <1>g DEF FilePhase
<1>9. CASE UploadFails(r) \/ FinishUpload(r)
  <2>1. ~Replacing(r)'
    BY <1>9, <1>a DEF UploadFails, FinishUpload, IdleUpload, Replacing
  <2>2. QED BY <2>1, <1>c
<1>10. QED
  BY <1>1, <1>2, <1>3, <1>4, <1>5, <1>6, <1>7, <1>8, <1>9 DEF UploadStep

LEMMA BatchStep ==
    ASSUME Overlap = "none", TypeInv, BatchInv, [Next]_vars
    PROVE  BatchInv'
<1> USE DEF db, bounds, observers
<1>1. ASSUME NEW r \in Upload, NEW replace \in BOOLEAN, StartUpload(r, replace)
      PROVE  BatchInv'
  <2>1. /\ \A q \in Upload : q # r => up'[q].pc = "idle"
        /\ \A a \in Admin : adm'[a].pc = "idle"
    BY <1>1, AllIdle DEF StartUpload, TypeInv, UpTypeOK
  <2>2. Replacing(r)' => up'[r].pc = "preWipe"
    BY <1>1 DEF StartUpload, TypeInv, UpTypeOK, FirstPhase, IdleUpload, Replacing
  <2>3. QED
    BY <2>1, <2>2 DEF BatchInv, Alone, Busy, Editing, Replacing, AfterWipe, FilePhase
<1>2. ASSUME NEW a \in Admin, AdminStep(a) PROVE BatchInv'
  <2>1. Alone' /\ UNCHANGED up /\ \A r \in Upload : ~Busy(r)
    BY <1>2, AloneAdminStep DEF BatchInv
  <2>2. QED BY <2>1 DEF BatchInv, Replacing, Busy
<1>3. ASSUME NEW a \in Admin, UNCHANGED up, \A r \in Upload : up[r].pc = "idle",
             \A b \in Admin : b # a => adm'[b].pc = "idle"
      PROVE  BatchInv'
  BY <1>3 DEF BatchInv, Alone, Busy, Editing, Replacing
<1>4. ASSUME NEW a \in Admin, NEW k \in Key, NEW p \in Provider,
             NEW text \in Provider \cup {Unmapped}, SaveOverride(a, k, p, text)
      PROVE  BatchInv'
  <2>1. (\A r \in Upload : up[r].pc = "idle") /\ (\A b \in Admin : adm[b].pc = "idle")
    BY <1>4, AllIdle DEF SaveOverride
  <2>2. \A b \in Admin : b # a => adm'[b].pc = "idle"
    BY <1>4, <2>1 DEF SaveOverride, TypeInv, AdmTypeOK
  <2>3. QED BY <1>3, <1>4, <2>1, <2>2 DEF SaveOverride
<1>5. ASSUME NEW a \in Admin, NEW k \in Key, StartRevert(a, k) PROVE BatchInv'
  <2>1. (\A r \in Upload : up[r].pc = "idle") /\ (\A b \in Admin : adm[b].pc = "idle")
    BY <1>5, AllIdle DEF StartRevert
  <2>2. \A b \in Admin : b # a => adm'[b].pc = "idle"
    BY <1>5, <2>1 DEF StartRevert, TypeInv, AdmTypeOK
  <2>3. QED BY <1>3, <1>5, <2>1, <2>2 DEF StartRevert
<1>6. CASE ResetDatabase
  <2>1. (\A r \in Upload : up[r].pc = "idle") /\ (\A b \in Admin : adm[b].pc = "idle")
    BY <1>6, AllIdle DEF ResetDatabase
  <2>2. QED BY <1>6, <2>1 DEF ResetDatabase, BatchInv, Alone, Busy, Editing, Replacing
<1>7. CASE Crash
  BY <1>7 DEF Crash, IdleUpload, IdleAdmin, BatchInv, Alone, Busy, Editing, Replacing
<1>8. CASE UNCHANGED vars
  BY <1>8 DEF vars, BatchInv, Alone, Busy, Editing, Replacing, CurrentMnos
<1>9. ASSUME NEW k \in Key, NEW p \in Provider, RepointRow(k, p) PROVE BatchInv'
  <2>1. (\A r \in Upload : up[r].pc = "idle") /\ (\A a \in Admin : adm[a].pc = "idle")
    BY <1>9, AllIdle DEF RepointRow
  <2>2. QED BY <1>9, <2>1 DEF RepointRow, BatchInv, Alone, Busy, Editing, Replacing
<1>10. QED
  BY <1>1, <1>2, <1>4, <1>5, <1>6, <1>7, <1>8, <1>9, BatchUploadStep DEF Next

(* With one admin action at a time, a finished replacement has left nothing   *)
(* in the grid or the snapshots that its own archive did not bring.           *)
THEOREM ReplacementIsComplete ==
    Overlap = "none" => (Spec => ReplaceLeavesOnlyItsBatch)
<1> SUFFICES ASSUME Overlap = "none" PROVE Spec => ReplaceLeavesOnlyItsBatch
  OBVIOUS
<1> DEFINE OnlyItsBatch ==
      \A r \in Upload : FinishUpload(r) /\ up[r].replace => CurrentMnos \subseteq up[r].touched
<1>1. Init => TypeInv /\ BatchInv
  BY InitTypeInv DEF Init, BatchInv, Alone, Busy, Editing, Replacing, IdleUpload, IdleAdmin
<1>2. TypeInv /\ BatchInv /\ [Next]_vars => (TypeInv /\ BatchInv)'
  BY NextTypeInv, BatchStep
<1>3. BatchInv => OnlyItsBatch
  BY DEF BatchInv, FinishUpload, Replacing, AfterWipe, UploadPhase
<1>4. QED
  <2>1. BatchInv /\ [Next]_vars => [OnlyItsBatch]_vars
    BY <1>3
  <2>2. QED BY <1>1, <1>2, <2>1, PTL DEF Spec, ReplaceLeavesOnlyItsBatch

-----------------------------------------------------------------------------
(* With one admin action at a time, Ir21Ingest implements GridTruth: the       *)
(* queries of a file and of an override, the wipes, the failures and the       *)
(* crashes only ever add up to the writes the abstract grid allows.            *)

(* What GridInv leaves open: a file about to write has something to write, and *)
(* an edit about to write its row has already changed the rule.                *)

WriteInv(r) ==
    up[r].pc = "write" => EffectiveProvider(r, file[r].declared) # Null

EditInv(a) ==
    /\ adm[a].pc = "saveRow" => rule[adm[a].key] = adm[a].to
    /\ adm[a].pc = "revertRow" => rule[adm[a].key] = Null

RefinementInv ==
    /\ \A r \in Upload : WriteInv(r)
    /\ \A a \in Admin : EditInv(a)

LEMMA RefinementUploadStep ==
    ASSUME TypeInv, GridInv, NEW r \in Upload, UploadStep(r)
    PROVE  RefinementInv'
<1>a. up[r] \in UploadRecord /\ file[r] \in FileRecord /\ up = [q \in Upload |-> up[q]]
      /\ file = [q \in Upload |-> file[q]]
  BY DEF TypeInv, UpTypeOK, FileTypeOK
<1>1. \A a \in Admin : EditInv(a)'
  BY AloneUploadStep DEF GridInv, Editing, EditInv
<1>2. \A q \in Upload \ {r} : WriteInv(q)'
  BY AloneUploadStep DEF GridInv, Busy, WriteInv
<1>3. WriteInv(r)'
  <2>1. CASE \E d \in Declared : ReadExisting(r, d)
    <3>1. PICK d \in Declared : ReadExisting(r, d)
      BY <2>1
    <3>2. /\ file'[r].declared = d /\ file'[r].loaded = file[r].loaded
          /\ file'[r].svc = file[r].svc
          /\ up'[r].pc = IF EffectiveProvider(r, d) = Null THEN "record" ELSE "write"
      BY <3>1, <1>a DEF ReadExisting, FileRecord, UploadRecord
    <3>3. QED BY <3>2 DEF WriteInv, EffectiveProvider
  <2>2. CASE ~\E d \in Declared : ReadExisting(r, d)
    <3>1. ReadPreWipe(r) \/ WipeBaseline(r) => up'[r].pc # "write"
      BY <1>a DEF ReadPreWipe, WipeBaseline, UploadRecord
    <3>2. ASSUME NEW m \in Mno, UpsertMno(r, m) PROVE up'[r].pc # "write"
      BY <3>2, <1>a DEF UpsertMno, UploadRecord
    <3>3. LoadOverrides(r) \/ CheckFirstUpload(r) => up'[r].pc # "write"
      BY <1>a DEF LoadOverrides, CheckFirstUpload, UploadRecord
    <3>4. SkipUnmapped(r) \/ WriteConnectivity(r) \/ RecordChange(r) => up'[r].pc # "write"
      BY <1>a DEF SkipUnmapped, AdvanceService, WriteConnectivity, RecordChange, UploadRecord
    <3>5. SaveSnapshot(r) \/ FileFails(r) => up'[r].pc # "write"
      BY <1>a DEF SaveSnapshot, FileFails, CloseFile, UploadRecord
    <3>6. UploadFails(r) \/ FinishUpload(r) => up'[r].pc # "write"
      BY <1>a DEF UploadFails, FinishUpload, IdleUpload
    <3>7. QED BY <2>2, <3>1, <3>4, <3>5, <3>6, <3>2, <3>3 DEF UploadStep, WriteInv
  <2>3. QED BY <2>1, <2>2
<1>4. QED BY <1>1, <1>2, <1>3 DEF RefinementInv

LEMMA RefinementAdminStep ==
    ASSUME TypeInv, GridInv, NEW a \in Admin, AdminStep(a)
    PROVE  RefinementInv'
<1>a. adm[a] \in AdminRecord /\ adm = [b \in Admin |-> adm[b]] /\ AdminFrameOf(a)
  BY DEF TypeInv, AdmTypeOK, AdminFrameOK
<1>1. \A r \in Upload : WriteInv(r)'
  BY AloneAdminStep DEF GridInv, Busy, WriteInv
<1>2. \A b \in Admin \ {a} : EditInv(b)'
  BY AloneAdminStep DEF GridInv, Editing, EditInv
<1>3. EditInv(a)'
  <2>1. CASE UpsertRule(a)
    <3>1. adm[a].key \in Key /\ rule \in [Key -> Holder]
      BY <2>1, <1>a DEF UpsertRule, AdminFrameOf, TypeInv, DbTypeOK
    <3>2. /\ adm'[a].pc = "saveRow" /\ adm'[a].key = adm[a].key /\ adm'[a].to = adm[a].to
          /\ rule'[adm[a].key] = adm[a].to
      BY <2>1, <3>1, <1>a DEF UpsertRule, AdminRecord
    <3>3. QED BY <3>2 DEF EditInv
  <2>2. CASE DeleteRule(a)
    <3>1. adm[a].key \in Key /\ rule \in [Key -> Holder]
      BY <2>2, <1>a DEF DeleteRule, AdminFrameOf, TypeInv, DbTypeOK
    <3>2. /\ adm'[a].pc = "revertRow" /\ adm'[a].key = adm[a].key
          /\ rule'[adm[a].key] = Null
      BY <2>2, <3>1, <1>a DEF DeleteRule, AdminRecord
    <3>3. QED BY <3>2 DEF EditInv
  <2>3. CASE PinRow(a) \/ UnpinRow(a) \/ EditFails(a)
    <3>1. adm'[a].pc = "idle"
      BY <2>3, <1>a DEF PinRow, UnpinRow, EditFails, IdleAdmin
    <3>2. QED BY <3>1 DEF EditInv
  <2>4. QED BY <2>1, <2>2, <2>3 DEF AdminStep
<1>4. QED BY <1>1, <1>2, <1>3 DEF RefinementInv

LEMMA RefinementStep ==
    ASSUME Overlap = "none", TypeInv, GridInv, RefinementInv, [Next]_vars
    PROVE  RefinementInv'
<1> USE DEF db, bounds, observers
<1>1. ASSUME NEW r \in Upload, NEW replace \in BOOLEAN, StartUpload(r, replace)
      PROVE  RefinementInv'
  <2>1. \A q \in Upload : up'[q] = up[q] \/ up'[q].pc # "write"
    BY <1>1 DEF StartUpload, TypeInv, UpTypeOK, FirstPhase, IdleUpload
  <2>2. QED
    BY <1>1, <2>1 DEF StartUpload, RefinementInv, WriteInv, EditInv, EffectiveProvider
<1>2. ASSUME NEW a \in Admin, NEW k \in Key, NEW p \in Provider,
             NEW text \in Provider \cup {Unmapped}, SaveOverride(a, k, p, text)
      PROVE  RefinementInv'
  <2>1. \A b \in Admin : adm'[b] = adm[b] \/ adm'[b].pc = "saveRule"
    BY <1>2 DEF SaveOverride, TypeInv, AdmTypeOK
  <2>2. QED
    BY <1>2, <2>1 DEF SaveOverride, RefinementInv, WriteInv, EditInv, EffectiveProvider
<1>3. ASSUME NEW a \in Admin, NEW k \in Key, StartRevert(a, k)
      PROVE  RefinementInv'
  <2>1. \A b \in Admin : adm'[b] = adm[b] \/ adm'[b].pc = "delete"
    BY <1>3 DEF StartRevert, TypeInv, AdmTypeOK
  <2>2. QED
    BY <1>3, <2>1 DEF StartRevert, RefinementInv, WriteInv, EditInv, EffectiveProvider
<1>4. CASE ResetDatabase
  <2>1. (\A r \in Upload : up[r].pc = "idle") /\ (\A a \in Admin : adm[a].pc = "idle")
    BY <1>4, AllIdle DEF ResetDatabase
  <2>2. QED
    BY <1>4, <2>1 DEF ResetDatabase, RefinementInv, WriteInv, EditInv
<1>5. CASE Crash
  <2>1. /\ \A r \in Upload : up'[r].pc = "idle"
        /\ \A a \in Admin : adm'[a].pc = "idle"
    BY <1>5 DEF Crash, IdleUpload, IdleAdmin
  <2>2. QED BY <2>1 DEF RefinementInv, WriteInv, EditInv
<1>6. CASE UNCHANGED vars
  BY <1>6 DEF vars, RefinementInv, WriteInv, EditInv, EffectiveProvider
<1>7. ASSUME NEW k \in Key, NEW p \in Provider, RepointRow(k, p) PROVE RefinementInv'
  BY <1>7 DEF RepointRow, RefinementInv, WriteInv, EditInv, EffectiveProvider
<1>8. QED
  BY <1>1, <1>2, <1>3, <1>4, <1>5, <1>6, <1>7, RefinementUploadStep, RefinementAdminStep
     DEF Next

-----------------------------------------------------------------------------
(* The steps, as the abstract grid sees them. *)

ConnApplied(k, p) ==
    /\ conn' = [conn EXCEPT ![k] = IF rule[k] # Null THEN rule[k] ELSE p]
    /\ pinned' = [pinned EXCEPT ![k] = rule[k] # Null]
    /\ moved' = moved \ {k}
    /\ UNCHANGED rule

LEMMA AppliedIsApply ==
    ASSUME NEW k \in Key, NEW p \in Provider, ConnApplied(k, p)
    PROVE  Truth!Next
BY DEF ConnApplied, Truth!Next, Truth!Apply

LEMMA UploadMaps ==
    ASSUME TypeInv, GridInv, RefinementInv, NEW r \in Upload, UploadStep(r)
    PROVE  Truth!Next \/ UNCHANGED <<conn, pinned, rule, moved>>
<1> USE DEF db, bounds, observers
<1>1. CASE WriteConnectivity(r)
  <2>1. KeyOf(r) \in Key /\ file[r].svc \in Service
    BY <1>1, KeyOfInKey DEF WriteConnectivity, TypeInv, FrameOK, FrameOf, FilePhase
  <2>2. rule[KeyOf(r)] = file[r].loaded[file[r].svc]
    BY <1>1, <2>1 DEF WriteConnectivity, GridInv, GridFileInv, LoadedPhase, KeyOf
  <2>3. EffectiveProvider(r, file[r].declared) # Null /\ rule[KeyOf(r)] \in Holder
    BY <1>1, <2>1 DEF WriteConnectivity, RefinementInv, WriteInv, TypeInv, DbTypeOK
  <2>4. PICK p \in Provider :
            EffectiveProvider(r, file[r].declared) =
                IF rule[KeyOf(r)] # Null THEN rule[KeyOf(r)] ELSE p
    BY <2>2, <2>3 DEF EffectiveProvider, Holder
  <2>5. PinnedFlag(r) = (rule[KeyOf(r)] # Null)
    BY <2>2 DEF PinnedFlag
  <2>6. ConnApplied(KeyOf(r), p)
    BY <1>1, <2>4, <2>5 DEF WriteConnectivity, ConnApplied
  <2>7. QED BY <2>1, <2>6, AppliedIsApply
<1>2. CASE WipeBaseline(r)
  BY <1>2 DEF WipeBaseline, NoProviders, Truth!Next, Truth!WipeGrid, Truth!Nothing, Truth!NoFlags
<1>3. CASE ~WriteConnectivity(r) /\ ~WipeBaseline(r)
  BY <1>3 DEF UploadStep, ReadPreWipe, UpsertMno, LoadOverrides, CheckFirstUpload, ReadExisting,
     SkipUnmapped, RecordChange, SaveSnapshot, FileFails, UploadFails, FinishUpload
<1>4. QED BY <1>1, <1>2, <1>3

LEMMA AdminMaps ==
    ASSUME TypeInv, GridInv, RefinementInv, NEW a \in Admin, AdminStep(a)
    PROVE  Truth!Next \/ UNCHANGED <<conn, pinned, rule, moved>>
<1> USE DEF db, bounds, observers
<1>a. EditInv(a) /\ AdminFrameOf(a) /\ adm[a] \in AdminRecord
  BY DEF RefinementInv, TypeInv, AdminFrameOK, AdmTypeOK
<1>1. CASE UpsertRule(a)
  <2>1. adm[a].key \in Key /\ adm[a].to \in Provider
    BY <1>1, <1>a DEF UpsertRule, AdminFrameOf
  <2>2. Truth!SetRule(adm[a].key, adm[a].to)
    BY <1>1 DEF UpsertRule, Truth!SetRule
  <2>3. QED BY <2>1, <2>2 DEF Truth!Next
<1>2. CASE PinRow(a)
  <2>1. /\ adm[a].key \in Key /\ adm[a].to \in Provider /\ adm[a].to # Null
        /\ rule[adm[a].key] = adm[a].to
    BY <1>2, <1>a, ConstantsAssumption DEF PinRow, AdminFrameOf, EditInv, Declared
  <2>2. ConnApplied(adm[a].key, adm[a].to)
    BY <1>2, <2>1 DEF PinRow, ConnApplied
  <2>3. QED BY <2>1, <2>2, AppliedIsApply
<1>3. CASE DeleteRule(a)
  <2>1. adm[a].key \in Key
    BY <1>3, <1>a DEF DeleteRule, AdminFrameOf
  <2>2. Truth!DropRule(adm[a].key)
    BY <1>3 DEF DeleteRule, Truth!DropRule
  <2>3. QED BY <2>1, <2>2 DEF Truth!Next
<1>4. CASE UnpinRow(a)
  <2>1. adm[a].key \in Key /\ rule[adm[a].key] = Null
    BY <1>4, <1>a DEF UnpinRow, AdminFrameOf, EditInv
  <2>2. CASE adm[a].raw \in Provider
    <3>1. ConnApplied(adm[a].key, adm[a].raw)
      BY <1>4, <2>1, <2>2 DEF UnpinRow, ConnApplied
    <3>2. QED BY <2>1, <2>2, <3>1, AppliedIsApply
  <2>3. CASE adm[a].raw \notin Provider /\ adm[a].epoch = epoch
    <3>1. Truth!Unpin(adm[a].key)
      BY <1>4, <2>1, <2>3 DEF UnpinRow, Truth!Unpin
    <3>2. QED BY <2>1, <3>1 DEF Truth!Next
  <2>4. CASE adm[a].raw \notin Provider /\ adm[a].epoch # epoch
    BY <1>4, <2>4 DEF UnpinRow
  <2>5. QED BY <2>2, <2>3, <2>4
<1>5. CASE EditFails(a)
  BY <1>5 DEF EditFails
<1>6. QED BY <1>1, <1>2, <1>3, <1>4, <1>5 DEF AdminStep

LEMMA StepMaps ==
    ASSUME TypeInv, GridInv, RefinementInv, [Next]_vars
    PROVE  Truth!Next \/ UNCHANGED <<conn, pinned, rule, moved>>
<1> USE DEF db, bounds, observers
<1>1. CASE ResetDatabase
  BY <1>1 DEF ResetDatabase, NoProviders, Truth!Next, Truth!Reset, Truth!Nothing, Truth!NoFlags
<1>2. CASE \/ \E r \in Upload, replace \in BOOLEAN : StartUpload(r, replace)
           \/ \E a \in Admin, k \in Key, p \in Provider, text \in Provider \cup {Unmapped} :
                    SaveOverride(a, k, p, text)
           \/ \E a \in Admin, k \in Key : StartRevert(a, k)
           \/ Crash
           \/ UNCHANGED vars
  BY <1>2 DEF StartUpload, SaveOverride, StartRevert, Crash, vars
<1>3. ASSUME NEW k \in Key, NEW p \in Provider, RepointRow(k, p) PROVE Truth!Next
  <2>1. Truth!Repoint(k, p)
    BY <1>3 DEF RepointRow, Truth!Repoint
  <2>2. QED BY <2>1 DEF Truth!Next
<1>4. QED BY <1>1, <1>2, <1>3, UploadMaps, AdminMaps DEF Next

(* With one admin action at a time, and crashes and failed queries anywhere,   *)
(* ingestion and overrides implement the abstract grid: every row they write   *)
(* is the one the rule in force at that moment, or else a declaration, calls   *)
(* for (upload.service.ts:1030-1069, provider-override.service.ts:60-137), and *)
(* only the rows alias triage wrote last say anything else.                    *)
THEOREM IngestImplementsGridTruth == Overlap = "none" => (Spec => ImplementsGridTruth)
<1> SUFFICES ASSUME Overlap = "none" PROVE Spec => ImplementsGridTruth
  OBVIOUS
<1>1. Init => TypeInv /\ GridInv /\ RefinementInv
  <2> SUFFICES ASSUME Init PROVE RefinementInv
    BY InitTypeInv, InitGridInv
  <2>1. QED BY DEF Init, IdleUpload, IdleAdmin, RefinementInv, WriteInv, EditInv
<1>2. TypeInv /\ GridInv /\ RefinementInv /\ [Next]_vars
        => (TypeInv /\ GridInv /\ RefinementInv)'
  BY NextTypeInv, GridStep, RefinementStep
<1>3. Init => Truth!Init
  BY DEF Init, NoProviders, Truth!Init, Truth!Nothing, Truth!NoFlags
<1>4. TypeInv /\ GridInv /\ RefinementInv /\ [Next]_vars
        => [Truth!Next]_<<conn, pinned, rule, moved>>
  BY StepMaps
<1>5. QED BY <1>1, <1>2, <1>3, <1>4, PTL DEF Spec, ImplementsGridTruth, Truth!Spec

-----------------------------------------------------------------------------
(* LogEndsAtGrid and RedeclaredIsSilent: the log explains the grid, and a      *)
(* declaration in force when a request began is found unchanged when its file  *)
(* is read, whatever the request wiped and whichever of its files failed.      *)

(* Of the rows appended, the last gain is the newest that is one. *)
LEMMA LastGainOfAppend ==
  ASSUME NEW rows \in Seq(ChangeRow), NEW row \in ChangeRow
  PROVE  LastGain(Append(rows, row)) = IF row.type # "REMOVED" THEN row.new ELSE LastGain(rows)
<1> DEFINE longer == Append(rows, row)
           n == Len(rows) + 1
           gains == {i \in DOMAIN rows : rows[i].type # "REMOVED"}
           after == {i \in DOMAIN longer : longer[i].type # "REMOVED"}
<1>1. /\ DOMAIN longer = DOMAIN rows \cup {n} /\ n \in Nat /\ longer[n] = row
      /\ \A i \in DOMAIN rows : i \in Nat /\ i < n /\ longer[i] = rows[i]
  OBVIOUS
<1>2. CASE row.type # "REMOVED"
  <2>1. n \in after /\ \A i \in after : i \in Nat /\ i <= n
    BY <1>1, <1>2
  <2>2. (CHOOSE i \in after : \A j \in after : j <= i) = n
    <3> HIDE DEF after, n
    <3>1. ASSUME NEW i \in after, \A j \in after : j <= i PROVE i = n
      BY <1>1, <2>1, <3>1
    <3> QED
      BY <1>1, <2>1, <3>1
  <2> QED
    BY <1>1, <1>2, <2>1, <2>2 DEF LastGain
<1>3. CASE row.type = "REMOVED"
  <2>1. after = gains
    BY <1>1, <1>3
  <2>2. CASE gains = {}
    BY <2>1, <2>2, <1>3 DEF LastGain
  <2>3. CASE gains # {}
    <3> DEFINE last == CHOOSE i \in gains : \A j \in gains : j <= i
    <3>1. \E i \in gains : \A j \in gains : j <= i
      <4> DEFINE left == {m \in Nat : n - m \in gains}
      <4>1. PICK i \in gains : TRUE
        BY <2>3
      <4>2. n - i \in left
        BY <1>1
      <4>3. PICK m \in left : \A k \in left : m <= k
        BY <4>2, LeastNatural
      <4>4. ASSUME NEW j \in gains PROVE j <= n - m
        <5>1. j \in Nat /\ n - j \in left
          BY <1>1
        <5>2. m \in Nat /\ m <= n - j
          BY <4>3, <5>1
        <5> QED
          BY <1>1, <5>1, <5>2
      <4> QED
        BY <4>3, <4>4
    <3>2. last \in gains
      BY <3>1
    <3>3. longer[last] = rows[last]
      BY <1>1, <3>2
    <3>4. LastGain(longer) = longer[last].new
      BY <2>1, <2>3 DEF LastGain
    <3>5. LastGain(rows) = rows[last].new
      BY <2>3 DEF LastGain
    <3> QED
      BY <1>3, <3>3, <3>4, <3>5
  <2> QED
    BY <2>2, <2>3
<1> QED
  BY <1>2, <1>3

(* The provider a read of k finds for r: the live row, or what r's wipe took.  *)
Base(r, k) == IF conn[k] # Null THEN conn[k] ELSE up[r].preWipe[k]

(* What a key shows while the declaration d of it is in force. *)
Target(k, d) == IF rule[k] # Null THEN rule[k] ELSE d

Open(r, k) == up[r].pc \in {"write", "record"} /\ KeyOf(r) = k

(* The row of k is written and its audit entry is not. *)
Written(r, k) ==
  up[r].pc = "record" /\ KeyOf(r) = k /\ EffectiveProvider(r, file[r].declared) # Null

Explains(k, p) == p # Null => LastGain(log[k]) = p

RequestInv(r) ==
  /\ up[r].pc \in {"idle", "preWipe"} => up[r].preWipe = NoProviders
  /\ up[r].pc \in {"idle", "preWipe", "wipe"} => up[r].was = NoProviders
  /\ up[r].pc = "wipe" => up[r].preWipe = conn /\ up[r].preEpoch = epoch
  /\ up[r].pc \in {"write", "record"} => file[r].declared \in Declared
  /\ \A k \in Key : up[r].preWipe[k] # Null => up[r].preEpoch = epoch

EditRuled(a) ==
  adm[a].pc \in {"saveRow", "delete", "revertRow"} => everRule[adm[a].key] # {}

KeyLogged(k) ==
  everRule[k] = {} /\ k \notin torn =>
    /\ (\A q \in Upload : ~Written(q, k)) =>
           /\ Explains(k, conn[k])
           /\ conn[k] = Null => \A r \in Upload : Explains(k, up[r].preWipe[k])
    /\ \A r \in Upload : Open(r, k) => Explains(k, file[r].old)

StillSo(r, k) ==
  up[r].was[k] \in Provider /\ k \notin torn =>
    /\ Open(r, k) => file[r].old = Target(k, up[r].was[k])
    /\ ~Written(r, k) /\ decl[k] = Null => Base(r, k) = Target(k, up[r].was[k])

LogInv ==
  /\ RuleKnown
  /\ \A r \in Upload : RequestInv(r)
  /\ \A a \in Admin : EditRuled(a)
  /\ \A k \in Key : KeyLogged(k)
  /\ \A r \in Upload, k \in Key : StillSo(r, k)

(* KeyLogged as the only request that may be busy sees it. *)
LoggedFor(r, k) ==
  everRule[k] = {} /\ k \notin torn =>
    /\ ~Written(r, k) => /\ Explains(k, conn[k])
                         /\ conn[k] = Null => Explains(k, up[r].preWipe[k])
    /\ Open(r, k) => Explains(k, file[r].old)

LEMMA LoggedForOne ==
  ASSUME LogInv, NEW r \in Upload, \A q \in Upload \ {r} : ~Busy(q)
  PROVE  /\ RequestInv(r)
         /\ \A k \in Key : LoggedFor(r, k) /\ StillSo(r, k)
<1>1. \A q \in Upload \ {r}, k \in Key : ~Written(q, k)
  BY DEF Busy, Written
<1>2. \A k \in Key : LoggedFor(r, k)
  BY <1>1 DEF LogInv, KeyLogged, LoggedFor
<1> QED
  BY <1>2 DEF LogInv

LEMMA LogOfOne ==
  ASSUME NEW r \in Upload, RuleKnown', \A a \in Admin : EditRuled(a)',
         \A q \in Upload \ {r} : up'[q].pc = "idle" /\ RequestInv(q)',
         RequestInv(r)', \A k \in Key : LoggedFor(r, k)' /\ StillSo(r, k)'
  PROVE  LogInv'
<1>1. \A q \in Upload \ {r}, k \in Key : ~Open(q, k)' /\ ~Written(q, k)'
  BY DEF Open, Written
<1>2. \A q \in Upload \ {r}, k \in Key : up'[q].preWipe[k] = Null /\ up'[q].was[k] = Null
  BY DEF RequestInv, NoProviders
<1>3. \A k \in Key : KeyLogged(k)'
  BY <1>1, <1>2 DEF KeyLogged, LoggedFor, Explains
<1>4. \A q \in Upload \ {r}, k \in Key : StillSo(q, k)'
  BY <1>2, ConstantsAssumption DEF StillSo, Declared
<1> QED
  BY <1>3, <1>4 DEF LogInv

(* Steps of a file that touch neither the grid nor a declaration. *)
LEMMA LogQuietStep ==
  ASSUME TypeInv, NEW r \in Upload, RequestInv(r), \A k \in Key : LoggedFor(r, k) /\ StillSo(r, k),
         UNCHANGED <<conn, log, rule, everRule, decl, torn, epoch>>,
         up'[r].preWipe = up[r].preWipe, up'[r].preEpoch = up[r].preEpoch,
         up'[r].was = up[r].was, up[r].pc \notin {"write", "record"},
         up'[r].pc \notin {"idle", "preWipe", "wipe", "write", "record"}
  PROVE  RequestInv(r)' /\ \A k \in Key : LoggedFor(r, k)' /\ StillSo(r, k)'
<1>1. RequestInv(r)'
  BY DEF RequestInv
<1>2. ASSUME NEW k \in Key PROVE LoggedFor(r, k)' /\ StillSo(r, k)'
  <2>1. ~Open(r, k)' /\ ~Written(r, k)' /\ ~Written(r, k)
    BY DEF Open, Written
  <2>2. LoggedFor(r, k) /\ StillSo(r, k)
    OBVIOUS
  <2>3. LoggedFor(r, k)'
    BY <2>1, <2>2 DEF LoggedFor, Explains
  <2>4. StillSo(r, k)'
    BY <2>1, <2>2 DEF StillSo, Base, Target
  <2> QED
    BY <2>3, <2>4
<1> QED
  BY <1>1, <1>2

(* The request is over, or its file is: what is not torn is logged. *)
LEMMA LogWhenClosed ==
  ASSUME TypeInv, GridInv, NEW r \in Upload, NEW k \in Key, LoggedFor(r, k), StillSo(r, k),
         Unrecorded(r) => KeyOf(r) \in torn', torn \subseteq torn',
         UNCHANGED <<conn, log, rule, everRule, decl>>
  PROVE  /\ everRule[k] = {} /\ k \notin torn' =>
              /\ Explains(k, conn[k])'
              /\ conn[k] = Null => Explains(k, up[r].preWipe[k])
         /\ up[r].was[k] \in Provider /\ k \notin torn' /\ decl[k] = Null =>
              Base(r, k) = Target(k, up[r].was[k])
<1>1. CASE ~Written(r, k)
  BY <1>1 DEF LoggedFor, StillSo, Explains
<1>2. CASE Written(r, k) /\ k \notin torn'
  <2>1. Open(r, k) /\ k \notin torn /\ ~Stale(r)
    BY <1>2 DEF Written, Open, GridInv, GridFileInv, FilePhase
  <2>2. file[r].old = EffectiveProvider(r, file[r].declared)
    BY <1>2, <2>1 DEF Unrecorded, Written, IsChange
  <2>3. conn[k] = file[r].old /\ conn[k] # Null
    BY <1>2, <2>2 DEF Written, GridInv, GridFileInv
  <2> QED
    BY <2>1, <2>3 DEF LoggedFor, StillSo, Explains, Base
<1> QED
  BY <1>1, <1>2

LEMMA LogUploadStep ==
  ASSUME TypeInv, GridInv, RefinementInv, LogInv, NEW r \in Upload, UploadStep(r)
  PROVE  LogInv'
<1> USE DEF db, bounds, observers
<1> DEFINE Kept == RequestInv(r) /\ \A k \in Key : LoggedFor(r, k) /\ StillSo(r, k)
<1>a. /\ up[r] \in UploadRecord /\ up = [q \in Upload |-> up[q]]
      /\ file[r] \in FileRecord /\ file = [q \in Upload |-> file[q]] /\ FrameOf(r)
  BY DEF TypeInv, UpTypeOK, FileTypeOK, FrameOK
<1>b. /\ conn \in [Key -> Holder] /\ rule \in [Key -> Holder] /\ log \in [Key -> Seq(ChangeRow)]
      /\ decl \in [Key -> Declared \cup {Null}] /\ torn \subseteq Key
  BY DEF TypeInv, DbTypeOK
<1>c. RequestInv(r) /\ \A k \in Key : LoggedFor(r, k) /\ StillSo(r, k)
  BY AloneUploadStep, LoggedForOne DEF GridInv
<1>d. UNCHANGED <<rule, everRule, adm, epoch>>
  BY DEF UploadStep, ReadPreWipe, WipeBaseline, UpsertMno, LoadOverrides, CheckFirstUpload,
     ReadExisting, SkipUnmapped, WriteConnectivity, RecordChange, SaveSnapshot, FileFails,
     UploadFails, FinishUpload
<1>e. GridFileInv(r) /\ GridFollowsDeclaration
  BY DEF GridInv
<1>f. ASSUME Kept' PROVE LogInv'
  <2>1. RuleKnown' /\ \A a \in Admin : EditRuled(a)'
    BY <1>d DEF LogInv, RuleKnown, EditRuled
  <2>2. \A q \in Upload \ {r} : up'[q].pc = "idle" /\ RequestInv(q)'
    BY <1>d, AloneUploadStep DEF GridInv, Busy, LogInv, RequestInv
  <2> QED
    BY <1>f, <2>1, <2>2, LogOfOne
<1>g. ASSUME UNCHANGED <<conn, log, decl, torn>>,
             up'[r].preWipe = up[r].preWipe, up'[r].preEpoch = up[r].preEpoch,
             up'[r].was = up[r].was, up[r].pc \notin {"write", "record"},
             up'[r].pc \notin {"idle", "preWipe", "wipe", "write", "record"}
      PROVE  LogInv'
  BY <1>c, <1>d, <1>f, <1>g, LogQuietStep
<1>h. ASSUME up'[r].pc \notin {"write", "record"} PROVE \A k \in Key : ~Open(r, k)' /\ ~Written(r, k)'
  BY <1>h DEF Open, Written
<1>1. CASE ReadPreWipe(r)
  <2>1. /\ up'[r].pc = "wipe" /\ up'[r].preWipe = conn /\ up'[r].preEpoch = epoch
        /\ up'[r].was = up[r].was /\ UNCHANGED <<conn, log, decl, torn>> /\ up[r].pc = "preWipe"
    BY <1>1, <1>a DEF ReadPreWipe, UploadRecord
  <2>2. up'[r].was = NoProviders
    BY <1>c, <2>1 DEF RequestInv
  <2>3. RequestInv(r)'
    BY <1>d, <2>1, <2>2 DEF RequestInv
  <2>4. ASSUME NEW k \in Key PROVE LoggedFor(r, k)' /\ StillSo(r, k)'
    <3>1. ~Written(r, k) /\ ~Written(r, k)' /\ ~Open(r, k)'
      BY <1>h, <2>1 DEF Written
    <3>2. LoggedFor(r, k)'
      BY <1>c, <1>d, <2>1, <3>1 DEF LoggedFor, Explains
    <3>3. StillSo(r, k)'
      BY <2>2, ConstantsAssumption DEF StillSo, NoProviders, Declared
    <3> QED
      BY <3>2, <3>3
  <2> QED
    BY <1>f, <2>3, <2>4
<1>2. CASE WipeBaseline(r)
  <2>1. /\ up[r].pc = "wipe" /\ up'[r].pc = "files" /\ up'[r].was = decl
        /\ up'[r].preWipe = up[r].preWipe /\ up'[r].preEpoch = up[r].preEpoch
        /\ UNCHANGED <<log, torn>> /\ conn' = NoProviders /\ decl' = NoProviders
    BY <1>2, <1>a DEF WipeBaseline, UploadRecord
  <2>2. up[r].preWipe = conn /\ up[r].preEpoch = epoch
    BY <1>c, <2>1 DEF RequestInv
  <2>3. RequestInv(r)'
    BY <1>d, <2>1, <2>2 DEF RequestInv
  <2>4. ASSUME NEW k \in Key PROVE LoggedFor(r, k)' /\ StillSo(r, k)'
    <3>1. /\ ~Written(r, k) /\ ~Written(r, k)' /\ ~Open(r, k)'
          /\ conn'[k] = Null /\ up'[r].preWipe[k] = conn[k]
      BY <1>h, <2>1, <2>2 DEF Written, NoProviders
    <3>2. LoggedFor(r, k)'
      BY <1>c, <1>d, <2>1, <3>1 DEF LoggedFor, Explains
    <3>3. decl[k] \in Provider => conn[k] = Target(k, decl[k])
      BY <1>e, ConstantsAssumption DEF GridFollowsDeclaration, Target, Declared
    <3>4. Base(r, k)' = conn[k] /\ Target(k, decl[k]) = Target(k, up[r].was[k])'
      BY <1>d, <2>1, <3>1 DEF Base, Target
    <3>5. StillSo(r, k)'
      BY <2>1, <3>1, <3>3, <3>4 DEF StillSo
    <3> QED
      BY <3>2, <3>5
  <2> QED
    BY <1>f, <2>3, <2>4
<1>3. ASSUME NEW m \in Mno, UpsertMno(r, m) PROVE LogInv'
  <2>1. /\ up'[r].pc = "overrides" /\ up'[r].preWipe = up[r].preWipe /\ up[r].pc = "files"
        /\ up'[r].preEpoch = up[r].preEpoch /\ up'[r].was = up[r].was
    BY <1>3, <1>a DEF UpsertMno, UploadRecord
  <2>2. UNCHANGED <<conn, log, decl, torn>>
    BY <1>3 DEF UpsertMno
  <2> QED
    BY <1>g, <2>1, <2>2
<1>4. CASE LoadOverrides(r) \/ CheckFirstUpload(r)
  <2>1. /\ up'[r].pc \in {"first", "service"} /\ up'[r].preWipe = up[r].preWipe
        /\ up[r].pc \in {"overrides", "first"}
        /\ up'[r].preEpoch = up[r].preEpoch /\ up'[r].was = up[r].was
    BY <1>4, <1>a DEF LoadOverrides, CheckFirstUpload, UploadRecord
  <2>2. UNCHANGED <<conn, log, decl, torn>>
    BY <1>4 DEF LoadOverrides, CheckFirstUpload
  <2> QED
    BY <1>g, <2>1, <2>2
<1>5. CASE SaveSnapshot(r)
  <2>1. /\ up'[r].pc = "files" /\ up'[r].preWipe = up[r].preWipe /\ up[r].pc = "snapshot"
        /\ up'[r].preEpoch = up[r].preEpoch /\ up'[r].was = up[r].was
    BY <1>5, <1>a DEF SaveSnapshot, CloseFile, UploadRecord
  <2>2. UNCHANGED <<conn, log, decl, torn>>
    BY <1>5 DEF SaveSnapshot
  <2> QED
    BY <1>g, <2>1, <2>2
<1>6. ASSUME NEW d \in Declared, ReadExisting(r, d) PROVE LogInv'
  <2>1. KeyOf(r) \in Key /\ ~Stale(r) /\ up[r].pc = "service"
    BY <1>6, <1>e, KeyOfInKey DEF ReadExisting, GridFileInv, FilePhase, TypeInv
  <2>2. PICK k0 : k0 = KeyOf(r)
    OBVIOUS
  <2>3. /\ UNCHANGED <<conn, log, torn>> /\ decl' = [decl EXCEPT ![k0] = Null]
        /\ file'[r].old = OldProvider(r) /\ file'[r].declared = d
        /\ file'[r].mno = file[r].mno /\ file'[r].svc = file[r].svc
        /\ file'[r].loaded = file[r].loaded
    BY <1>6, <1>a, <2>1, <2>2 DEF ReadExisting, SettleDeclaration, FileRecord
  <2>4. /\ up'[r].pc = IF EffectiveProvider(r, d) = Null THEN "record" ELSE "write"
        /\ up'[r].was = IF decl[k0] = Null THEN up[r].was
                        ELSE [up[r].was EXCEPT ![k0] = decl[k0]]
        /\ up'[r].preWipe = up[r].preWipe /\ up'[r].preEpoch = up[r].preEpoch
    BY <1>6, <1>a, <2>2 DEF ReadExisting, UploadRecord
  <2>5. KeyOf(r)' = k0 /\ EffectiveProvider(r, file[r].declared)' = EffectiveProvider(r, d)
    BY <2>2, <2>3 DEF KeyOf, EffectiveProvider
  <2>6. OldProvider(r) = Base(r, k0)
    <3>1. up[r].preWipe[k0] # Null => up[r].preEpoch = file[r].epoch
      BY <1>c, <2>1, <2>2 DEF RequestInv, Stale
    <3> QED
      BY <2>1, <2>2, <3>1 DEF OldProvider, Base
  <2>7. RequestInv(r)'
    BY <1>c, <1>d, <2>3, <2>4 DEF RequestInv
  <2>8. ASSUME NEW k \in Key PROVE LoggedFor(r, k)' /\ StillSo(r, k)'
    <3>1. ~Written(r, k) /\ ~Written(r, k)' /\ (Open(r, k)' => k = k0)
      BY <2>1, <2>4, <2>5 DEF Written, Open
    <3>2. LoggedFor(r, k)'
      BY <1>c, <1>d, <2>3, <2>4, <2>6, <3>1 DEF LoggedFor, Explains, Base
    <3>3. up'[r].was[k] \in Provider /\ k \notin torn' /\ decl'[k] = Null =>
              Base(r, k) = Target(k, up'[r].was[k])
      <4>1. CASE k = k0 /\ decl[k0] # Null
        <5>1. up'[r].was[k] = decl[k]
          BY <1>a, <2>1, <2>2, <2>4, <4>1 DEF UploadRecord
        <5>2. decl[k] \in Provider => conn[k] = Target(k, decl[k]) /\ conn[k] # Null
          BY <1>e, ConstantsAssumption DEF GridFollowsDeclaration, Target, Declared
        <5> QED
          BY <5>1, <5>2 DEF Base
      <4>2. CASE ~(k = k0 /\ decl[k0] # Null)
        <5>1. up'[r].was[k] = up[r].was[k] /\ (decl'[k] = Null => decl[k] = Null)
          BY <1>a, <1>b, <2>1, <2>2, <2>3, <2>4, <4>2 DEF UploadRecord
        <5> QED
          BY <1>c, <2>3, <3>1, <5>1 DEF StillSo
      <4> QED
        BY <4>1, <4>2
    <3>4. decl'[k0] = Null
      BY <1>b, <2>1, <2>2, <2>3
    <3>5. Base(r, k)' = Base(r, k) /\ Target(k, up[r].was[k])' = Target(k, up'[r].was[k])
      BY <1>d, <2>3, <2>4 DEF Base, Target
    <3>6. StillSo(r, k)'
      BY <2>3, <2>6, <3>1, <3>3, <3>4, <3>5 DEF StillSo
    <3> QED
      BY <3>2, <3>6
  <2> QED
    BY <1>f, <2>7, <2>8
<1>7. CASE SkipUnmapped(r)
  <2>1. KeyOf(r) \in Key /\ ~Stale(r) /\ up[r].pc = "service"
    BY <1>7, <1>e, KeyOfInKey DEF SkipUnmapped, GridFileInv, FilePhase, TypeInv
  <2>2. /\ UNCHANGED <<conn, log, torn>> /\ decl' = [decl EXCEPT ![KeyOf(r)] = Unmapped]
        /\ up'[r].pc \in {"service", "snapshot"} /\ up'[r].was = up[r].was
        /\ up'[r].preWipe = up[r].preWipe /\ up'[r].preEpoch = up[r].preEpoch
    BY <1>7, <1>a, <2>1 DEF SkipUnmapped, SettleDeclaration, AdvanceService, UploadRecord
  <2>3. RequestInv(r)'
    BY <1>c, <1>d, <2>2 DEF RequestInv
  <2>4. ASSUME NEW k \in Key PROVE LoggedFor(r, k)' /\ StillSo(r, k)'
    <3>1. ~Written(r, k) /\ ~Written(r, k)' /\ ~Open(r, k)'
      BY <1>h, <2>1, <2>2 DEF Written
    <3>2. decl'[k] = Null => decl[k] = Null
      BY <1>b, <2>1, <2>2, ConstantsAssumption DEF Declared
    <3>3. LoggedFor(r, k)'
      BY <1>c, <1>d, <2>2, <3>1 DEF LoggedFor, Explains
    <3>4. StillSo(r, k)'
      BY <1>c, <1>d, <2>2, <3>1, <3>2 DEF StillSo, Base, Target
    <3> QED
      BY <3>3, <3>4
  <2> QED
    BY <1>f, <2>3, <2>4
<1>8. CASE WriteConnectivity(r)
  <2>1. KeyOf(r) \in Key /\ up[r].pc = "write"
    BY <1>8, KeyOfInKey DEF WriteConnectivity, FilePhase, TypeInv
  <2>2. PICK k0, p : k0 = KeyOf(r) /\ p = EffectiveProvider(r, file[r].declared)
    OBVIOUS
  <2>3. p # Null
    BY <2>1, <2>2 DEF RefinementInv, WriteInv
  <2>4. /\ UNCHANGED <<log, torn, decl, file>> /\ conn' = [conn EXCEPT ![k0] = p]
        /\ up'[r].pc = "record" /\ up'[r].was = up[r].was
        /\ up'[r].preWipe = up[r].preWipe /\ up'[r].preEpoch = up[r].preEpoch
    BY <1>8, <1>a, <2>2 DEF WriteConnectivity, UploadRecord
  <2>5. RequestInv(r)'
    BY <1>c, <1>d, <2>1, <2>4 DEF RequestInv
  <2>6. ASSUME NEW k \in Key PROVE LoggedFor(r, k)' /\ StillSo(r, k)'
    <3>1. /\ ~Written(r, k) /\ Open(r, k)' = Open(r, k)
          /\ Written(r, k)' <=> k = k0
      BY <2>1, <2>2, <2>3, <2>4 DEF Written, Open, KeyOf, EffectiveProvider
    <3>2. k # k0 => conn'[k] = conn[k]
      BY <1>b, <2>4
    <3>3. LoggedFor(r, k)'
      BY <1>c, <1>d, <2>4, <3>1, <3>2 DEF LoggedFor, Explains
    <3>4. StillSo(r, k)'
      BY <1>c, <1>d, <2>4, <3>1, <3>2 DEF StillSo, Base, Target
    <3> QED
      BY <3>3, <3>4
  <2> QED
    BY <1>f, <2>5, <2>6
<1>9. CASE RecordChange(r)
  <2>1. KeyOf(r) \in Key /\ ~Stale(r) /\ up[r].pc = "record"
    BY <1>9, <1>e, KeyOfInKey DEF RecordChange, GridFileInv, FilePhase, TypeInv
  <2>2. PICK k0, old, p : /\ k0 = KeyOf(r) /\ old = file[r].old
                          /\ p = EffectiveProvider(r, file[r].declared)
    OBVIOUS
  <2>3. old \in Holder /\ p \in Holder
    BY <1>a, <2>1, <2>2, EffectiveProviderInHolder DEF FileRecord, FilePhase
  <2>4. PICK onboarding \in BOOLEAN : onboarding = (ChangeType(old, p) = "ADDED" /\ file[r].first)
    BY <1>a DEF FileRecord
  <2>5. PICK row \in ChangeRow : row = [type |-> ChangeType(old, p), old |-> old, new |-> p,
                                        onboarding |-> onboarding]
    <3>1. ChangeType(old, p) \in {"ADDED", "REMOVED", "REPLACED"}
      BY DEF ChangeType
    <3> QED
      BY <2>3, <3>1 DEF ChangeRow
  <2>6. /\ log' = IF old # p THEN [log EXCEPT ![k0] = Append(log[k0], row)] ELSE log
        /\ UNCHANGED <<conn, torn>> /\ decl' = [decl EXCEPT ![k0] = file[r].declared]
    BY <1>9, <2>1, <2>2, <2>4, <2>5 DEF RecordChange, IsChange, SettleDeclaration
  <2>7. /\ up'[r].pc \in {"service", "snapshot"} /\ up'[r].was = up[r].was
        /\ up'[r].preWipe = up[r].preWipe /\ up'[r].preEpoch = up[r].preEpoch
    BY <1>9, <1>a DEF RecordChange, AdvanceService, UploadRecord
  <2>8. RequestInv(r)'
    BY <1>c, <1>d, <2>7 DEF RequestInv
  <2>9. \A k \in Key \ {k0} : log'[k] = log[k] /\ decl'[k] = decl[k]
    BY <1>b, <2>6
  <2>10. decl'[k0] # Null
    BY <1>b, <1>c, <2>1, <2>2, <2>6, ConstantsAssumption DEF RequestInv, Declared
  <2>11. LastGain(log'[k0]) = IF old # p /\ p # Null THEN p ELSE LastGain(log[k0])
    <3>1. old # p => log'[k0] = Append(log[k0], row)
      BY <1>b, <2>1, <2>2, <2>6
    <3>2. old # p => (row.type # "REMOVED" <=> p # Null) /\ row.new = p
      BY <2>5 DEF ChangeType
    <3>3. log[k0] \in Seq(ChangeRow)
      BY <1>b, <2>1, <2>2
    <3> QED
      BY <2>6, <3>1, <3>2, <3>3, LastGainOfAppend
  <2>12. p # Null => conn[k0] = p
    BY <1>e, <2>1, <2>2 DEF GridFileInv
  <2>13. ASSUME NEW k \in Key PROVE LoggedFor(r, k)' /\ StillSo(r, k)'
    <3>1. ~Written(r, k)' /\ ~Open(r, k)' /\ (Written(r, k) => k = k0)
      BY <1>h, <2>2, <2>7 DEF Written
    <3>2. CASE k # k0
      <4>1. LoggedFor(r, k)'
        BY <1>c, <1>d, <2>6, <2>7, <2>9, <3>1, <3>2 DEF LoggedFor, Explains
      <4>2. StillSo(r, k)'
        BY <1>c, <1>d, <2>6, <2>7, <2>9, <3>1, <3>2 DEF StillSo, Base, Target
      <4> QED
        BY <4>1, <4>2
    <3>3. CASE k = k0
      <4>1. Open(r, k) /\ (Written(r, k) <=> p # Null)
        BY <2>1, <2>2, <3>3 DEF Open, Written
      <4>2. LoggedFor(r, k)'
        BY <1>c, <1>d, <2>2, <2>6, <2>7, <2>11, <2>12, <3>1, <3>3, <4>1 DEF LoggedFor, Explains
      <4>3. StillSo(r, k)'
        BY <2>10, <3>1, <3>3 DEF StillSo
      <4> QED
        BY <4>2, <4>3
    <3> QED
      BY <3>2, <3>3
  <2> QED
    BY <1>f, <2>8, <2>13
<1>10. CASE FileFails(r)
  <2>1. /\ UNCHANGED <<conn, log, decl>> /\ torn \subseteq torn'
        /\ (Unrecorded(r) => KeyOf(r) \in torn') /\ up[r].pc \in FilePhase
        /\ up'[r].pc = "files" /\ up'[r].was = up[r].was
        /\ up'[r].preWipe = up[r].preWipe /\ up'[r].preEpoch = up[r].preEpoch
    BY <1>10, <1>a DEF FileFails, CloseFile, UploadRecord
  <2>2. RequestInv(r)'
    BY <1>c, <1>d, <2>1 DEF RequestInv
  <2>3. ASSUME NEW k \in Key PROVE LoggedFor(r, k)' /\ StillSo(r, k)'
    <3>1. ~Written(r, k)' /\ ~Open(r, k)'
      BY <1>h, <2>1
    <3>2. /\ everRule[k] = {} /\ k \notin torn' =>
               /\ Explains(k, conn[k])'
               /\ conn[k] = Null => Explains(k, up[r].preWipe[k])
          /\ up[r].was[k] \in Provider /\ k \notin torn' /\ decl[k] = Null =>
               Base(r, k) = Target(k, up[r].was[k])
      BY <1>c, <1>d, <2>1, LogWhenClosed
    <3>3. LoggedFor(r, k)'
      BY <1>d, <2>1, <3>1, <3>2 DEF LoggedFor, Explains
    <3>4. StillSo(r, k)'
      BY <1>d, <2>1, <3>1, <3>2 DEF StillSo, Base, Target
    <3> QED
      BY <3>3, <3>4
  <2> QED
    BY <1>f, <2>2, <2>3
<1>11. CASE UploadFails(r) \/ FinishUpload(r)
  <2>1. /\ UNCHANGED <<conn, log, decl, torn>> /\ up'[r] = IdleUpload
        /\ up[r].pc \in {"preWipe", "wipe", "files"}
    BY <1>11, <1>a DEF UploadFails, FinishUpload
  <2>2. /\ up'[r].pc = "idle" /\ up'[r].preWipe = NoProviders /\ up'[r].was = NoProviders
    BY <2>1 DEF IdleUpload
  <2>3. RequestInv(r)'
    BY <1>d, <2>2 DEF RequestInv, NoProviders
  <2>4. ASSUME NEW k \in Key PROVE LoggedFor(r, k)' /\ StillSo(r, k)'
    <3>1. ~Written(r, k) /\ ~Written(r, k)' /\ ~Open(r, k)' /\ up'[r].preWipe[k] = Null
          /\ up'[r].was[k] = Null
      BY <1>h, <2>1, <2>2 DEF Written, NoProviders
    <3>2. LoggedFor(r, k)'
      BY <1>c, <1>d, <2>1, <3>1 DEF LoggedFor, Explains
    <3>3. StillSo(r, k)'
      BY <3>1, ConstantsAssumption DEF StillSo, Declared
    <3> QED
      BY <3>2, <3>3
  <2> QED
    BY <1>f, <2>3, <2>4
<1> QED
  BY <1>1, <1>2, <1>3, <1>4, <1>5, <1>6, <1>7, <1>8, <1>9, <1>10, <1>11 DEF UploadStep

LEMMA LogAdminStep ==
  ASSUME TypeInv, GridInv, LogInv, NEW a \in Admin, AdminStep(a)
  PROVE  LogInv'
<1> USE DEF db, bounds, observers
<1>a. adm = [b \in Admin |-> adm[b]] /\ adm[a] \in AdminRecord /\ AdminFrameOf(a)
  BY DEF TypeInv, AdmTypeOK, AdminFrameOK
<1>b. /\ conn \in [Key -> Holder] /\ rule \in [Key -> Holder]
      /\ everRule \in [Key -> SUBSET Provider]
  BY DEF TypeInv, DbTypeOK
<1>c. /\ UNCHANGED <<log, torn, up, file, epoch>>
      /\ \A b \in Admin \ {a} : adm'[b] = adm[b] /\ ~Editing(b)
      /\ \A r \in Upload : up[r].pc = "idle"
  <2>1. UNCHANGED <<log, torn, epoch>>
    BY DEF AdminStep, UpsertRule, PinRow, DeleteRule, UnpinRow, EditFails
  <2> QED
    BY <2>1, AloneAdminStep DEF GridInv, Busy
<1>d. \A r \in Upload : RequestInv(r)'
  BY <1>c DEF LogInv, RequestInv
<1>e. \A r \in Upload, k \in Key : StillSo(r, k)'
  <2>1. \A r \in Upload : up'[r].was = NoProviders
    BY <1>c DEF LogInv, RequestInv
  <2> QED
    BY <2>1, ConstantsAssumption DEF StillSo, NoProviders, Declared
<1>f. ASSUME \A k \in Key : everRule'[k] = {} => everRule[k] = {} /\ conn'[k] = conn[k]
      PROVE  \A k \in Key : KeyLogged(k)'
  <2>1. \A r \in Upload, k \in Key : ~Written(r, k) /\ ~Written(r, k)' /\ ~Open(r, k)'
    BY <1>c DEF Written, Open
  <2>2. ASSUME NEW k \in Key, everRule'[k] = {}, k \notin torn'
        PROVE  /\ Explains(k, conn[k])'
               /\ conn'[k] = Null => \A r \in Upload : Explains(k, up[r].preWipe[k])'
    <3>1. KeyLogged(k) /\ everRule[k] = {} /\ k \notin torn /\ conn'[k] = conn[k]
      BY <1>c, <1>f, <2>2 DEF LogInv
    <3> QED
      BY <1>c, <2>1, <3>1 DEF KeyLogged, Explains
  <2> QED
    BY <2>1, <2>2 DEF KeyLogged
<1>1. CASE UpsertRule(a)
  <2>1. /\ adm[a].key \in Key /\ UNCHANGED conn
        /\ rule' = [rule EXCEPT ![adm[a].key] = adm[a].to]
        /\ everRule' = [everRule EXCEPT ![adm[a].key] = @ \cup {adm[a].to}]
        /\ adm'[a].key = adm[a].key
    BY <1>1, <1>a DEF UpsertRule, AdminFrameOf, AdminRecord
  <2>2. \A k \in Key : everRule[k] \subseteq everRule'[k]
    BY <1>b, <2>1
  <2>3. adm[a].to \in everRule'[adm[a].key]
    BY <1>b, <2>1
  <2>4. RuleKnown'
    BY <1>b, <2>1, <2>2, <2>3 DEF LogInv, RuleKnown
  <2>5. \A b \in Admin : EditRuled(b)'
    BY <1>c, <2>1, <2>3 DEF EditRuled, Editing
  <2> QED
    BY <1>d, <1>e, <1>f, <2>1, <2>2, <2>4, <2>5 DEF LogInv
<1>2. CASE PinRow(a) \/ UnpinRow(a) \/ EditFails(a)
  <2>1. adm'[a].pc = "idle" /\ UNCHANGED <<rule, everRule>>
    BY <1>2, <1>a DEF PinRow, UnpinRow, EditFails, IdleAdmin
  <2>2. ASSUME NEW k \in Key, everRule[k] = {} PROVE conn'[k] = conn[k]
    <3>1. CASE EditFails(a)
      BY <3>1 DEF EditFails
    <3>2. CASE PinRow(a) \/ UnpinRow(a)
      <4>1. adm[a].pc \in {"saveRow", "revertRow"}
        BY <3>2 DEF PinRow, UnpinRow
      <4>2. k # adm[a].key
        BY <2>2, <4>1 DEF LogInv, EditRuled
      <4> QED
        BY <1>b, <3>2, <4>2 DEF PinRow, UnpinRow
    <3> QED
      BY <1>2, <3>1, <3>2
  <2>3. RuleKnown' /\ \A b \in Admin : EditRuled(b)'
    BY <1>c, <2>1 DEF LogInv, RuleKnown, EditRuled, Editing
  <2> QED
    BY <1>d, <1>e, <1>f, <2>1, <2>2, <2>3 DEF LogInv
<1>3. CASE DeleteRule(a)
  <2>1. /\ adm[a].key \in Key /\ UNCHANGED <<conn, everRule>> /\ adm[a].pc = "delete"
        /\ rule' = [rule EXCEPT ![adm[a].key] = Null] /\ adm'[a].key = adm[a].key
    BY <1>3, <1>a DEF DeleteRule, AdminFrameOf, AdminRecord
  <2>2. RuleKnown'
    BY <1>b, <2>1 DEF LogInv, RuleKnown
  <2>3. \A b \in Admin : EditRuled(b)'
    BY <1>c, <2>1 DEF LogInv, EditRuled, Editing
  <2> QED
    BY <1>d, <1>e, <1>f, <2>1, <2>2, <2>3 DEF LogInv
<1> QED
  BY <1>1, <1>2, <1>3 DEF AdminStep

(* No request has read anything yet after the step. *)
LEMMA LogWhenFresh ==
  ASSUME \A r \in Upload : /\ up'[r].pc \in {"idle", "preWipe", "files"}
                          /\ up'[r].preWipe = NoProviders /\ up'[r].was = NoProviders,
         RuleKnown', \A a \in Admin : EditRuled(a)',
         \A k \in Key : everRule'[k] = {} /\ k \notin torn' => Explains(k, conn[k])'
  PROVE  LogInv'
<1>1. \A r \in Upload : RequestInv(r)'
  BY DEF RequestInv, NoProviders
<1>2. \A r \in Upload, k \in Key :
          /\ up'[r].preWipe[k] = Null /\ up'[r].was[k] = Null
          /\ ~Open(r, k)'
  BY DEF NoProviders, Open
<1>3. \A r \in Upload, k \in Key : StillSo(r, k)'
  BY <1>2, ConstantsAssumption DEF StillSo, Declared
<1>4. \A k \in Key : KeyLogged(k)'
  BY <1>2 DEF KeyLogged, Explains
<1> QED
  BY <1>1, <1>3, <1>4 DEF LogInv

LEMMA LogWhileIdle ==
  ASSUME LogInv, \A r \in Upload : up[r].pc = "idle", NEW k \in Key,
         everRule[k] = {}, k \notin torn
  PROVE  Explains(k, conn[k])
<1>1. \A r \in Upload : ~Written(r, k)
  BY DEF Written
<1> QED
  BY <1>1 DEF LogInv, KeyLogged

LEMMA LogStep ==
  ASSUME Overlap = "none", TypeInv, GridInv, RefinementInv, LogInv, [Next]_vars
  PROVE  LogInv'
<1> USE DEF db, bounds, observers
<1>a. ASSUME \A r \in Upload : up[r].pc = "idle"
      PROVE  \A r \in Upload : up[r].preWipe = NoProviders /\ up[r].was = NoProviders
  BY <1>a DEF LogInv, RequestInv
<1>b. ASSUME \A r \in Upload : up[r].pc = "idle", UNCHANGED <<conn, log, everRule, torn>>
      PROVE  \A k \in Key : everRule'[k] = {} /\ k \notin torn' => Explains(k, conn[k])'
  BY <1>b, LogWhileIdle DEF Explains
<1>1. ASSUME NEW r \in Upload, NEW replace \in BOOLEAN, StartUpload(r, replace)
      PROVE  LogInv'
  <2>1. (\A q \in Upload : up[q].pc = "idle") /\ UNCHANGED <<conn, log, rule, everRule, torn, adm>>
    BY <1>1, AllIdle DEF StartUpload
  <2>2. \A q \in Upload : up'[q] = up[q]
            \/ /\ up'[q].pc \in {"preWipe", "files"}
               /\ up'[q].preWipe = NoProviders /\ up'[q].was = NoProviders
    BY <1>1 DEF StartUpload, TypeInv, UpTypeOK, FirstPhase, IdleUpload
  <2>3. RuleKnown' /\ \A a \in Admin : EditRuled(a)'
    BY <2>1 DEF LogInv, RuleKnown, EditRuled
  <2> QED
    BY <1>a, <1>b, <2>1, <2>2, <2>3, LogWhenFresh
<1>2. ASSUME NEW a \in Admin, UNCHANGED <<up, conn, log, rule, everRule, torn>>,
             \A r \in Upload : up[r].pc = "idle",
             \A b \in Admin : b # a => adm'[b] = adm[b], EditRuled(a)'
      PROVE  LogInv'
  <2>1. RuleKnown' /\ \A b \in Admin : EditRuled(b)'
    BY <1>2 DEF LogInv, RuleKnown, EditRuled
  <2> QED
    BY <1>a, <1>b, <1>2, <2>1, LogWhenFresh
<1>3. ASSUME NEW a \in Admin, NEW k \in Key, NEW p \in Provider,
             NEW text \in Provider \cup {Unmapped}, SaveOverride(a, k, p, text)
      PROVE  LogInv'
  <2>1. \A r \in Upload : up[r].pc = "idle"
    BY <1>3, AllIdle DEF SaveOverride
  <2>2. adm'[a].pc = "saveRule" /\ \A b \in Admin : b # a => adm'[b] = adm[b]
    BY <1>3 DEF SaveOverride, TypeInv, AdmTypeOK
  <2> QED
    BY <1>2, <1>3, <2>1, <2>2 DEF SaveOverride, EditRuled
<1>4. ASSUME NEW a \in Admin, NEW k \in Key, StartRevert(a, k) PROVE LogInv'
  <2>1. \A r \in Upload : up[r].pc = "idle"
    BY <1>4, AllIdle DEF StartRevert
  <2>2. adm'[a].key = k /\ \A b \in Admin : b # a => adm'[b] = adm[b]
    BY <1>4 DEF StartRevert, TypeInv, AdmTypeOK
  <2>3. everRule[k] # {}
    BY <1>4 DEF StartRevert, LogInv, RuleKnown
  <2> QED
    BY <1>2, <1>4, <2>1, <2>2, <2>3 DEF StartRevert, EditRuled
<1>5. CASE ResetDatabase
  <2>1. (\A r \in Upload : up[r].pc = "idle") /\ (\A a \in Admin : adm[a].pc = "idle")
    BY <1>5, AllIdle DEF ResetDatabase
  <2>2. UNCHANGED <<up, adm>> /\ rule' = NoProviders /\ conn' = NoProviders
    BY <1>5 DEF ResetDatabase
  <2>3. RuleKnown' /\ \A a \in Admin : EditRuled(a)'
    BY <2>1, <2>2 DEF RuleKnown, EditRuled, NoProviders
  <2>4. \A k \in Key : Explains(k, conn[k])'
    BY <2>2 DEF Explains, NoProviders
  <2> QED
    BY <1>a, <2>1, <2>2, <2>3, <2>4, LogWhenFresh
<1>6. CASE Crash
  <2>1. /\ \A r \in Upload : up'[r] = IdleUpload
        /\ \A a \in Admin : adm'[a].pc = "idle"
        /\ UNCHANGED <<conn, log, rule, everRule, decl>> /\ torn \subseteq torn'
        /\ \A r \in Upload : Unrecorded(r) => KeyOf(r) \in torn'
    BY <1>6 DEF Crash, IdleAdmin
  <2>2. RuleKnown' /\ \A a \in Admin : EditRuled(a)'
    BY <2>1 DEF LogInv, RuleKnown, EditRuled
  <2>3. ASSUME NEW k \in Key, everRule'[k] = {}, k \notin torn' PROVE Explains(k, conn[k])'
    <3>1. CASE \A r \in Upload : up[r].pc = "idle"
      BY <2>1, <2>3, <3>1, LogWhileIdle DEF Explains
    <3>2. ASSUME NEW r \in Upload, up[r].pc # "idle" PROVE Explains(k, conn[k])'
      <4>1. \A q \in Upload \ {r} : ~Busy(q)
        BY <3>2 DEF GridInv, Alone, Busy
      <4>2. LoggedFor(r, k) /\ StillSo(r, k)
        BY <4>1, LoggedForOne
      <4> QED
        BY <2>1, <2>3, <4>2, LogWhenClosed
    <3> QED
      BY <3>1, <3>2
  <2> QED
    BY <2>1, <2>2, <2>3, LogWhenFresh DEF IdleUpload
<1>7. CASE UNCHANGED vars
  BY <1>7 DEF vars, LogInv, RuleKnown, RequestInv, EditRuled, KeyLogged, StillSo, Written, Open,
     KeyOf, EffectiveProvider, Explains, Base, Target
<1>8. ASSUME NEW k \in Key, NEW p \in Provider, RepointRow(k, p) PROVE LogInv'
  <2>1. \A r \in Upload : up[r].pc = "idle"
    BY <1>8, AllIdle DEF RepointRow
  <2>2. /\ UNCHANGED <<up, adm, log, rule, everRule>> /\ torn' = torn \cup {k}
        /\ \A j \in Key \ {k} : conn'[j] = conn[j]
    BY <1>8 DEF RepointRow, TypeInv, DbTypeOK
  <2>3. RuleKnown' /\ \A a \in Admin : EditRuled(a)'
    BY <2>2 DEF LogInv, RuleKnown, EditRuled
  <2>4. \A j \in Key : everRule'[j] = {} /\ j \notin torn' => Explains(j, conn[j])'
    BY <2>1, <2>2, LogWhileIdle DEF Explains
  <2> QED
    BY <1>a, <2>1, <2>2, <2>3, <2>4, LogWhenFresh
<1> QED
  BY <1>1, <1>3, <1>4, <1>5, <1>6, <1>7, <1>8, LogUploadStep, LogAdminStep DEF Next

LEMMA InitLogInv == Init => RefinementInv /\ LogInv
<1> SUFFICES ASSUME Init PROVE RefinementInv /\ LogInv
  OBVIOUS
<1>1. /\ \A r \in Upload : up[r].pc = "idle" /\ up[r].preWipe = NoProviders
                           /\ up[r].was = NoProviders
      /\ \A a \in Admin : adm[a].pc = "idle"
      /\ conn = NoProviders /\ rule = NoProviders
  BY DEF Init, IdleUpload, IdleAdmin
<1>2. RefinementInv
  BY <1>1 DEF RefinementInv, WriteInv, EditInv
<1>3. RuleKnown /\ \A a \in Admin : EditRuled(a)
  BY <1>1 DEF RuleKnown, EditRuled, NoProviders
<1>4. /\ \A r \in Upload : RequestInv(r)
      /\ \A k \in Key : KeyLogged(k)
  BY <1>1 DEF RequestInv, KeyLogged, Open, Explains, NoProviders
<1>5. \A r \in Upload, k \in Key : StillSo(r, k)
  BY <1>1, ConstantsAssumption DEF StillSo, NoProviders, Declared
<1> QED
  BY <1>2, <1>3, <1>4, <1>5 DEF LogInv

LEMMA LogAlways ==
  Overlap = "none" => (Spec => [](TypeInv /\ GridInv /\ RefinementInv /\ LogInv))
<1> SUFFICES ASSUME Overlap = "none"
             PROVE  Spec => [](TypeInv /\ GridInv /\ RefinementInv /\ LogInv)
  OBVIOUS
<1>1. Init => TypeInv /\ GridInv /\ RefinementInv /\ LogInv
  BY InitTypeInv, InitGridInv, InitLogInv
<1>2. TypeInv /\ GridInv /\ RefinementInv /\ LogInv /\ [Next]_vars
        => (TypeInv /\ GridInv /\ RefinementInv /\ LogInv)'
  BY NextTypeInv, GridStep, RefinementStep, LogStep
<1> QED
  BY <1>1, <1>2, PTL DEF Spec

(* With one admin action at a time the audit trail explains the grid: where no *)
(* override intervened and no row was written without its entry, by a failure  *)
(* or by alias triage, the last gain logged for a declared service is the      *)
(* carrier the grid shows, through any additive and replacing uploads          *)
(* (upload.service.ts:998-1028).                                               *)
THEOREM LogExplainsGrid == Overlap = "none" => (Spec => []LogEndsAtGrid)
<1>1. ASSUME TypeInv, GridInv, LogInv PROVE LogEndsAtGrid
  <2> SUFFICES ASSUME NEW k \in Key, decl[k] \in Provider, everRule[k] = {}, k \notin torn
               PROVE  LastGain(log[k]) = conn[k]
    BY DEF LogEndsAtGrid
  <2>1. decl[k] # Null
    BY ConstantsAssumption DEF Declared
  <2>2. rule[k] = Null
    BY <1>1 DEF LogInv, RuleKnown
  <2>3. conn[k] # Null
    BY <1>1, <2>1, <2>2 DEF GridInv, GridFollowsDeclaration
  <2>4. \A r \in Upload : ~Written(r, k)
    BY <1>1, <2>1 DEF GridInv, GridFileInv, Written
  <2> QED
    BY <1>1, <2>3, <2>4 DEF LogInv, KeyLogged, Explains
<1> QED
  BY <1>1, LogAlways, PTL

(* And a file that declares again what was in force when its request began     *)
(* logs nothing, additively or after the wipe, even if an earlier file of the  *)
(* same request failed over the key (upload.service.ts:673-682).               *)
THEOREM RedeclaringIsSilent == Overlap = "none" => (Spec => RedeclaredIsSilent)
<1> DEFINE Silent == \A r \in Upload : ~LogsUnchanged(r, Provider)
<1>1. ASSUME TypeInv, GridInv, LogInv, NEW r \in Upload, LogsUnchanged(r, Provider) PROVE FALSE
  <2>1. /\ up[r].pc = "record" /\ file[r].declared \in Provider
        /\ up[r].was[KeyOf(r)] = file[r].declared /\ KeyOf(r) \notin torn
        /\ RecordChange(r) /\ log' # log
    BY <1>1 DEF LogsUnchanged
  <2>2. KeyOf(r) \in Key /\ file[r].svc \in Service
    BY <1>1, <2>1, KeyOfInKey DEF TypeInv, FrameOK, FrameOf, FilePhase
  <2>3. file[r].old = Target(KeyOf(r), file[r].declared)
    BY <1>1, <2>1, <2>2 DEF LogInv, StillSo, Open
  <2>4. rule[KeyOf(r)] = file[r].loaded[file[r].svc]
    BY <1>1, <2>1, <2>2 DEF GridInv, GridFileInv, LoadedPhase, KeyOf
  <2>5. EffectiveProvider(r, file[r].declared) = file[r].old
    BY <2>1, <2>3, <2>4 DEF EffectiveProvider, Target
  <2> QED
    BY <2>1, <2>5 DEF RecordChange, IsChange
<1>2. TypeInv /\ GridInv /\ LogInv => [Silent]_vars
  BY <1>1
<1> QED
  BY <1>2, LogAlways, PTL DEF RedeclaredIsSilent
=============================================================================
