-------------------------- MODULE Ir21IngestProofs --------------------------
(* The types and the safety invariants of Ir21Ingest, for every value of its   *)
(* constants and however the requests overlap.                                 *)
EXTENDS Ir21Ingest, TLAPS

(* A request that is applying a file knows whose it is, and which service; one *)
(* that is not would start its next file at the first service.                 *)
FrameOf(r) ==
    /\ up[r].pc \in FilePhase => file[r].mno \in Mno
    /\ up[r].pc \in FilePhase \ {"snapshot"} => file[r].svc \in Service
    /\ up[r].pc \notin FilePhase => file[r].svc = 1

AdminFrameOf(a) ==
    /\ adm[a].pc # "idle" => adm[a].key \in Key
    /\ adm[a].pc \in {"saveRule", "saveRow"} => adm[a].to \in Provider

FrameOK == \A r \in Upload : FrameOf(r)
AdminFrameOK == \A a \in Admin : AdminFrameOf(a)

UpTypeOK == up \in [Upload -> UploadRecord]
FileTypeOK == file \in [Upload -> FileRecord]
AdmTypeOK == adm \in [Admin -> AdminRecord]
DbTypeOK ==
    /\ mnos \subseteq Mno /\ snap \subseteq Mno /\ parsed \subseteq Mno
    /\ epoch \in Nat /\ activeRows \in Nat
    /\ conn \in [Key -> Holder] /\ pinned \in [Key -> BOOLEAN]
    /\ rule \in [Key -> Holder] /\ raw \in [Key -> Provider \cup {Unmapped, Null}]
    /\ log \in [Key -> Seq(ChangeRow)]
    /\ {uploads, edits, fails, crashes} \subseteq Nat
    /\ decl \in [Key -> Declared \cup {Null}]
    /\ everRule \in [Key -> SUBSET Provider]
    /\ torn \subseteq Key /\ moved \subseteq Key

TypeInv ==
    /\ DbTypeOK /\ UpTypeOK /\ FileTypeOK /\ AdmTypeOK
    /\ FrameOK /\ AdminFrameOK

LEMMA TypeInvImpliesTypeOK == TypeInv => TypeOK
BY DEF TypeInv, DbTypeOK, UpTypeOK, FileTypeOK, AdmTypeOK, TypeOK

-----------------------------------------------------------------------------
(* What the helpers return. *)

LEMMA KeyOfInKey ==
    ASSUME NEW r \in Upload, FrameOK, up[r].pc \in FilePhase \ {"snapshot"}
    PROVE  KeyOf(r) \in Key
BY DEF FrameOK, FrameOf, KeyOf, Key

LEMMA ServiceInNat == Service \subseteq Nat /\ 1 \in Service
BY ConstantsAssumption DEF Service

LEMMA NoProvidersType ==
    /\ NoProviders \in [Key -> Holder]
    /\ NoProviders \in [Key -> Declared \cup {Null}]
    /\ NoProviders \in [Key -> Provider \cup {Unmapped, Null}]
BY DEF NoProviders, Holder

LEMMA EffectiveProviderInHolder ==
    ASSUME TypeInv, NEW r \in Upload, up[r].pc \in FilePhase \ {"snapshot"}, NEW d
    PROVE  EffectiveProvider(r, d) \in Holder
<1>1. file[r].loaded \in [Service -> Holder] /\ file[r].svc \in Service
  BY DEF TypeInv, FileTypeOK, FileRecord, FrameOK, FrameOf
<1>2. QED BY <1>1 DEF EffectiveProvider, Holder

LEMMA OldProviderInHolder ==
    ASSUME TypeInv, NEW r \in Upload, up[r].pc \in FilePhase \ {"snapshot"}
    PROVE  OldProvider(r) \in Holder
<1>1. KeyOf(r) \in Key
  BY KeyOfInKey DEF TypeInv
<1>2. conn[KeyOf(r)] \in Holder
  BY <1>1 DEF TypeInv, DbTypeOK
<1>3. up[r].preWipe[KeyOf(r)] \in Holder
  BY <1>1 DEF TypeInv, UpTypeOK, UploadRecord
<1>4. Null \in Holder
  BY DEF Holder
<1>5. QED BY <1>2, <1>3, <1>4 DEF OldProvider

LEMMA IdleUploadType == IdleUpload \in UploadRecord
BY NoProvidersType DEF IdleUpload, UploadRecord, UploadPhase

LEMMA NoFileType == NoFile \in FileRecord
BY DEF NoFile, FileRecord, Holder

LEMMA IdleAdminType == IdleAdmin \in AdminRecord
BY DEF IdleAdmin, AdminRecord, AdminPhase, Holder

(* A step of request r leaves the frames of the others alone. *)
LEMMA FrameOfOneRequest ==
    ASSUME FrameOK, NEW r \in Upload, FrameOf(r)',
           \A q \in Upload \ {r} : up'[q] = up[q] /\ file'[q] = file[q]
    PROVE  FrameOK'
BY DEF FrameOK, FrameOf

LEMMA FrameOfOneAdmin ==
    ASSUME AdminFrameOK, NEW a \in Admin, AdminFrameOf(a)',
           \A b \in Admin \ {a} : adm'[b] = adm[b]
    PROVE  AdminFrameOK'
BY DEF AdminFrameOK, AdminFrameOf

-----------------------------------------------------------------------------
LEMMA InitTypeInv == Init => TypeInv
<1> SUFFICES ASSUME Init PROVE TypeInv
  OBVIOUS
<1>1. DbTypeOK
  BY NoProvidersType DEF Init, DbTypeOK
<1>2. UpTypeOK /\ FileTypeOK /\ AdmTypeOK
  BY IdleUploadType, NoFileType, IdleAdminType DEF Init, UpTypeOK, FileTypeOK, AdmTypeOK
<1>3. FrameOK /\ AdminFrameOK
  BY DEF Init, FrameOK, FrameOf, AdminFrameOK, AdminFrameOf, IdleUpload, NoFile, IdleAdmin,
     FilePhase
<1>4. QED BY <1>1, <1>2, <1>3 DEF TypeInv

(* On to the next service, or out of the file. *)
LEMMA AdvanceTypes ==
    ASSUME TypeInv, NEW r \in Upload, up[r].pc \in FilePhase \ {"snapshot"},
           AdvanceService(r)
    PROVE  UpTypeOK' /\ FileTypeOK' /\ FrameOK'
<1>1. up[r] \in UploadRecord /\ file[r] \in FileRecord /\ FrameOf(r) /\ Null \in Holder
  BY DEF TypeInv, UpTypeOK, FileTypeOK, FrameOK, Holder
<1>2. up'[r] \in UploadRecord
  BY <1>1 DEF TypeInv, UpTypeOK, AdvanceService, UploadRecord, UploadPhase
<1>3. file'[r] \in FileRecord
  <2>1. file[r].svc + 1 \in Nat
    BY <1>1 DEF FileRecord
  <2>2. file'[r] = [file[r] EXCEPT !.svc = file[r].svc + 1, !.declared = Null, !.old = Null]
    BY DEF TypeInv, FileTypeOK, AdvanceService
  <2>3. QED BY <1>1, <2>1, <2>2 DEF FileRecord
<1>4. FrameOf(r)'
  <2>1. file[r].mno \in Mno /\ file[r].svc \in Service /\ file[r].svc \in Nat
    BY <1>1 DEF FrameOf, FileRecord
  <2>2. file'[r].mno \in Mno /\ file'[r].svc = file[r].svc + 1
    BY <1>1, <2>1 DEF TypeInv, FileTypeOK, AdvanceService, FileRecord
  <2>3. CASE file[r].svc = NumService
    BY <2>2, <2>3 DEF TypeInv, UpTypeOK, AdvanceService, FrameOf, FilePhase, UploadRecord
  <2>4. CASE file[r].svc # NumService
    <3>1. file'[r].svc \in Service
      BY <2>1, <2>2, <2>4, ConstantsAssumption DEF Service
    <3>2. up'[r].pc = "service"
      BY <2>4, <1>1 DEF TypeInv, UpTypeOK, AdvanceService, UploadRecord
    <3>3. QED BY <2>2, <3>1, <3>2 DEF FrameOf, FilePhase
  <2>5. QED BY <2>3, <2>4
<1>5. QED
  BY <1>2, <1>3, <1>4, FrameOfOneRequest DEF TypeInv, UpTypeOK, FileTypeOK, AdvanceService

LEMMA CloseTypes ==
    ASSUME TypeInv, NEW r \in Upload, CloseFile(r)
    PROVE  UpTypeOK' /\ FileTypeOK' /\ FrameOK'
<1>1. up'[r] \in UploadRecord /\ file'[r] \in FileRecord /\ FrameOf(r)'
  BY NoFileType DEF TypeInv, UpTypeOK, FileTypeOK, CloseFile, UploadRecord, UploadPhase,
                    FrameOf, FilePhase, NoFile
<1>2. QED
  BY <1>1, FrameOfOneRequest DEF TypeInv, UpTypeOK, FileTypeOK, CloseFile

(* The steps that only move the request on. *)
LEMMA UploadTypeInv ==
    ASSUME TypeInv, NEW r \in Upload, UploadStep(r)
    PROVE  TypeInv'
<1> USE DEF TypeInv, db, bounds, observers
<1>a. /\ up[r] \in UploadRecord /\ file[r] \in FileRecord /\ FrameOf(r)
      /\ up = [q \in Upload |-> up[q]] /\ file = [q \in Upload |-> file[q]]
  BY DEF UpTypeOK, FileTypeOK, FrameOK
<1>1. CASE ReadPreWipe(r)
  <2>1. up'[r] \in UploadRecord /\ FrameOf(r)'
    BY <1>1, <1>a DEF ReadPreWipe, DbTypeOK, UploadRecord, UploadPhase, FrameOf, FilePhase
  <2>2. UpTypeOK' /\ FrameOK'
    BY <1>1, <1>a, <2>1, FrameOfOneRequest DEF ReadPreWipe, UpTypeOK
  <2>3. QED BY <1>1, <2>2 DEF ReadPreWipe, DbTypeOK, FileTypeOK, AdmTypeOK, AdminFrameOK, AdminFrameOf
<1>2. CASE WipeBaseline(r)
  <2>1. up'[r] \in UploadRecord /\ FrameOf(r)'
    BY <1>2, <1>a DEF WipeBaseline, DbTypeOK, UploadRecord, UploadPhase, FrameOf, FilePhase
  <2>2. UpTypeOK' /\ FrameOK'
    BY <1>2, <1>a, <2>1, FrameOfOneRequest DEF WipeBaseline, UpTypeOK
  <2>3. DbTypeOK'
    BY <1>2, NoProvidersType DEF WipeBaseline, DbTypeOK
  <2>4. QED BY <1>2, <2>2, <2>3 DEF WipeBaseline, FileTypeOK, AdmTypeOK, AdminFrameOK, AdminFrameOf
<1>3. ASSUME NEW m \in Mno, UpsertMno(r, m) PROVE TypeInv'
  <2>1. up'[r] \in UploadRecord
    BY <1>3, <1>a DEF UpsertMno, UploadRecord, UploadPhase
  <2>2. file'[r] \in FileRecord
    BY <1>3, <1>a DEF UpsertMno, DbTypeOK, FileRecord
  <2>3. FrameOf(r)'
    BY <1>3, <1>a, ServiceInNat DEF UpsertMno, FrameOf, FilePhase, UploadRecord, FileRecord
  <2>4. UpTypeOK' /\ FileTypeOK' /\ FrameOK'
    BY <1>3, <1>a, <2>1, <2>2, <2>3, FrameOfOneRequest DEF UpsertMno, UpTypeOK, FileTypeOK
  <2>5. DbTypeOK'
    BY <1>3 DEF UpsertMno, DbTypeOK
  <2>6. QED BY <1>3, <2>4, <2>5 DEF UpsertMno, AdmTypeOK, AdminFrameOK, AdminFrameOf
<1>4. CASE LoadOverrides(r)
  <2>1. up'[r] \in UploadRecord /\ FrameOf(r)'
    BY <1>4, <1>a DEF LoadOverrides, UploadRecord, FileRecord, UploadPhase, FrameOf, FilePhase
  <2>2. file[r].mno \in Mno
    BY <1>4, <1>a DEF LoadOverrides, FrameOf, FilePhase
  <2>3. [s \in Service |-> rule[<<file[r].mno, s>>]] \in [Service -> Holder]
    BY <2>2 DEF DbTypeOK, Key
  <2>4. file'[r] \in FileRecord
    BY <1>4, <1>a, <2>3 DEF LoadOverrides, FileRecord
  <2>5. UpTypeOK' /\ FileTypeOK' /\ FrameOK'
    BY <1>4, <1>a, <2>1, <2>4, FrameOfOneRequest DEF LoadOverrides, UpTypeOK, FileTypeOK
  <2>6. QED BY <1>4, <2>5 DEF LoadOverrides, DbTypeOK, AdmTypeOK, AdminFrameOK, AdminFrameOf
<1>5. CASE CheckFirstUpload(r)
  <2>1. IsFirstIr21Upload(r) \in BOOLEAN
    BY DEF IsFirstIr21Upload, Stale
  <2>2. up'[r] \in UploadRecord /\ file'[r] \in FileRecord /\ FrameOf(r)'
    BY <1>5, <1>a, <2>1 DEF CheckFirstUpload, UploadRecord, FileRecord, UploadPhase, FrameOf, FilePhase
  <2>3. UpTypeOK' /\ FileTypeOK' /\ FrameOK'
    BY <1>5, <1>a, <2>2, FrameOfOneRequest DEF CheckFirstUpload, UpTypeOK, FileTypeOK
  <2>4. QED BY <1>5, <2>3 DEF CheckFirstUpload, DbTypeOK, AdmTypeOK, AdminFrameOK, AdminFrameOf
<1>6. ASSUME NEW d \in Declared, ReadExisting(r, d) PROVE TypeInv'
  <2>1. KeyOf(r) \in Key /\ OldProvider(r) \in Holder /\ Null \in Declared \cup {Null}
    BY <1>6, KeyOfInKey, OldProviderInHolder DEF ReadExisting, FilePhase
  <2>2. up'[r] \in UploadRecord
    <3> DEFINE w == IF decl[KeyOf(r)] = Null THEN up[r].was
                    ELSE [up[r].was EXCEPT ![KeyOf(r)] = decl[KeyOf(r)]]
    <3>1. w \in [Key -> Declared \cup {Null}]
      BY <1>a, <2>1 DEF DbTypeOK, UploadRecord
    <3>2. up'[r] = [up[r] EXCEPT !.pc = IF EffectiveProvider(r, d) = Null THEN "record" ELSE "write",
                                 !.was = w]
      BY <1>6, <1>a DEF ReadExisting, UploadRecord
    <3>3. QED BY <1>a, <3>1, <3>2 DEF UploadRecord, UploadPhase
  <2>3. file'[r] \in FileRecord
    BY <1>6, <1>a, <2>1 DEF ReadExisting, FileRecord
  <2>4. FrameOf(r)'
    BY <1>6, <1>a DEF ReadExisting, UploadRecord, FileRecord, FrameOf, FilePhase
  <2>5. UpTypeOK' /\ FileTypeOK' /\ FrameOK'
    BY <1>6, <1>a, <2>2, <2>3, <2>4, FrameOfOneRequest DEF ReadExisting, UpTypeOK, FileTypeOK
  <2>6. DbTypeOK'
    BY <1>6, <2>1 DEF ReadExisting, SettleDeclaration, DbTypeOK
  <2>7. QED BY <1>6, <2>5, <2>6 DEF ReadExisting, AdmTypeOK, AdminFrameOK, AdminFrameOf
<1>7. CASE SkipUnmapped(r)
  <2>1. KeyOf(r) \in Key
    BY <1>7, KeyOfInKey DEF SkipUnmapped, FilePhase
  <2>2. UpTypeOK' /\ FileTypeOK' /\ FrameOK'
    BY <1>7, AdvanceTypes DEF SkipUnmapped, FilePhase
  <2>3. DbTypeOK'
    BY <1>7, <2>1 DEF SkipUnmapped, SettleDeclaration, DbTypeOK, Declared
  <2>4. QED BY <1>7, <2>2, <2>3 DEF SkipUnmapped, AdmTypeOK, AdminFrameOK, AdminFrameOf
<1>8. CASE WriteConnectivity(r)
  <2>1. KeyOf(r) \in Key /\ EffectiveProvider(r, file[r].declared) \in Holder
        /\ PinnedFlag(r) \in BOOLEAN
    BY <1>8, KeyOfInKey, EffectiveProviderInHolder DEF WriteConnectivity, FilePhase, PinnedFlag
  <2>2. up'[r] \in UploadRecord /\ FrameOf(r)'
    BY <1>8, <1>a DEF WriteConnectivity, UploadRecord, UploadPhase, FrameOf, FilePhase
  <2>3. UpTypeOK' /\ FrameOK'
    BY <1>8, <1>a, <2>2, FrameOfOneRequest DEF WriteConnectivity, UpTypeOK
  <2>4. DbTypeOK'
    BY <1>8, <2>1 DEF WriteConnectivity, DbTypeOK
  <2>5. QED BY <1>8, <2>3, <2>4 DEF WriteConnectivity, FileTypeOK, AdmTypeOK, AdminFrameOK, AdminFrameOf
<1>9. CASE RecordChange(r)
  <2> DEFINE old == file[r].old
             new == EffectiveProvider(r, file[r].declared)
             row == [type |-> ChangeType(old, new), old |-> old, new |-> new,
                     onboarding |-> ChangeType(old, new) = "ADDED" /\ file[r].first]
  <2>1. KeyOf(r) \in Key /\ old \in Holder /\ new \in Holder
    BY <1>9, <1>a, KeyOfInKey, EffectiveProviderInHolder DEF RecordChange, FilePhase, FileRecord
  <2>2. row \in ChangeRow
    BY <2>1, <1>a DEF ChangeRow, ChangeType, FileRecord
  <2>3. UpTypeOK' /\ FileTypeOK' /\ FrameOK'
    BY <1>9, AdvanceTypes DEF RecordChange, FilePhase
  <2>4. log' \in [Key -> Seq(ChangeRow)]
    <3>1. \/ log' = log
          \/ log' = [log EXCEPT ![KeyOf(r)] = Append(@, row)]
      BY <1>9 DEF RecordChange
    <3>2. Append(log[KeyOf(r)], row) \in Seq(ChangeRow)
      BY <2>1, <2>2 DEF DbTypeOK
    <3>3. QED BY <3>1, <3>2, <2>1 DEF DbTypeOK
  <2>5. DbTypeOK'
    BY <1>9, <1>a, <2>1, <2>4 DEF RecordChange, SettleDeclaration, DbTypeOK, FileRecord
  <2>6. QED BY <1>9, <2>3, <2>5 DEF RecordChange, AdmTypeOK, AdminFrameOK, AdminFrameOf
<1>10. CASE SaveSnapshot(r)
  <2>1. UpTypeOK' /\ FileTypeOK' /\ FrameOK'
    BY <1>10, CloseTypes DEF SaveSnapshot
  <2>2. file[r].mno \in Mno
    BY <1>10, <1>a DEF SaveSnapshot, FrameOf, FilePhase
  <2>3. DbTypeOK'
    BY <1>10, <2>2 DEF SaveSnapshot, DbTypeOK
  <2>4. QED BY <1>10, <2>1, <2>3 DEF SaveSnapshot, AdmTypeOK, AdminFrameOK, AdminFrameOf
<1>11. CASE FileFails(r)
  <2>1. UpTypeOK' /\ FileTypeOK' /\ FrameOK'
    BY <1>11, CloseTypes DEF FileFails
  <2>2. Unrecorded(r) => KeyOf(r) \in Key
    BY KeyOfInKey DEF Unrecorded, FilePhase
  <2>3. DbTypeOK'
    BY <1>11, <1>a, <2>2 DEF FileFails, DbTypeOK
  <2>4. QED BY <1>11, <2>1, <2>3 DEF FileFails, AdmTypeOK, AdminFrameOK, AdminFrameOf
<1>12. CASE FinishUpload(r)
  <2>1. up'[r] \in UploadRecord /\ FrameOf(r)'
    BY <1>12, <1>a, IdleUploadType DEF FinishUpload, FrameOf, FilePhase, IdleUpload
  <2>2. UpTypeOK' /\ FrameOK'
    BY <1>12, <1>a, <2>1, FrameOfOneRequest DEF FinishUpload, UpTypeOK
  <2>3. DbTypeOK'
    BY <1>12 DEF FinishUpload, DbTypeOK
  <2>4. QED BY <1>12, <2>2, <2>3 DEF FinishUpload, FileTypeOK, AdmTypeOK, AdminFrameOK, AdminFrameOf
<1>13. CASE UploadFails(r)
  <2>1. up'[r] \in UploadRecord /\ FrameOf(r)'
    BY <1>13, <1>a, IdleUploadType DEF UploadFails, FrameOf, FilePhase, IdleUpload
  <2>2. UpTypeOK' /\ FrameOK'
    BY <1>13, <1>a, <2>1, FrameOfOneRequest DEF UploadFails, UpTypeOK
  <2>3. DbTypeOK'
    BY <1>13 DEF UploadFails, DbTypeOK
  <2>4. QED BY <1>13, <2>2, <2>3 DEF UploadFails, FileTypeOK, AdmTypeOK, AdminFrameOK, AdminFrameOf
<1>14. QED
  BY <1>1, <1>2, <1>3, <1>4, <1>5, <1>6, <1>7, <1>8, <1>9, <1>10, <1>11, <1>12, <1>13 DEF UploadStep

LEMMA AdminTypeInv ==
    ASSUME TypeInv, NEW a \in Admin, AdminStep(a)
    PROVE  TypeInv'
<1> USE DEF TypeInv, db, bounds, observers
<1>a. adm[a] \in AdminRecord /\ AdminFrameOf(a) /\ adm = [b \in Admin |-> adm[b]]
  BY DEF AdmTypeOK, AdminFrameOK
<1>b. AdminFrameOf(a)' /\ adm'[a] \in AdminRecord => AdmTypeOK' /\ AdminFrameOK'
  <2>1. \A b \in Admin \ {a} : adm'[b] = adm[b]
    BY DEF AdminStep, UpsertRule, PinRow, DeleteRule, UnpinRow, EditFails, AdmTypeOK
  <2>2. DOMAIN adm' = Admin /\ adm' = [b \in Admin |-> adm'[b]]
    BY <1>a DEF AdminStep, UpsertRule, PinRow, DeleteRule, UnpinRow, EditFails, AdmTypeOK
  <2>3. QED BY <2>1, <2>2, FrameOfOneAdmin DEF AdmTypeOK
<1>c. UNCHANGED <<up, file>>
  BY DEF AdminStep, UpsertRule, PinRow, DeleteRule, UnpinRow, EditFails
<1>d. UpTypeOK' /\ FileTypeOK' /\ FrameOK'
  BY <1>c DEF UpTypeOK, FileTypeOK, FrameOK, FrameOf
<1>e. adm'[a] = IdleAdmin => AdmTypeOK' /\ AdminFrameOK'
  BY <1>b, IdleAdminType DEF IdleAdmin, AdminFrameOf
<1>1. CASE UpsertRule(a)
  <2>1. adm'[a] \in AdminRecord /\ AdminFrameOf(a)'
    BY <1>1, <1>a DEF UpsertRule, AdminRecord, AdminPhase, AdminFrameOf
  <2>2. adm[a].key \in Key /\ adm[a].to \in Provider
    BY <1>1, <1>a DEF UpsertRule, AdminFrameOf
  <2>3. DbTypeOK'
    BY <1>1, <1>a, <2>2 DEF UpsertRule, DbTypeOK, AdminRecord, Holder
  <2>4. QED BY <1>b, <1>d, <2>1, <2>3
<1>2. CASE PinRow(a)
  <2>1. adm'[a] = IdleAdmin
    BY <1>2, <1>a DEF PinRow
  <2>2. DbTypeOK'
    BY <1>2, <1>a DEF PinRow, DbTypeOK, AdminFrameOf, Holder
  <2>3. QED BY <1>d, <1>e, <2>1, <2>2
<1>3. CASE DeleteRule(a)
  <2>1. adm'[a] \in AdminRecord /\ AdminFrameOf(a)'
    BY <1>3, <1>a DEF DeleteRule, AdminRecord, AdminPhase, AdminFrameOf
  <2>2. DbTypeOK'
    BY <1>3 DEF DeleteRule, DbTypeOK, Holder
  <2>3. QED BY <1>b, <1>d, <2>1, <2>2
<1>4. CASE UnpinRow(a)
  <2>1. adm'[a] = IdleAdmin
    BY <1>4, <1>a DEF UnpinRow
  <2>2. DbTypeOK'
    BY <1>4, <1>a DEF UnpinRow, DbTypeOK, AdminFrameOf, Holder
  <2>3. QED BY <1>d, <1>e, <2>1, <2>2
<1>5. CASE EditFails(a)
  <2>1. adm'[a] = IdleAdmin
    BY <1>5, <1>a DEF EditFails
  <2>2. DbTypeOK'
    BY <1>5 DEF EditFails, DbTypeOK
  <2>3. QED BY <1>d, <1>e, <2>1, <2>2
<1>6. QED BY <1>1, <1>2, <1>3, <1>4, <1>5 DEF AdminStep

LEMMA NextTypeInv == TypeInv /\ [Next]_vars => TypeInv'
<1> SUFFICES ASSUME TypeInv, [Next]_vars PROVE TypeInv'
  OBVIOUS
<1> USE DEF TypeInv, db, bounds, observers
<1>1. ASSUME NEW r \in Upload, NEW replace \in BOOLEAN, StartUpload(r, replace)
      PROVE  TypeInv'
  <2>1. up'[r] \in UploadRecord
    BY <1>1, IdleUploadType DEF StartUpload, UpTypeOK, FirstPhase, UploadRecord, UploadPhase
  <2>2. FrameOf(r)'
    BY <1>1 DEF StartUpload, UpTypeOK, FirstPhase, FrameOK, FrameOf, FilePhase, IdleUpload
  <2>3. UpTypeOK' /\ FrameOK'
    BY <1>1, <2>1, <2>2, FrameOfOneRequest DEF StartUpload, UpTypeOK
  <2>4. DbTypeOK'
    BY <1>1 DEF StartUpload, DbTypeOK
  <2>5. QED BY <1>1, <2>3, <2>4 DEF StartUpload, FileTypeOK, AdmTypeOK, AdminFrameOK, AdminFrameOf
<1>2. ASSUME NEW a \in Admin, NEW k \in Key, NEW p \in Provider,
             NEW text \in Provider \cup {Unmapped}, SaveOverride(a, k, p, text)
      PROVE  TypeInv'
  <2>1. adm'[a] \in AdminRecord /\ AdminFrameOf(a)'
    BY <1>2 DEF SaveOverride, AdmTypeOK, AdminRecord, AdminPhase, AdminFrameOf, Holder, DbTypeOK
  <2>2. AdmTypeOK' /\ AdminFrameOK'
    BY <1>2, <2>1, FrameOfOneAdmin DEF SaveOverride, AdmTypeOK
  <2>3. QED BY <1>2, <2>2 DEF SaveOverride, DbTypeOK, UpTypeOK, FileTypeOK, FrameOK, FrameOf
<1>3. ASSUME NEW a \in Admin, NEW k \in Key, StartRevert(a, k)
      PROVE  TypeInv'
  <2>1. adm'[a] \in AdminRecord /\ AdminFrameOf(a)'
    BY <1>3 DEF StartRevert, AdmTypeOK, AdminRecord, AdminPhase, AdminFrameOf, Holder, DbTypeOK
  <2>2. AdmTypeOK' /\ AdminFrameOK'
    BY <1>3, <2>1, FrameOfOneAdmin DEF StartRevert, AdmTypeOK
  <2>3. QED BY <1>3, <2>2 DEF StartRevert, DbTypeOK, UpTypeOK, FileTypeOK, FrameOK, FrameOf
<1>4. CASE ResetDatabase
  <2>1. DbTypeOK'
    BY <1>4, NoProvidersType DEF ResetDatabase, DbTypeOK
  <2>2. QED BY <1>4, <2>1 DEF ResetDatabase, UpTypeOK, FileTypeOK, AdmTypeOK, FrameOK, FrameOf,
                              AdminFrameOK, AdminFrameOf
<1>5. CASE Crash
  <2>1. UpTypeOK' /\ FileTypeOK' /\ AdmTypeOK'
    BY <1>5, IdleUploadType, NoFileType, IdleAdminType DEF Crash, UpTypeOK, FileTypeOK, AdmTypeOK
  <2>2. FrameOK' /\ AdminFrameOK'
    BY <1>5 DEF Crash, FrameOK, FrameOf, AdminFrameOK, AdminFrameOf, IdleUpload, NoFile,
                IdleAdmin, FilePhase
  <2>3. {KeyOf(r) : r \in {x \in Upload : Unrecorded(x)}} \subseteq Key
    BY KeyOfInKey DEF Unrecorded, FilePhase
  <2>4. DbTypeOK'
    BY <1>5, <2>3 DEF Crash, DbTypeOK
  <2>5. QED BY <2>1, <2>2, <2>4
<1>6. CASE UNCHANGED vars
  BY <1>6 DEF vars, DbTypeOK, UpTypeOK, FileTypeOK, AdmTypeOK, FrameOK, FrameOf, AdminFrameOK,
              AdminFrameOf
<1>7. ASSUME NEW k \in Key, NEW p \in Provider, RepointRow(k, p) PROVE TypeInv'
  <2>1. DbTypeOK'
    BY <1>7 DEF RepointRow, DbTypeOK, Holder
  <2>2. QED BY <1>7, <2>1 DEF RepointRow, UpTypeOK, FileTypeOK, AdmTypeOK, FrameOK, FrameOf,
                              AdminFrameOK, AdminFrameOf
<1>8. QED
  BY <1>1, <1>2, <1>3, <1>4, <1>5, <1>6, <1>7, UploadTypeInv, AdminTypeInv DEF Next

(* Whatever overlaps, crashes or is reset, every row and every request keeps  *)
(* the shape the code gives it.                                               *)
THEOREM TypeCorrect == Spec => []TypeOK
<1>1. Spec => []TypeInv
  BY InitTypeInv, NextTypeInv, PTL DEF Spec
<1>2. QED BY <1>1, TypeInvImpliesTypeOK, PTL

-----------------------------------------------------------------------------
(* AtMostOneActiveBaseline.                                                  *)

(* The phases in which a replacement has nothing active beside it. *)
AfterWipe == UploadPhase \ {"idle", "preWipe", "wipe"}

(* A replacement is alone, and from its wipe to its end no row is active. *)
BaselineInv ==
    /\ \A q, r \in Upload : Replacing(q) /\ Replacing(r) => q = r
    /\ \A r \in Upload : Replacing(r) /\ up[r].pc \in AfterWipe => activeRows = 0
    /\ AtMostOneActiveBaseline

(* A request that moves between phases on its side of the wipe. *)
LEMMA BaselineKept ==
    ASSUME TypeInv, BaselineInv, NEW r \in Upload,
           \A q \in Upload \ {r} : up'[q] = up[q],
           Replacing(r)' => Replacing(r),
           up'[r].pc \in AfterWipe /\ Replacing(r)' => up[r].pc \in AfterWipe,
           activeRows' \in {0, activeRows}
    PROVE  BaselineInv'
<1>1. \A q \in Upload : Replacing(q)' => Replacing(q)
  BY DEF Replacing
<1>2. ASSUME NEW q \in Upload, Replacing(q)', up'[q].pc \in AfterWipe
      PROVE  activeRows' = 0
  <2>1. Replacing(q) /\ up[q].pc \in AfterWipe
    BY <1>1, <1>2
  <2>2. QED BY <2>1 DEF BaselineInv
<1>3. activeRows' <= 1
  BY DEF BaselineInv, AtMostOneActiveBaseline
<1>4. QED BY <1>1, <1>2, <1>3 DEF BaselineInv, AtMostOneActiveBaseline

(* No step of a request turns an additive upload into a replacement. *)
LEMMA UploadKeepsMode ==
    ASSUME NEW r \in Upload, up[r] \in UploadRecord, up = [q \in Upload |-> up[q]],
           UploadStep(r), ~FinishUpload(r), ~UploadFails(r)
    PROVE  up'[r].replace = up[r].replace
<1>1. CASE ReadPreWipe(r) \/ WipeBaseline(r) \/ LoadOverrides(r) \/ CheckFirstUpload(r)
  BY <1>1 DEF ReadPreWipe, WipeBaseline, LoadOverrides, CheckFirstUpload, UploadRecord
<1>2. ASSUME NEW m \in Mno, UpsertMno(r, m) PROVE up'[r].replace = up[r].replace
  BY <1>2 DEF UpsertMno, UploadRecord
<1>3. ASSUME NEW d \in Declared, ReadExisting(r, d) PROVE up'[r].replace = up[r].replace
  BY <1>3 DEF ReadExisting, UploadRecord
<1>4. CASE SkipUnmapped(r) \/ RecordChange(r)
  BY <1>4 DEF SkipUnmapped, RecordChange, AdvanceService, UploadRecord
<1>5. CASE WriteConnectivity(r) \/ SaveSnapshot(r) \/ FileFails(r)
  BY <1>5 DEF WriteConnectivity, SaveSnapshot, FileFails, CloseFile, UploadRecord
<1>6. QED BY <1>1, <1>2, <1>3, <1>4, <1>5 DEF UploadStep

LEMMA BaselineUploadStep ==
    ASSUME TypeInv, BaselineInv, NEW r \in Upload, UploadStep(r)
    PROVE  BaselineInv'
<1> USE DEF db, bounds, observers
<1>a. up[r] \in UploadRecord /\ up = [q \in Upload |-> up[q]]
  BY DEF TypeInv, UpTypeOK
<1>1. CASE WipeBaseline(r)
  <2>1. activeRows' = 0 /\ \A q \in Upload : Replacing(q)' => Replacing(q)
    BY <1>1, <1>a DEF WipeBaseline, Replacing, UploadRecord
  <2>2. QED
    BY <2>1 DEF BaselineInv, AtMostOneActiveBaseline
<1>2. CASE FinishUpload(r)
  <2>1. up'[r].pc = "idle" /\ \A q \in Upload \ {r} : up'[q] = up[q]
    BY <1>2, <1>a DEF FinishUpload, IdleUpload
  <2>2. CASE up[r].replace
    <3>1. Replacing(r) /\ up[r].pc \in AfterWipe
      BY <1>2, <2>2 DEF FinishUpload, Replacing, AfterWipe, UploadPhase
    <3>2. activeRows' = 1
      BY <1>2, <2>2, <3>1 DEF FinishUpload, Activates, BaselineInv
    <3>3. \A q \in Upload : ~Replacing(q)'
      BY <2>1, <3>1 DEF BaselineInv, Replacing
    <3>4. QED BY <3>2, <3>3 DEF BaselineInv, AtMostOneActiveBaseline
  <2>3. CASE ~up[r].replace
    <3>1. activeRows' = activeRows
      BY <1>2, <2>3 DEF FinishUpload, Activates, TypeInv, DbTypeOK
    <3>2. QED BY <2>1, <3>1, BaselineKept DEF Replacing
  <2>4. QED BY <2>2, <2>3
<1>3. CASE ~WipeBaseline(r) /\ ~FinishUpload(r) /\ ~UploadFails(r)
  <2>1. activeRows' = activeRows /\ \A q \in Upload \ {r} : up'[q] = up[q]
    BY <1>3, <1>a DEF UploadStep, ReadPreWipe, UpsertMno, LoadOverrides, CheckFirstUpload,
       ReadExisting, SkipUnmapped, AdvanceService, WriteConnectivity, RecordChange,
       SaveSnapshot, FileFails, CloseFile
  <2>2. up'[r].replace = up[r].replace
    BY <1>3, <1>a, UploadKeepsMode
  <2>3. up'[r].pc \in AfterWipe => up[r].pc \in AfterWipe
    <3>1. CASE ReadPreWipe(r)
      BY <3>1, <1>a DEF ReadPreWipe, AfterWipe, UploadRecord
    <3>2. CASE ~ReadPreWipe(r)
      BY <1>3, <3>2 DEF UploadStep, UpsertMno, LoadOverrides, CheckFirstUpload, ReadExisting,
         SkipUnmapped, WriteConnectivity, RecordChange, SaveSnapshot, FileFails, FilePhase,
         AfterWipe, UploadPhase
    <3>3. QED BY <3>1, <3>2
  <2>4. up[r].pc # "idle"
    BY <1>3 DEF UploadStep, ReadPreWipe, UpsertMno, LoadOverrides, CheckFirstUpload,
       ReadExisting, SkipUnmapped, WriteConnectivity, RecordChange, SaveSnapshot, FileFails,
       FilePhase
  <2>5. QED BY <2>1, <2>2, <2>3, <2>4, BaselineKept DEF Replacing
<1>4. CASE UploadFails(r)
  <2>1. /\ up'[r].pc = "idle" /\ \A q \in Upload \ {r} : up'[q] = up[q]
        /\ activeRows' = activeRows
    BY <1>4, <1>a DEF UploadFails, IdleUpload
  <2>2. QED BY <2>1, BaselineKept DEF Replacing, AfterWipe, TypeInv, DbTypeOK
<1>5. QED BY <1>1, <1>2, <1>3, <1>4

LEMMA BaselineStep ==
    ASSUME Overlap # "any", TypeInv, BaselineInv, [Next]_vars
    PROVE  BaselineInv'
<1> USE DEF db, bounds, observers
<1>1. ASSUME NEW r \in Upload, NEW replace \in BOOLEAN, StartUpload(r, replace)
      PROVE  BaselineInv'
  <2>1. /\ up[r].pc = "idle" /\ up'[r].pc \notin AfterWipe \ {"files"}
        /\ up'[r].replace = replace /\ (replace => up'[r].pc = "preWipe")
        /\ \A q \in Upload \ {r} : up'[q] = up[q]
        /\ activeRows' = activeRows
    BY <1>1 DEF StartUpload, TypeInv, UpTypeOK, IdleUpload, FirstPhase, AfterWipe
  <2>2. replace => \A q \in Upload : ~Replacing(q)
    BY <1>1, ConstantsAssumption DEF StartUpload, MayOverlap, Replacing
  <2>3. QED
    BY <2>1, <2>2 DEF BaselineInv, Replacing, AfterWipe, AtMostOneActiveBaseline
<1>2. ASSUME NEW a \in Admin, AdminStep(a) PROVE BaselineInv'
  BY <1>2 DEF AdminStep, UpsertRule, PinRow, DeleteRule, UnpinRow, EditFails, BaselineInv,
     Replacing, AtMostOneActiveBaseline
<1>3. ASSUME NEW a \in Admin, NEW k \in Key, NEW p \in Provider,
             NEW text \in Provider \cup {Unmapped},
             SaveOverride(a, k, p, text) \/ StartRevert(a, k)
      PROVE  BaselineInv'
  BY <1>3 DEF SaveOverride, StartRevert, BaselineInv, Replacing, AtMostOneActiveBaseline
<1>4. CASE ResetDatabase
  BY <1>4 DEF ResetDatabase, BaselineInv, Replacing, AtMostOneActiveBaseline
<1>5. CASE Crash
  BY <1>5 DEF Crash, BaselineInv, Replacing, AtMostOneActiveBaseline, IdleUpload
<1>6. CASE UNCHANGED vars
  BY <1>6 DEF vars, BaselineInv, Replacing, AtMostOneActiveBaseline
<1>7. ASSUME NEW a \in Admin, NEW k \in Key, StartRevert(a, k) PROVE BaselineInv'
  BY <1>7 DEF StartRevert, BaselineInv, Replacing, AtMostOneActiveBaseline
<1>8. ASSUME NEW k \in Key, NEW p \in Provider, RepointRow(k, p) PROVE BaselineInv'
  BY <1>8 DEF RepointRow, BaselineInv, Replacing, AtMostOneActiveBaseline
<1>9. QED
  BY <1>1, <1>2, <1>3, <1>4, <1>5, <1>6, <1>7, <1>8, BaselineUploadStep DEF Next

(* As long as two replacements do not overlap, one UploadHistory row at most  *)
(* is the active baseline, whatever else overlaps, crashes or resets.         *)
THEOREM ActiveBaselineUnique ==
    Overlap # "any" => (Spec => []AtMostOneActiveBaseline)
<1> SUFFICES ASSUME Overlap # "any" PROVE Spec => []AtMostOneActiveBaseline
  OBVIOUS
<1>1. Init => TypeInv /\ BaselineInv
  BY InitTypeInv DEF Init, BaselineInv, Replacing, IdleUpload, AtMostOneActiveBaseline
<1>2. TypeInv /\ BaselineInv /\ [Next]_vars => (TypeInv /\ BaselineInv)'
  BY NextTypeInv, BaselineStep
<1>3. BaselineInv => AtMostOneActiveBaseline
  BY DEF BaselineInv
<1>4. QED BY <1>1, <1>2, <1>3, PTL DEF Spec

-----------------------------------------------------------------------------
(* PinnedOnlyByRule.  What a file loaded of the overrides, and what a save is *)
(* about to write, are providers some override has named: everRule only grows. *)

LoadedPhase == {"first", "service", "write", "record"}

RuleKnown == \A k \in Key : rule[k] # Null => rule[k] \in everRule[k]

LoadedKnown(r) ==
    up[r].pc \in LoadedPhase =>
        \A s \in Service : file[r].loaded[s] # Null =>
            file[r].loaded[s] \in everRule[<<file[r].mno, s>>]

EditKnown(a) == adm[a].pc = "saveRow" => adm[a].to \in everRule[adm[a].key]

PinInv ==
    /\ RuleKnown
    /\ \A r \in Upload : LoadedKnown(r)
    /\ \A a \in Admin : EditKnown(a)
    /\ PinnedOnlyByRule

LEMMA PinUploadStep ==
    ASSUME TypeInv, PinInv, NEW r \in Upload, UploadStep(r)
    PROVE  PinInv'
<1> USE DEF db, bounds, observers
<1>a. /\ up[r] \in UploadRecord /\ up = [q \in Upload |-> up[q]]
      /\ file[r] \in FileRecord /\ file = [q \in Upload |-> file[q]] /\ FrameOf(r)
  BY DEF TypeInv, UpTypeOK, FileTypeOK, FrameOK
<1>b. /\ UNCHANGED <<rule, everRule, adm>>
      /\ \A q \in Upload \ {r} : up'[q] = up[q] /\ file'[q] = file[q]
  BY <1>a DEF UploadStep, ReadPreWipe, WipeBaseline, UpsertMno, LoadOverrides, CheckFirstUpload,
     ReadExisting, SkipUnmapped, AdvanceService, WriteConnectivity, RecordChange,
     SaveSnapshot, FileFails, CloseFile, UploadFails, FinishUpload
<1>c. RuleKnown' /\ (\A a \in Admin : EditKnown(a)')
      /\ \A q \in Upload \ {r} : LoadedKnown(q)'
  BY <1>b DEF PinInv, RuleKnown, EditKnown, LoadedKnown
<1>d. LoadedKnown(r)' /\ PinnedOnlyByRule' => PinInv'
  BY <1>c DEF PinInv
<1>e. UNCHANGED <<conn, pinned, moved>> => PinnedOnlyByRule'
  BY <1>b DEF PinInv, PinnedOnlyByRule
<1>f. file'[r].loaded = file[r].loaded /\ file'[r].mno = file[r].mno
      /\ up[r].pc \in LoadedPhase => LoadedKnown(r)'
  BY <1>b DEF PinInv, LoadedKnown
<1>g. up'[r].pc \notin LoadedPhase => LoadedKnown(r)'
  BY DEF LoadedKnown
<1>1. CASE \/ ReadPreWipe(r) \/ SaveSnapshot(r) \/ FileFails(r) \/ UploadFails(r)
           \/ FinishUpload(r) \/ \E m \in Mno : UpsertMno(r, m)
  <2>1. up'[r].pc \in {"wipe", "files", "idle", "overrides"}
    <3>1. CASE ReadPreWipe(r)
      BY <3>1, <1>a DEF ReadPreWipe, UploadRecord
    <3>2. CASE SaveSnapshot(r) \/ FileFails(r)
      BY <3>2, <1>a DEF SaveSnapshot, FileFails, CloseFile, UploadRecord
    <3>3. CASE UploadFails(r) \/ FinishUpload(r)
      BY <3>3, <1>a DEF UploadFails, FinishUpload, IdleUpload
    <3>4. ASSUME NEW m \in Mno, UpsertMno(r, m)
          PROVE  up'[r].pc \in {"wipe", "files", "idle", "overrides"}
      BY <3>4, <1>a DEF UpsertMno, UploadRecord
    <3>5. QED BY <1>1, <3>1, <3>2, <3>3, <3>4
  <2>2. up'[r].pc \notin LoadedPhase
    BY <2>1 DEF LoadedPhase
  <2>3. UNCHANGED <<conn, pinned, moved>>
    BY <1>1 DEF ReadPreWipe, SaveSnapshot, FileFails, UploadFails, FinishUpload, UpsertMno
  <2>4. QED BY <2>2, <2>3, <1>d, <1>e, <1>g
<1>2. CASE WipeBaseline(r)
  <2>1. up'[r].pc \notin LoadedPhase
    BY <1>2, <1>a DEF WipeBaseline, LoadedPhase, UploadRecord
  <2>2. PinnedOnlyByRule'
    BY <1>2 DEF WipeBaseline, PinnedOnlyByRule
  <2>3. QED BY <2>1, <2>2, <1>d, <1>g
<1>3. CASE LoadOverrides(r)
  <2>1. file[r].mno \in Mno
    BY <1>3, <1>a DEF LoadOverrides, FrameOf, FilePhase
  <2>2. /\ file'[r].loaded = [s \in Service |-> rule[<<file[r].mno, s>>]]
        /\ file'[r].mno = file[r].mno
    BY <1>3, <1>a DEF LoadOverrides, FileRecord
  <2>3. LoadedKnown(r)'
    BY <2>1, <2>2, <1>b DEF LoadedKnown, PinInv, RuleKnown, Key
  <2>4. QED BY <1>3, <2>3, <1>d, <1>e DEF LoadOverrides
<1>4. CASE CheckFirstUpload(r)
  <2>1. file'[r].loaded = file[r].loaded /\ file'[r].mno = file[r].mno
    BY <1>4, <1>a DEF CheckFirstUpload, FileRecord
  <2>2. QED BY <1>4, <2>1, <1>d, <1>e, <1>f DEF CheckFirstUpload, LoadedPhase
<1>5. ASSUME NEW d \in Declared, ReadExisting(r, d) PROVE PinInv'
  <2>1. file'[r].loaded = file[r].loaded /\ file'[r].mno = file[r].mno
    BY <1>5, <1>a DEF ReadExisting, FileRecord
  <2>2. QED BY <1>5, <2>1, <1>d, <1>e, <1>f DEF ReadExisting, LoadedPhase
<1>6. CASE SkipUnmapped(r) \/ RecordChange(r)
  <2>1. file'[r].loaded = file[r].loaded /\ file'[r].mno = file[r].mno
    BY <1>6, <1>a DEF SkipUnmapped, RecordChange, AdvanceService, FileRecord
  <2>2. QED BY <1>6, <2>1, <1>d, <1>e, <1>f DEF SkipUnmapped, RecordChange, LoadedPhase
<1>7. CASE WriteConnectivity(r)
  <2>1. KeyOf(r) \in Key /\ file[r].svc \in Service
    BY <1>7, <1>a, KeyOfInKey DEF WriteConnectivity, FrameOf, FilePhase, TypeInv
  <2>2. PinnedFlag(r) => EffectiveProvider(r, file[r].declared) \in everRule[KeyOf(r)]
    BY <1>7, <2>1 DEF WriteConnectivity, PinnedFlag, EffectiveProvider, PinInv, LoadedKnown,
       LoadedPhase, KeyOf
  <2>3. \A k \in Key : IF k = KeyOf(r)
            THEN /\ conn'[k] = EffectiveProvider(r, file[r].declared)
                 /\ pinned'[k] = PinnedFlag(r)
            ELSE /\ conn'[k] = conn[k] /\ pinned'[k] = pinned[k]
                 /\ k \notin moved' => k \notin moved
    BY <1>7, <2>1 DEF WriteConnectivity, TypeInv, DbTypeOK
  <2>4. PinnedOnlyByRule'
    BY <2>2, <2>3, <1>b DEF PinnedOnlyByRule, PinInv
  <2>5. LoadedKnown(r)'
    BY <1>7, <1>b DEF WriteConnectivity, LoadedKnown, LoadedPhase, PinInv
  <2>6. QED BY <2>4, <2>5, <1>d
<1>8. QED
  BY <1>1, <1>2, <1>3, <1>4, <1>5, <1>6, <1>7 DEF UploadStep

LEMMA PinAdminStep ==
    ASSUME TypeInv, PinInv, NEW a \in Admin, AdminStep(a)
    PROVE  PinInv'
<1> USE DEF db, bounds, observers
<1>a. adm = [b \in Admin |-> adm[b]] /\ adm[a] \in AdminRecord /\ AdminFrameOf(a)
  BY DEF TypeInv, AdmTypeOK, AdminFrameOK
<1>b. /\ UNCHANGED <<up, file>>
      /\ \A b \in Admin \ {a} : adm'[b] = adm[b]
  BY <1>a DEF AdminStep, UpsertRule, PinRow, DeleteRule, UnpinRow, EditFails
<1>c. everRule' = everRule =>
        (\A r \in Upload : LoadedKnown(r)') /\ \A b \in Admin \ {a} : EditKnown(b)'
  BY <1>b DEF PinInv, LoadedKnown, EditKnown
<1>1. CASE UpsertRule(a)
  <2>1. adm[a].key \in Key
    BY <1>1, <1>a DEF UpsertRule, AdminFrameOf
  <2>2. /\ \A k \in Key : everRule[k] \subseteq everRule'[k]
        /\ \A k \in Key : rule'[k] # rule[k] => rule'[k] \in everRule'[k]
        /\ adm[a].to \in everRule'[adm[a].key]
        /\ UNCHANGED <<conn, pinned, moved>>
    BY <1>1, <2>1 DEF UpsertRule, TypeInv, DbTypeOK
  <2>3. RuleKnown' /\ PinnedOnlyByRule'
    BY <2>2 DEF PinInv, RuleKnown, PinnedOnlyByRule
  <2>4. ASSUME NEW r \in Upload PROVE LoadedKnown(r)'
    <3>1. up[r].pc \in LoadedPhase => file[r].mno \in Mno
      BY DEF TypeInv, FrameOK, FrameOf, FilePhase, LoadedPhase
    <3>2. LoadedKnown(r)
      BY DEF PinInv
    <3>3. QED BY <3>1, <3>2, <2>2, <1>b DEF LoadedKnown, Key
  <2>5. ASSUME NEW b \in Admin PROVE EditKnown(b)'
    <3>1. CASE b = a
      BY <1>1, <1>a, <2>2, <3>1 DEF UpsertRule, EditKnown, AdminRecord
    <3>2. CASE b # a
      BY <1>b, <2>2, <3>2 DEF EditKnown, PinInv, TypeInv, AdminFrameOK, AdminFrameOf
    <3>3. QED BY <3>1, <3>2
  <2>6. QED BY <2>3, <2>4, <2>5 DEF PinInv
<1>2. CASE PinRow(a)
  <2>1. /\ adm[a].key \in Key /\ adm[a].to \in everRule[adm[a].key]
        /\ UNCHANGED <<rule, everRule>> /\ adm'[a].pc = "idle"
    BY <1>2, <1>a DEF PinRow, AdminFrameOf, PinInv, EditKnown, IdleAdmin
  <2>2. PinnedOnlyByRule'
    BY <1>2, <2>1 DEF PinRow, PinInv, PinnedOnlyByRule, TypeInv, DbTypeOK
  <2>3. QED BY <2>1, <2>2, <1>c DEF PinInv, RuleKnown, EditKnown
<1>3. CASE DeleteRule(a)
  <2>1. /\ UNCHANGED <<everRule, conn, pinned, moved>> /\ adm'[a].pc = "revertRow"
        /\ \A k \in Key : rule'[k] \in {rule[k], Null}
    BY <1>3, <1>a DEF DeleteRule, AdminRecord, TypeInv, DbTypeOK
  <2>2. QED BY <2>1, <1>c DEF PinInv, RuleKnown, EditKnown, PinnedOnlyByRule
<1>4. CASE UnpinRow(a)
  <2>1. /\ UNCHANGED <<rule, everRule>> /\ adm'[a].pc = "idle" /\ adm[a].key \in Key
    BY <1>4, <1>a DEF UnpinRow, IdleAdmin, AdminFrameOf
  <2>2. \A k \in Key : pinned'[k] /\ k \notin moved' =>
            pinned[k] /\ k \notin moved /\ conn'[k] = conn[k]
    BY <1>4, <2>1 DEF UnpinRow, TypeInv, DbTypeOK
  <2>3. QED BY <2>1, <2>2, <1>c DEF PinInv, RuleKnown, EditKnown, PinnedOnlyByRule
<1>5. CASE EditFails(a)
  <2>1. UNCHANGED <<rule, everRule, conn, pinned, moved>> /\ adm'[a].pc = "idle"
    BY <1>5, <1>a DEF EditFails, IdleAdmin
  <2>2. QED BY <2>1, <1>c DEF PinInv, RuleKnown, EditKnown, PinnedOnlyByRule
<1>6. QED BY <1>1, <1>2, <1>3, <1>4, <1>5 DEF AdminStep

LEMMA PinStep ==
    ASSUME TypeInv, PinInv, [Next]_vars
    PROVE  PinInv'
<1> USE DEF db, bounds, observers, PinInv, RuleKnown, PinnedOnlyByRule
<1>1. ASSUME NEW r \in Upload, NEW replace \in BOOLEAN, StartUpload(r, replace)
      PROVE  PinInv'
  <2>1. up'[r].pc \notin LoadedPhase /\ \A q \in Upload \ {r} : up'[q] = up[q]
    BY <1>1 DEF StartUpload, TypeInv, UpTypeOK, IdleUpload, FirstPhase, LoadedPhase
  <2>2. QED BY <1>1, <2>1 DEF StartUpload, LoadedKnown, EditKnown
<1>2. ASSUME NEW a \in Admin, NEW k \in Key, NEW p \in Provider,
             NEW text \in Provider \cup {Unmapped}, SaveOverride(a, k, p, text)
      PROVE  PinInv'
  <2>1. adm'[a].pc = "saveRule" /\ \A b \in Admin \ {a} : adm'[b] = adm[b]
    BY <1>2 DEF SaveOverride, TypeInv, AdmTypeOK
  <2>2. QED BY <1>2, <2>1 DEF SaveOverride, LoadedKnown, EditKnown
<1>3. ASSUME NEW a \in Admin, NEW k \in Key, StartRevert(a, k) PROVE PinInv'
  <2>1. adm'[a].pc = "delete" /\ \A b \in Admin \ {a} : adm'[b] = adm[b]
    BY <1>3 DEF StartRevert, TypeInv, AdmTypeOK
  <2>2. QED BY <1>3, <2>1 DEF StartRevert, LoadedKnown, EditKnown
<1>4. CASE ResetDatabase
  BY <1>4 DEF ResetDatabase, LoadedKnown, EditKnown, NoProviders
<1>5. CASE Crash
  BY <1>5 DEF Crash, LoadedKnown, EditKnown, IdleUpload, IdleAdmin, LoadedPhase
<1>6. CASE UNCHANGED vars
  BY <1>6 DEF vars, LoadedKnown, EditKnown
<1>7. ASSUME NEW k \in Key, NEW p \in Provider, RepointRow(k, p) PROVE PinInv'
  <2>1. \A j \in Key : j \notin moved' =>
            j \notin moved /\ conn'[j] = conn[j] /\ pinned'[j] = pinned[j]
    BY <1>7 DEF RepointRow, TypeInv, DbTypeOK
  <2>2. QED BY <1>7, <2>1 DEF RepointRow, LoadedKnown, EditKnown
<1>8. QED
  BY <1>1, <1>2, <1>3, <1>4, <1>5, <1>6, <1>7, PinUploadStep, PinAdminStep DEF Next

(* However uploads, edits, resets, crashes and alias triage interleave, a row *)
(* shown as a manual override holds a provider an admin chose for it, unless   *)
(* triage was the last to write it: every breach of schema.prisma:343-346 is a *)
(* row triage repointed, and the next write by an upload or an override ends it. *)
THEOREM PinsComeFromRules == Spec => []PinnedOnlyByRule
<1>1. Init => TypeInv /\ PinInv
  BY InitTypeInv DEF Init, PinInv, RuleKnown, LoadedKnown, EditKnown, PinnedOnlyByRule,
     NoProviders, IdleUpload, IdleAdmin, LoadedPhase
<1>2. TypeInv /\ PinInv /\ [Next]_vars => (TypeInv /\ PinInv)'
  BY NextTypeInv, PinStep
<1>3. PinInv => PinnedOnlyByRule
  BY DEF PinInv
<1>4. QED BY <1>1, <1>2, <1>3, PTL DEF Spec

-----------------------------------------------------------------------------
(* BaselineLoadIsNotChurn.  A snapshot row is written only once a file is     *)
(* applied in full, so an MNO still missing from parsed was missing from snap *)
(* when the request looked.                                                   *)

FirstInv ==
    /\ snap \subseteq parsed
    /\ \A r \in Upload : file[r].epoch <= epoch
    /\ \A r \in Upload :
          up[r].pc \in {"service", "write", "record"} /\ ~Stale(r)
             /\ file[r].mno \notin parsed => file[r].first

LEMMA FirstUploadStep ==
    ASSUME TypeInv, FirstInv, NEW r \in Upload, UploadStep(r)
    PROVE  FirstInv'
<1> USE DEF db, bounds, observers
<1> DEFINE OpenFile(q) == up[q].pc \in {"service", "write", "record"} /\ ~Stale(q)
                          /\ file[q].mno \notin parsed
<1>a. /\ up[r] \in UploadRecord /\ up = [q \in Upload |-> up[q]]
      /\ file[r] \in FileRecord /\ file = [q \in Upload |-> file[q]]
  BY DEF TypeInv, UpTypeOK, FileTypeOK
<1>b. /\ UNCHANGED epoch /\ parsed \subseteq parsed'
      /\ \A q \in Upload \ {r} : up'[q] = up[q] /\ file'[q] = file[q]
  BY <1>a DEF UploadStep, ReadPreWipe, WipeBaseline, UpsertMno, LoadOverrides, CheckFirstUpload,
     ReadExisting, SkipUnmapped, AdvanceService, WriteConnectivity, RecordChange,
     SaveSnapshot, FileFails, CloseFile, UploadFails, FinishUpload
<1>c. \A q \in Upload \ {r} : OpenFile(q)' => file'[q].first
  BY <1>b DEF FirstInv, Stale
<1>d. snap' \subseteq parsed'
  BY DEF FirstInv, UploadStep, ReadPreWipe, WipeBaseline, UpsertMno, LoadOverrides,
     CheckFirstUpload, ReadExisting, SkipUnmapped, WriteConnectivity, RecordChange,
     SaveSnapshot, FileFails, UploadFails, FinishUpload
<1>e. \A q \in Upload : file'[q].epoch <= epoch'
  <2>1. file'[r].epoch \in {0, epoch, file[r].epoch}
    <3>1. ASSUME NEW m \in Mno, UpsertMno(r, m) PROVE file'[r].epoch = epoch
      BY <3>1, <1>a DEF UpsertMno, FileRecord
    <3>2. ASSUME NEW d \in Declared, ReadExisting(r, d) PROVE file'[r].epoch = file[r].epoch
      BY <3>2, <1>a DEF ReadExisting, FileRecord
    <3>3. SaveSnapshot(r) \/ FileFails(r) => file'[r].epoch = 0
      BY <1>a DEF SaveSnapshot, FileFails, CloseFile, NoFile
    <3>4. LoadOverrides(r) \/ CheckFirstUpload(r) \/ SkipUnmapped(r) \/ RecordChange(r)
            => file'[r].epoch = file[r].epoch
      BY <1>a DEF LoadOverrides, CheckFirstUpload, SkipUnmapped, RecordChange, AdvanceService,
         FileRecord
    <3>5. ReadPreWipe(r) \/ WipeBaseline(r) \/ WriteConnectivity(r) \/ UploadFails(r)
            \/ FinishUpload(r) => file' = file
      BY DEF ReadPreWipe, WipeBaseline, WriteConnectivity, UploadFails, FinishUpload
    <3>6. QED BY <3>1, <3>2, <3>3, <3>4, <3>5 DEF UploadStep
  <2>2. epoch \in Nat /\ epoch' = epoch
    BY <1>b DEF TypeInv, DbTypeOK
  <2>3. QED BY <1>b, <2>1, <2>2 DEF FirstInv
<1>f. (OpenFile(r)' => file'[r].first) => FirstInv'
  BY <1>c, <1>d, <1>e DEF FirstInv
<1>1. CASE ReadPreWipe(r) \/ WipeBaseline(r) \/ LoadOverrides(r)
  <2>1. up'[r].pc \in {"wipe", "files", "first"}
    BY <1>1, <1>a DEF ReadPreWipe, WipeBaseline, LoadOverrides, UploadRecord
  <2>2. QED BY <2>1, <1>f
<1>2. CASE SaveSnapshot(r) \/ FileFails(r) \/ UploadFails(r) \/ FinishUpload(r)
  <2>1. up'[r].pc \in {"files", "idle"}
    BY <1>2, <1>a DEF SaveSnapshot, FileFails, CloseFile, UploadFails, FinishUpload, IdleUpload,
       UploadRecord
  <2>2. QED BY <2>1, <1>f
<1>3. ASSUME NEW m \in Mno, UpsertMno(r, m) PROVE FirstInv'
  <2>1. up'[r].pc = "overrides"
    BY <1>3, <1>a DEF UpsertMno, UploadRecord
  <2>2. QED BY <2>1, <1>f
<1>4. CASE CheckFirstUpload(r)
  <2>1. /\ file'[r].first = IsFirstIr21Upload(r)
        /\ file'[r].mno = file[r].mno /\ file'[r].epoch = file[r].epoch /\ parsed' = parsed
    BY <1>4, <1>a DEF CheckFirstUpload, FileRecord
  <2>2. QED BY <2>1, <1>b, <1>f DEF IsFirstIr21Upload, FirstInv, Stale
<1>5. ASSUME NEW d \in Declared, ReadExisting(r, d) PROVE FirstInv'
  <2>1. /\ file'[r].first = file[r].first /\ file'[r].mno = file[r].mno
        /\ file'[r].epoch = file[r].epoch /\ parsed' = parsed /\ up[r].pc = "service"
    BY <1>5, <1>a DEF ReadExisting, FileRecord
  <2>2. QED BY <2>1, <1>b, <1>f DEF FirstInv, Stale
<1>6. CASE SkipUnmapped(r) \/ WriteConnectivity(r) \/ RecordChange(r)
  <2>1. /\ file'[r].first = file[r].first /\ file'[r].mno = file[r].mno
        /\ file'[r].epoch = file[r].epoch /\ parsed' = parsed
        /\ up[r].pc \in {"service", "write", "record"}
    BY <1>6, <1>a DEF SkipUnmapped, WriteConnectivity, RecordChange, AdvanceService, FileRecord
  <2>2. QED BY <2>1, <1>b, <1>f DEF FirstInv, Stale
<1>7. QED BY <1>1, <1>2, <1>3, <1>4, <1>5, <1>6 DEF UploadStep

LEMMA FirstStep ==
    ASSUME TypeInv, FirstInv, [Next]_vars
    PROVE  FirstInv'
<1> USE DEF db, bounds, observers
<1>1. ASSUME NEW r \in Upload, NEW replace \in BOOLEAN, StartUpload(r, replace)
      PROVE  FirstInv'
  <2>1. /\ \A q \in Upload \ {r} : up'[q] = up[q]
        /\ up'[r].pc \in {"preWipe", "files"} /\ UNCHANGED <<file, snap, parsed, epoch>>
    BY <1>1 DEF StartUpload, TypeInv, UpTypeOK, IdleUpload, FirstPhase
  <2>2. QED BY <2>1 DEF FirstInv, Stale
<1>2. ASSUME NEW a \in Admin, AdminStep(a) PROVE FirstInv'
  BY <1>2 DEF AdminStep, UpsertRule, PinRow, DeleteRule, UnpinRow, EditFails, FirstInv, Stale
<1>3. ASSUME NEW a \in Admin, NEW k \in Key, NEW p \in Provider,
             NEW text \in Provider \cup {Unmapped}, SaveOverride(a, k, p, text)
      PROVE  FirstInv'
  BY <1>3 DEF SaveOverride, FirstInv, Stale
<1>4. ASSUME NEW a \in Admin, NEW k \in Key, StartRevert(a, k) PROVE FirstInv'
  BY <1>4 DEF StartRevert, FirstInv, Stale
<1>5. CASE ResetDatabase
  <2>1. /\ snap' = {} /\ parsed' = {} /\ epoch' = epoch + 1 /\ UNCHANGED <<up, file>>
        /\ epoch \in Nat /\ \A r \in Upload : file[r].epoch \in Nat
    BY <1>5 DEF ResetDatabase, TypeInv, DbTypeOK, FileTypeOK, FileRecord
  <2>2. \A r \in Upload : file'[r].epoch <= epoch' /\ file'[r].epoch # epoch'
    BY <2>1 DEF FirstInv
  <2>3. QED BY <2>1, <2>2 DEF FirstInv, Stale
<1>6. CASE Crash
  BY <1>6 DEF Crash, FirstInv, IdleUpload, NoFile, TypeInv, DbTypeOK
<1>7. CASE UNCHANGED vars
  BY <1>7 DEF vars, FirstInv, Stale
<1>8. ASSUME NEW k \in Key, NEW p \in Provider, RepointRow(k, p) PROVE FirstInv'
  BY <1>8 DEF RepointRow, FirstInv, Stale
<1>9. QED
  BY <1>1, <1>2, <1>3, <1>4, <1>5, <1>6, <1>7, <1>8, FirstUploadStep DEF Next

LEMMA FirstGain ==
    ASSUME TypeInv, FirstInv, [Next]_vars, NEW k \in Key, Gains(k), k[1] \notin parsed
    PROVE  log'[k][Len(log'[k])].onboarding
<1> USE DEF db, bounds, observers
<1>a. log \in [Key -> Seq(ChangeRow)] /\ Len(log[k]) \in Nat
  BY DEF TypeInv, DbTypeOK
<1>b. log' # log
  BY <1>a DEF Gains
<1>1. ~ResetDatabase
  <2>1. ResetDatabase => Len(log'[k]) = 0
    BY DEF ResetDatabase
  <2>2. QED BY <1>a, <2>1 DEF Gains
<1>2. PICK r \in Upload : RecordChange(r)
  <2>1. UNCHANGED log \/ \E r \in Upload : RecordChange(r)
    BY <1>1 DEF Next, vars, StartUpload, SaveOverride, StartRevert, RepointRow, AdminStep, UpsertRule, PinRow,
       DeleteRule, UnpinRow, EditFails, Crash, UploadStep, ReadPreWipe, WipeBaseline, UpsertMno,
       LoadOverrides, CheckFirstUpload, ReadExisting, SkipUnmapped, WriteConnectivity,
       SaveSnapshot, FileFails, UploadFails, FinishUpload
  <2>2. QED BY <1>b, <2>1
<1> DEFINE old == file[r].old
           new == EffectiveProvider(r, file[r].declared)
           row == [type |-> ChangeType(old, new), old |-> old, new |-> new,
                   onboarding |-> ChangeType(old, new) = "ADDED" /\ file[r].first]
<1>3. /\ up[r].pc = "record" /\ ~Stale(r) /\ KeyOf(r) \in Key
      /\ log' = [log EXCEPT ![KeyOf(r)] = Append(@, row)]
  BY <1>b, <1>2, KeyOfInKey DEF RecordChange, FilePhase, TypeInv
<1>4. k = KeyOf(r)
  <2>1. CASE k # KeyOf(r)
    <3>1. log'[k] = log[k]
      BY <1>a, <1>3, <2>1
    <3>2. QED BY <1>a, <3>1 DEF Gains
  <2>2. QED BY <2>1
<1>5. log'[k][Len(log'[k])] = row
  <2>1. log'[k] = Append(log[k], row)
    BY <1>a, <1>3, <1>4
  <2>2. QED BY <1>a, <2>1
<1>6. row.type = "ADDED"
  BY <1>5 DEF Gains
<1>7. file[r].first
  BY <1>3, <1>4 DEF FirstInv, KeyOf
<1>8. row.onboarding = TRUE
  BY <1>6, <1>7
<1>9. QED BY <1>5, <1>8

(* However often the first load of an MNO is interrupted and retried, and     *)
(* whatever overlaps it, none of its gains is logged as churn.                *)
THEOREM FirstLoadIsNotChurn == Spec => BaselineLoadIsNotChurn
<1> DEFINE NotChurn == \A k \in Key : Gains(k) /\ k[1] \notin parsed =>
                           log'[k][Len(log'[k])].onboarding
<1>1. Init => TypeInv /\ FirstInv
  BY InitTypeInv DEF Init, FirstInv, IdleUpload, NoFile
<1>2. TypeInv /\ FirstInv /\ [Next]_vars => (TypeInv /\ FirstInv)'
  BY NextTypeInv, FirstStep
<1>3. TypeInv /\ FirstInv /\ [Next]_vars => [NotChurn]_vars
  BY FirstGain
<1>4. QED BY <1>1, <1>2, <1>3, PTL DEF Spec, BaselineLoadIsNotChurn
=============================================================================
