------------------------ MODULE ProviderAliasesProofs ------------------------
(* Proofs about ProviderAliases, and about the views over it, for every value  *)
(* of their constants.                                                         *)
EXTENDS CarrierViews, FiniteSetTheorems, TLAPS

-----------------------------------------------------------------------------
(* The invariant, in parts.                                                    *)

DbTypeOK ==
    /\ providers \subseteq used /\ used \subseteq Provider /\ Seeded \subseteq used
    /\ alias \in [Text -> Holder] /\ queue \in [Text -> Variant \cup {Null}]
    /\ mnos \subseteq Mno /\ epoch \in Nat
    /\ conn \in [Key -> Holder] /\ snap \in [Key -> Carriers]
    /\ cache \in [Declared -> Holder]
    /\ requests \in Nat /\ faults \in Nat
    /\ desync \in BOOLEAN /\ raced \subseteq Text \X Key /\ detached \subseteq Text
    /\ sighted \subseteq Text \X Key /\ missed \subseteq Text \X Key
    /\ arrived \subseteq Key

IngTypeOK == ing \in [Ingest -> IngestRecord]
AdmTypeOK == adm \in [Admin -> AdminRecord]

(* A file or a backfill that has a text knows whose row it is for; only names   *)
(* are queued, and the catch-all alone takes junk.                              *)
IngFrame(i) ==
    /\ ing[i].pc \notin {"idle", "gap"} => ing[i].key \in Key
    /\ ing[i].pc \notin {"idle", "gap", "snapshot"} => ing[i].text \in Declared
    /\ ing[i].pc \in {"find", "queue"} => ing[i].text \in Text
    /\ ing[i].pc = "write" => ing[i].to \in Provider

(* A request is where its operation can be.  A resolution works on a variant   *)
(* that is there, as no code deletes one.                                      *)
AdmFrame(a) ==
    /\ adm[a].pc = "idle" => adm[a].op = "none"
    /\ adm[a].pc \in {"target", "mark"} => adm[a].op = "resolve"
    /\ adm[a].pc = "scan" => adm[a].op = "remap"
    /\ adm[a].pc = "rows" => adm[a].op \in {"resolve", "remap"}
    /\ adm[a].pc \in {"erase", "reload", "swap"} => adm[a].op = "delete"
    /\ adm[a].pc \in {"target", "upsert", "cache", "mark", "scan", "rows"} =>
            adm[a].text \in Text
    /\ adm[a].pc \in {"upsert", "cache", "mark", "scan", "rows", "erase"} =>
            adm[a].to \in Provider
    /\ adm[a].op = "resolve" => queue[adm[a].text] # Null

IngFrames == \A i \in Ingest : IngFrame(i)
AdmFrames == \A a \in Admin : AdmFrame(a)

TypeInv == DbTypeOK /\ IngTypeOK /\ AdmTypeOK /\ IngFrames /\ AdmFrames

(* Requests and rows speak of MNOs that are there: an id outlives its reset     *)
(* only in requests that are stale.                                            *)
IngLive(i) ==
    /\ ing[i].epoch <= epoch
    /\ ing[i].epoch = epoch /\ ing[i].pc \notin {"idle", "gap"} => ing[i].key[1] \in mnos
    /\ ing[i].epoch = epoch => \A m \in Mno : ing[i].list[m] # Null => m \in mnos

LiveInv ==
    /\ IsFiniteSet(mnos)
    /\ \A k \in Key : snap[k].first # Null => k[1] \in mnos
    /\ \A i \in Ingest : IngLive(i)
    /\ \A x \in sighted \ missed : x[2][1] \in mnos

(* Foreign keys. *)
OwnersExist == \A k \in Key : conn[k] # Null => conn[k] \in providers

(* The cache is behind the table by what the one request in Writing brings.    *)
CacheInv ==
    ~desync =>
        /\ \A a, b \in Writing : a = b
        /\ Writing = {} => cache = Table
        /\ \A a \in Writing :
             /\ adm[a].pc = "cache" => [cache EXCEPT ![adm[a].text] = adm[a].to] = Table
             /\ adm[a].pc = "swap" => adm[a].loaded = Table

(* Every sighting is in its variant's list, and in what a file that is about to *)
(* write the list back has read of it.                                          *)
ListedInv ==
    \A x \in sighted \ raced :
        /\ queue[x[1]] # Null /\ x[2][1] \in queue[x[1]].tadigs
        /\ \A i \in Ingest : ing[i].pc = "queue" /\ ing[i].text = x[1] =>
                x[2][1] \in ing[i].tadigs

(* A name has had its alias before its variant is marked.                       *)
Given(t) == alias[t] # Null \/ t \in detached

GivenInv ==
    /\ \A t \in Text : queue[t] # Null /\ queue[t].status = "RESOLVED" => Given(t)
    /\ \A a \in Admin : adm[a].op = "resolve" /\ adm[a].pc \in {"cache", "mark"} =>
            Given(adm[a].text)

TriageInv == ListedInv /\ GivenInv

EraseInv ==
    \A a \in Erasing : ~adm[a].force => {k \in Key : conn[k] = adm[a].to} \subseteq arrived

(* What a resolution read is every sighting there is, until it is marked ...   *)
PlanInv ==
    \A a \in Admin : adm[a].op = "resolve" /\ adm[a].pc # "rows" =>
        \A x \in sighted \ missed : x[1] = adm[a].text /\ x \notin raced =>
            <<x[2][1], adm[a].service>> \in adm[a].todo

(* ... and then each of them is filled or still to be.                         *)
FillInv ==
    \A x \in sighted \ missed :
        x \notin raced /\ queue[x[1]].status = "RESOLVED" =>
            \/ conn[x[2]] # Null
            \/ \E a \in Admin : /\ adm[a].pc = "rows" /\ adm[a].op = "resolve"
                                /\ adm[a].text = x[1] /\ x[2] \in adm[a].todo

-----------------------------------------------------------------------------
(* Shapes of the records that actions put in place of a request's.             *)

LEMMA Constants ==
    /\ Null \notin Text /\ Null \notin Declared /\ Null \notin Provider /\ Null \notin Key
    /\ Junk \notin Text /\ Text \subseteq Declared /\ Junk \in Declared
    /\ Null \in Holder /\ Provider \subseteq Holder
BY ConstantsAssumption DEF Declared, Holder

LEMMA NoAliasesType == NoAliases \in [Declared -> Holder]
BY Constants DEF NoAliases

LEMMA IdleIngestType == IdleIngest \in IngestRecord
BY Constants DEF IdleIngest, IngestRecord, IngestPhase

LEMMA IdleAdminType == IdleAdmin \in AdminRecord
BY Constants, NoAliasesType DEF IdleAdmin, AdminRecord, AdminPhase

LEMMA NoCarriersType == NoCarriers \in Carriers
BY DEF NoCarriers, Carriers

LEMMA TableType ==
    ASSUME TypeInv
    PROVE  Table \in [Declared -> Holder]
BY Constants, ConstantsAssumption DEF TypeInv, DbTypeOK, Table, Declared

LEMMA MatchType ==
    ASSUME TypeInv, NEW t \in Declared
    PROVE  Match(t) \subseteq Provider
<1>1. \A u \in Declared : cache[u] # Null => cache[u] \in Provider
  BY DEF TypeInv, DbTypeOK, Holder
<1>2. {cache[u] : u \in {v \in Text : <<t, v>> \in Similar /\ cache[v] # Null}} \subseteq Provider
  BY <1>1, Constants
<1>3. QED BY <1>1, <1>2 DEF Match

LEMMA TypeInvImpliesTypeOK == TypeInv => TypeOK
BY DEF TypeInv, DbTypeOK, IngTypeOK, AdmTypeOK, TypeOK

(* A step of one request leaves the frames of the others alone.                *)
LEMMA IngOfOne ==
    ASSUME IngTypeOK, IngFrames, NEW i \in Ingest, NEW r \in IngestRecord,
           ing' = [ing EXCEPT ![i] = r], IngFrame(i)'
    PROVE  IngTypeOK' /\ IngFrames'
BY DEF IngTypeOK, IngFrames, IngFrame

LEMMA AdmOfOne ==
    ASSUME AdmTypeOK, AdmFrames, NEW a \in Admin, NEW r \in AdminRecord,
           adm' = [adm EXCEPT ![a] = r], AdmFrame(a)',
           \A t \in Text : queue[t] # Null => queue'[t] # Null
    PROVE  AdmTypeOK' /\ AdmFrames'
<1>1. AdmTypeOK' /\ \A b \in Admin \ {a} : adm'[b] = adm[b]
  BY DEF AdmTypeOK
<1>2. ASSUME NEW b \in Admin \ {a} PROVE AdmFrame(b)'
  <2>1. adm'[b] = adm[b] /\ AdmFrame(b)
    BY <1>1 DEF AdmFrames
  <2>2. adm[b].op = "resolve" => adm[b].text \in Text
    BY <2>1 DEF AdmFrame, AdmTypeOK, AdminRecord, AdminPhase
  <2>3. QED BY <2>1, <2>2 DEF AdmFrame
<1>3. QED BY <1>1, <1>2 DEF AdmFrames

LEMMA InitTypeInv == Init => TypeInv
<1> SUFFICES ASSUME Init PROVE TypeInv
  OBVIOUS
<1>1. DbTypeOK
  BY Constants, ConstantsAssumption, NoCarriersType DEF Init, DbTypeOK, Table, Declared
<1>2. IngTypeOK /\ AdmTypeOK
  BY IdleIngestType, IdleAdminType DEF Init, IngTypeOK, AdmTypeOK
<1>3. IngFrames /\ AdmFrames
  BY DEF Init, IngFrames, IngFrame, AdmFrames, AdmFrame, IdleIngest, IdleAdmin
<1>4. QED BY <1>1, <1>2, <1>3 DEF TypeInv

-----------------------------------------------------------------------------
(* Every step keeps the shapes.                                                *)

LEMMA IngestTypes ==
    ASSUME TypeInv, NEW i \in Ingest, IngestStep(i)
    PROVE  TypeInv'
<1> USE DEF db, bounds, observers
<1>a. ing[i] \in IngestRecord /\ IngFrame(i)
  BY DEF TypeInv, IngTypeOK, IngFrames
<1>1. CASE \E m \in Mno, f \in File : StartFile(i, m, f)
  <2>1. PICK m \in Mno, f \in File : StartFile(i, m, f)
    BY <1>1
  <2> DEFINE r == [IdleIngest EXCEPT !.pc = "match", !.key = <<m, f.service>>,
                      !.text = f.first, !.rest = f.rest, !.epoch = epoch]
  <2>2. f.service \in Service /\ f.first \in Declared /\ f.rest \subseteq Text
    BY ConstantsAssumption
  <2>3. r \in IngestRecord
    BY <2>2, IdleIngestType DEF IngestRecord, IngestPhase, Key, TypeInv, DbTypeOK
  <2>4. ing' = [ing EXCEPT ![i] = r]
    BY <2>1 DEF StartFile
  <2>5. IngFrame(i)'
    BY <2>2, <2>3, <2>4 DEF IngFrame, TypeInv, IngTypeOK, Key, IngestRecord, IdleIngest
  <2>6. IngTypeOK' /\ IngFrames'
    BY <2>3, <2>4, <2>5, IngOfOne DEF TypeInv
  <2>7. DbTypeOK'
    BY <2>1 DEF StartFile, TypeInv, DbTypeOK
  <2>8. AdmTypeOK' /\ AdmFrames'
    BY <2>1 DEF StartFile, TypeInv, AdmTypeOK, AdmFrames, AdmFrame
  <2>9. QED BY <2>6, <2>7, <2>8 DEF TypeInv
<1>2. CASE StartDsxBackfill(i)
  <2> DEFINE l == [m \in Mno |-> snap[<<m, Dsx>>].first]
             r == [IdleIngest EXCEPT !.pc = "gap", !.dsx = TRUE, !.epoch = epoch, !.list = l]
  <2>1. l \in [Mno -> Declared \cup {Null}]
    BY ConstantsAssumption DEF TypeInv, DbTypeOK, Carriers, Key
  <2>2. r \in IngestRecord
    BY <2>1, IdleIngestType DEF IngestRecord, IngestPhase, TypeInv, DbTypeOK
  <2>3. ing' = [ing EXCEPT ![i] = r]
    BY <1>2 DEF StartDsxBackfill
  <2>4. IngFrame(i)'
    BY <2>2, <2>3 DEF IngFrame, TypeInv, IngTypeOK, IngestRecord, IdleIngest
  <2>5. IngTypeOK' /\ IngFrames'
    BY <2>2, <2>3, <2>4, IngOfOne DEF TypeInv
  <2>6. DbTypeOK'
    BY <1>2 DEF StartDsxBackfill, TypeInv, DbTypeOK
  <2>7. AdmTypeOK' /\ AdmFrames'
    BY <1>2 DEF StartDsxBackfill, TypeInv, AdmTypeOK, AdmFrames, AdmFrame
  <2>8. QED BY <2>5, <2>6, <2>7 DEF TypeInv
<1>3. CASE \E m \in Mno : NextGap(i, m)
  <2>1. PICK m \in Mno : NextGap(i, m)
    BY <1>3
  <2> DEFINE pc == IF ~Stale(i) /\ conn[<<m, Dsx>>] # Null THEN "gap" ELSE "match"
             r == [ing[i] EXCEPT !.list[m] = Null, !.pc = pc, !.key = <<m, Dsx>>,
                                 !.text = ing[i].list[m]]
  <2>2. ing[i].list[m] \in Declared /\ <<m, Dsx>> \in Key
    BY <2>1, <1>a, ConstantsAssumption DEF NextGap, IngestRecord, Key
  <2>3. r \in IngestRecord
    BY <2>2, <1>a DEF IngestRecord, IngestPhase
  <2>4. ing' = [ing EXCEPT ![i] = r]
    BY <2>1, <1>a DEF NextGap, TypeInv, IngTypeOK, IngestRecord
  <2>5. IngFrame(i)'
    BY <2>2, <2>3, <2>4, <1>a DEF IngFrame, TypeInv, IngTypeOK, IngestRecord
  <2>6. IngTypeOK' /\ IngFrames'
    BY <2>3, <2>4, <2>5, IngOfOne DEF TypeInv
  <2>7. DbTypeOK'
    BY <2>1 DEF NextGap, TypeInv, DbTypeOK
  <2>8. AdmTypeOK' /\ AdmFrames'
    BY <2>1 DEF NextGap, TypeInv, AdmTypeOK, AdmFrames, AdmFrame
  <2>9. QED BY <2>6, <2>7, <2>8 DEF TypeInv
<1>4. CASE FinishDsxBackfill(i) \/ IngestFails(i)
  <2>1. ing' = [ing EXCEPT ![i] = IdleIngest]
    BY <1>4 DEF FinishDsxBackfill, IngestFails
  <2>2. IngFrame(i)'
    BY <2>1 DEF IngFrame, TypeInv, IngTypeOK, IdleIngest
  <2>3. IngTypeOK' /\ IngFrames'
    BY <2>1, <2>2, IdleIngestType, IngOfOne DEF TypeInv
  <2>4. DbTypeOK'
    BY <1>4 DEF FinishDsxBackfill, IngestFails, TypeInv, DbTypeOK
  <2>5. AdmTypeOK' /\ AdmFrames'
    BY <1>4 DEF FinishDsxBackfill, IngestFails, TypeInv, AdmTypeOK, AdmFrames, AdmFrame
  <2>6. QED BY <2>3, <2>4, <2>5 DEF TypeInv
<1>5. CASE MatchText(i) \/ FindVariant(i)
  <2>1. DbTypeOK'
    BY <1>5 DEF MatchText, FindVariant, TypeInv, DbTypeOK
  <2>2. AdmTypeOK' /\ AdmFrames'
    BY <1>5 DEF MatchText, FindVariant, TypeInv, AdmTypeOK, AdmFrames, AdmFrame
  <2>3. CASE \E p \in Match(ing[i].text) : ing[i].pc = "match" /\ ing' = [ing EXCEPT ![i].pc = "write", ![i].to = p]
    <3>1. PICK p \in Match(ing[i].text) : ing[i].pc = "match" /\ ing' = [ing EXCEPT ![i].pc = "write", ![i].to = p]
      BY <2>3
    <3> DEFINE r == [ing[i] EXCEPT !.pc = "write", !.to = p]
    <3>2. p \in Provider
      BY <3>1, <1>a, MatchType DEF IngFrame
    <3>3. r \in IngestRecord
      BY <3>2, <1>a, Constants DEF IngestRecord, IngestPhase
    <3>4. ing' = [ing EXCEPT ![i] = r]
      BY <3>1, <1>a DEF TypeInv, IngTypeOK, IngestRecord
    <3>5. IngFrame(i)'
      BY <3>1, <3>2, <3>3, <3>4, <1>a DEF IngFrame, TypeInv, IngTypeOK, IngestRecord
    <3>6. QED BY <3>3, <3>4, <3>5, <2>1, <2>2, IngOfOne DEF TypeInv
  <2>4. CASE /\ ing[i].pc = "match"
             /\ ing' = [ing EXCEPT ![i].pc = IF ing[i].text = Junk THEN AfterText(i) ELSE "find"]
    <3> DEFINE r == [ing[i] EXCEPT !.pc = IF ing[i].text = Junk THEN AfterText(i) ELSE "find"]
    <3>1. r \in IngestRecord
      BY <1>a DEF IngestRecord, IngestPhase, AfterText
    <3>2. ing' = [ing EXCEPT ![i] = r]
      BY <2>4, <1>a DEF TypeInv, IngTypeOK, IngestRecord
    <3>3. IngFrame(i)'
      BY <3>1, <3>2, <2>4, <1>a DEF IngFrame, TypeInv, IngTypeOK, IngestRecord, AfterText, Declared
    <3>4. QED BY <3>1, <3>2, <3>3, <2>1, <2>2, IngOfOne DEF TypeInv
  <2>5. CASE FindVariant(i)
    <3> DEFINE r == [ing[i] EXCEPT !.pc = "queue", !.tadigs = TadigsOf(ing[i].text)]
    <3>1. TadigsOf(ing[i].text) \subseteq Mno
      BY <2>5, <1>a DEF FindVariant, IngFrame, TadigsOf, TypeInv, DbTypeOK, Variant
    <3>2. r \in IngestRecord
      BY <3>1, <1>a DEF IngestRecord, IngestPhase
    <3>3. ing' = [ing EXCEPT ![i] = r]
      BY <2>5, <1>a DEF FindVariant, TypeInv, IngTypeOK, IngestRecord
    <3>4. IngFrame(i)'
      BY <3>2, <3>3, <2>5, <1>a DEF IngFrame, TypeInv, IngTypeOK, IngestRecord, FindVariant
    <3>5. QED BY <3>2, <3>3, <3>4, <2>1, <2>2, IngOfOne DEF TypeInv
  <2>6. QED BY <1>5, <2>3, <2>4, <2>5 DEF MatchText
<1>6. CASE QueueVariant(i)
  <2> DEFINE r == [ing[i] EXCEPT !.pc = AfterText(i), !.tadigs = {}]
             t == ing[i].text
  <2>1. t \in Text /\ ing[i].key \in Key
    BY <1>6, <1>a DEF QueueVariant, IngFrame
  <2>2. r \in IngestRecord
    BY <1>a DEF IngestRecord, IngestPhase, AfterText
  <2>3. ing' = [ing EXCEPT ![i] = r]
    BY <1>6, <1>a DEF QueueVariant, TypeInv, IngTypeOK, IngestRecord
  <2>4. IngFrame(i)'
    BY <2>1, <2>2, <2>3, <1>a DEF IngFrame, TypeInv, IngTypeOK, IngestRecord, AfterText
  <2>5. IngTypeOK' /\ IngFrames'
    BY <2>2, <2>3, <2>4, IngOfOne DEF TypeInv
  <2>6. queue' \in [Text -> Variant \cup {Null}] /\ \A u \in Text : queue[u] # Null => queue'[u] # Null
    <3> DEFINE v == [status |-> IF queue[t] = Null THEN "PENDING" ELSE queue[t].status,
                     service |-> ing[i].key[2], tadigs |-> QueuedTadigs(i)]
    <3>1. v \in Variant
      BY <2>1, <1>a DEF Variant, QueuedTadigs, IngestRecord, Key, TypeInv, DbTypeOK
    <3>2. queue' = [queue EXCEPT ![t] = v]
      BY <1>6 DEF QueueVariant
    <3>3. QED BY <3>1, <3>2, NoVariantAssumption DEF TypeInv, DbTypeOK
  <2>7. DbTypeOK'
    BY <1>6, <2>1, <2>6 DEF QueueVariant, TypeInv, DbTypeOK
  <2>8. AdmTypeOK' /\ AdmFrames'
    BY <1>6, <2>6 DEF QueueVariant, TypeInv, AdmTypeOK, AdmFrames, AdmFrame, AdminRecord, AdminPhase
  <2>9. QED BY <2>5, <2>7, <2>8 DEF TypeInv
<1>7. CASE WriteRow(i)
  <2> DEFINE r == [ing[i] EXCEPT !.pc = AfterText(i), !.to = Null]
  <2>1. ing[i].key \in Key /\ ing[i].to \in Provider
    BY <1>7, <1>a DEF WriteRow, IngFrame
  <2>2. r \in IngestRecord
    BY <1>a, Constants DEF IngestRecord, IngestPhase, AfterText
  <2>3. ing' = [ing EXCEPT ![i] = r]
    BY <1>7, <1>a DEF WriteRow, TypeInv, IngTypeOK, IngestRecord
  <2>4. IngFrame(i)'
    BY <2>1, <2>2, <2>3, <1>7, <1>a DEF IngFrame, TypeInv, IngTypeOK, IngestRecord, AfterText, WriteRow
  <2>5. IngTypeOK' /\ IngFrames'
    BY <2>2, <2>3, <2>4, IngOfOne DEF TypeInv
  <2>6. DbTypeOK'
    BY <1>7, <2>1, Constants DEF WriteRow, PutRow, TypeInv, DbTypeOK
  <2>7. AdmTypeOK' /\ AdmFrames'
    BY <1>7 DEF WriteRow, TypeInv, AdmTypeOK, AdmFrames, AdmFrame
  <2>8. QED BY <2>5, <2>6, <2>7 DEF TypeInv
<1>8. CASE SaveSnapshot(i)
  <2>1. ing' = [ing EXCEPT ![i] = IdleIngest]
    BY <1>8 DEF SaveSnapshot
  <2>2. IngFrame(i)'
    BY <2>1 DEF IngFrame, TypeInv, IngTypeOK, IdleIngest
  <2>3. IngTypeOK' /\ IngFrames'
    BY <2>1, <2>2, IdleIngestType, IngOfOne DEF TypeInv
  <2>4. [first |-> ing[i].text, rest |-> ing[i].rest] \in Carriers
    BY <1>a DEF IngestRecord, Carriers
  <2>5. snap' \in [Key -> Carriers]
    BY <1>8, <2>4, NoCarriersType DEF SaveSnapshot, TypeInv, DbTypeOK
  <2>6. DbTypeOK'
    BY <1>8, <2>5 DEF SaveSnapshot, TypeInv, DbTypeOK
  <2>7. AdmTypeOK' /\ AdmFrames'
    BY <1>8 DEF SaveSnapshot, TypeInv, AdmTypeOK, AdmFrames, AdmFrame
  <2>8. QED BY <2>3, <2>6, <2>7 DEF TypeInv
<1>9. QED BY <1>1, <1>2, <1>3, <1>4, <1>5, <1>6, <1>7, <1>8 DEF IngestStep
LEMMA AdmStepTypes ==
    ASSUME TypeInv, NEW a \in Admin, NEW r \in AdminRecord,
           adm' = [adm EXCEPT ![a] = r], AdmFrame(a)', DbTypeOK', ing' = ing,
           \A t \in Text : queue[t] # Null => queue'[t] # Null
    PROVE  TypeInv'
<1>1. AdmTypeOK' /\ AdmFrames'
  BY AdmOfOne DEF TypeInv
<1>2. IngTypeOK' /\ IngFrames'
  BY DEF TypeInv, IngTypeOK, IngFrames, IngFrame
<1>3. QED BY <1>1, <1>2 DEF TypeInv

LEMMA AdminTypes ==
    ASSUME TypeInv, NEW a \in Admin, AdminStep(a)
    PROVE  TypeInv'
<1> USE DEF db, bounds, observers
<1>a. adm[a] \in AdminRecord /\ AdmFrame(a) /\ a \in DOMAIN adm
  BY DEF TypeInv, AdmTypeOK, AdmFrames
<1>b. ASSUME NEW r, adm' = [adm EXCEPT ![a] = r] PROVE adm'[a] = r
  BY <1>a, <1>b
<1>1. CASE \E t \in Text : StartResolve(a, t)
  <2>1. PICK t \in Text : StartResolve(a, t)
    BY <1>1
  <2> DEFINE r == [IdleAdmin EXCEPT !.pc = "target", !.op = "resolve", !.text = t,
                      !.service = queue[t].service,
                      !.todo = queue[t].tadigs \X {queue[t].service}]
  <2>2. queue[t] \in Variant
    BY <2>1 DEF StartResolve, TypeInv, DbTypeOK
  <2>3. r \in AdminRecord
    BY <2>2, IdleAdminType DEF AdminRecord, AdminPhase, Variant, Key
  <2>4. adm' = [adm EXCEPT ![a] = r] /\ DbTypeOK' /\ ing' = ing /\ queue' = queue
    BY <2>1 DEF StartResolve, StartEdit, TypeInv, DbTypeOK
  <2>5. r.pc = "target" /\ r.op = "resolve" /\ r.text = t
    BY DEF IdleAdmin
  <2>6. AdmFrame(a)'
    BY <2>1, <2>4, <2>5, <1>b DEF AdmFrame, StartResolve
  <2>7. QED BY <2>3, <2>4, <2>6, AdmStepTypes
<1>2. CASE \E t \in Text, p \in Provider :
             StartAddAlias(a, t, p) \/ StartRemap(a, t, p) \/ StartRemapToNew(a, t, p)
  <2>1. PICK t \in Text, p \in Provider :
             StartAddAlias(a, t, p) \/ StartRemap(a, t, p) \/ StartRemapToNew(a, t, p)
    BY <1>2
  <2>2. PICK op \in {"add", "remap"} : StartAlias(a, op, t, p)
    BY <2>1 DEF StartAddAlias, StartRemap, StartRemapToNew
  <2> DEFINE r == [IdleAdmin EXCEPT !.pc = "upsert", !.op = op, !.text = t, !.to = p]
  <2>3. r \in AdminRecord
    BY IdleAdminType, Constants DEF AdminRecord, AdminPhase
  <2>4. adm' = [adm EXCEPT ![a] = r] /\ requests' = requests + 1
    BY <2>2 DEF StartAlias, StartEdit
  <2>5. DbTypeOK' /\ ing' = ing /\ queue' = queue
    BY <2>1, <2>4 DEF StartAddAlias, StartRemap, StartRemapToNew, TypeInv, DbTypeOK
  <2>6. r.pc = "upsert" /\ r.op = op /\ r.text = t /\ r.to = p
    BY DEF IdleAdmin
  <2>7. AdmFrame(a)'
    BY <2>4, <2>6, <1>b DEF AdmFrame
  <2>8. QED BY <2>3, <2>4, <2>5, <2>7, AdmStepTypes
<1>3. CASE \E p \in Provider : PickTarget(a, p) \/ CreateTarget(a, p)
  <2>1. PICK p \in Provider : PickTarget(a, p) \/ CreateTarget(a, p)
    BY <1>3
  <2> DEFINE r == [adm[a] EXCEPT !.pc = "upsert", !.to = p]
  <2>2. r \in AdminRecord
    BY <1>a, Constants DEF AdminRecord, AdminPhase
  <2>3. adm' = [adm EXCEPT ![a] = r] /\ adm[a].pc = "target"
    BY <2>1, <1>a DEF PickTarget, CreateTarget, TypeInv, AdmTypeOK, AdminRecord
  <2>4. DbTypeOK' /\ ing' = ing /\ queue' = queue
    BY <2>1 DEF PickTarget, CreateTarget, TypeInv, DbTypeOK
  <2>5. r.pc = "upsert" /\ r.op = adm[a].op /\ r.text = adm[a].text /\ r.to = p
    BY <1>a DEF AdminRecord
  <2>6. AdmFrame(a)'
    BY <2>3, <2>4, <2>5, <1>a, <1>b DEF AdmFrame
  <2>7. QED BY <2>2, <2>3, <2>4, <2>6, AdmStepTypes
<1>4. CASE UpsertAlias(a) \/ MarkResolved(a) \/ ReadAliases(a) \/ EraseProvider(a)
  <2> DEFINE pc == IF UpsertAlias(a) THEN "cache" ELSE IF MarkResolved(a) THEN "rows"
                   ELSE IF EraseProvider(a) THEN "reload" ELSE "swap"
             loaded == IF adm[a].pc = "reload" THEN Table ELSE adm[a].loaded
             marked == IF adm[a].pc = "mark" THEN epoch ELSE adm[a].epoch
             r == [adm[a] EXCEPT !.pc = pc, !.loaded = loaded, !.epoch = marked]
  <2>0. /\ UpsertAlias(a) => adm[a].pc = "upsert"
        /\ MarkResolved(a) => adm[a].pc = "mark"
        /\ EraseProvider(a) => adm[a].pc = "erase"
        /\ ReadAliases(a) => adm[a].pc = "reload"
    BY DEF UpsertAlias, MarkResolved, EraseProvider, ReadAliases
  <2>1. r \in AdminRecord
    BY <1>a, TableType DEF AdminRecord, AdminPhase, TypeInv, DbTypeOK
  <2>2. adm' = [adm EXCEPT ![a] = r] /\ ing' = ing
    <3>1. CASE UpsertAlias(a)
      BY <3>1, <2>0, <1>a DEF UpsertAlias, TypeInv, AdmTypeOK, AdminRecord
    <3>2. CASE MarkResolved(a)
      BY <3>2, <2>0, <1>a DEF MarkResolved, TypeInv, AdmTypeOK, AdminRecord
    <3>3. CASE EraseProvider(a)
      BY <3>3, <2>0, <1>a DEF EraseProvider, TypeInv, AdmTypeOK, AdminRecord
    <3>4. CASE ReadAliases(a)
      BY <3>4, <2>0, <1>a DEF ReadAliases, TypeInv, AdmTypeOK, AdminRecord
    <3>5. QED BY <1>4, <3>1, <3>2, <3>3, <3>4
  <2>3. /\ DbTypeOK' /\ \A t \in Text : queue[t] # Null => queue'[t] # Null
    <3>1. CASE UpsertAlias(a)
      <4>1. alias' \in [Text -> Holder]
        BY <3>1, <2>0, <1>a, Constants DEF UpsertAlias, AdmFrame, TypeInv, DbTypeOK
      <4>2. desync' \in BOOLEAN
        BY <3>1 DEF UpsertAlias
      <4>3. QED BY <3>1, <4>1, <4>2 DEF UpsertAlias, TypeInv, DbTypeOK
    <3>2. CASE MarkResolved(a)
      <4>1. adm[a].text \in Text /\ queue[adm[a].text] \in Variant
        BY <3>2, <2>0, <1>a DEF AdmFrame, TypeInv, DbTypeOK
      <4>2. [queue[adm[a].text] EXCEPT !.status = "RESOLVED"] \in Variant
        BY <4>1 DEF Variant
      <4>3. queue' = [queue EXCEPT ![adm[a].text] = [queue[adm[a].text] EXCEPT !.status = "RESOLVED"]]
        BY <3>2, <4>1 DEF MarkResolved, TypeInv, DbTypeOK
      <4>4. queue' \in [Text -> Variant \cup {Null}] /\ \A t \in Text : queue[t] # Null => queue'[t] # Null
        BY <4>2, <4>3, NoVariantAssumption DEF TypeInv, DbTypeOK
      <4>5. missed' \subseteq Text \X Key
        BY <3>2 DEF MarkResolved, TypeInv, DbTypeOK
      <4>6. QED BY <3>2, <4>4, <4>5 DEF MarkResolved, TypeInv, DbTypeOK
    <3>3. CASE EraseProvider(a)
      <4>1. alias' \in [Text -> Holder] /\ conn' \in [Key -> Holder]
        BY <3>3, Constants DEF EraseProvider, TypeInv, DbTypeOK
      <4>2. desync' \in BOOLEAN /\ missed' \subseteq Text \X Key
        BY <3>3 DEF EraseProvider, TypeInv, DbTypeOK
      <4>3. QED BY <3>3, <4>1, <4>2 DEF EraseProvider, TypeInv, DbTypeOK
    <3>4. CASE ReadAliases(a)
      BY <3>4 DEF ReadAliases, TypeInv, DbTypeOK
    <3>5. QED BY <1>4, <3>1, <3>2, <3>3, <3>4
  <2>4. r.pc = pc /\ r.op = adm[a].op /\ r.text = adm[a].text /\ r.to = adm[a].to
    BY <1>a DEF AdminRecord
  <2>5. r.op = "resolve" => queue'[r.text] # Null
    BY <2>3, <2>4, <1>a DEF AdmFrame, AdminRecord, AdminPhase
  <2>6. AdmFrame(a)'
    <3>1. adm'[a] = r
      BY <2>2, <1>b
    <3> HIDE DEF r, pc
    <3>2. \/ adm[a].pc = "upsert" /\ pc = "cache"
          \/ adm[a].pc = "mark" /\ pc = "rows"
          \/ adm[a].pc = "erase" /\ pc = "reload"
          \/ adm[a].pc = "reload" /\ pc = "swap"
      BY <1>4, <2>0 DEF pc
    <3>3. QED BY <2>4, <2>5, <1>a, <3>1, <3>2 DEF AdmFrame
  <2>7. QED BY <2>1, <2>2, <2>3, <2>6, AdmStepTypes
<1>5. CASE SetCache(a) \/ FinishRows(a) \/ SwapCache(a) \/ EditFails(a)
  <2>1. DbTypeOK' /\ ing' = ing /\ queue' = queue
    <3>1. CASE SetCache(a)
      <4>1. adm[a].text \in Text /\ adm[a].to \in Holder
        BY <3>1, <1>a, Constants DEF SetCache, AdmFrame
      <4>2. cache' \in [Declared -> Holder]
        BY <3>1, <4>1 DEF SetCache, TypeInv, DbTypeOK
      <4>3. QED BY <3>1, <4>2 DEF SetCache, TypeInv, DbTypeOK
    <3>2. CASE FinishRows(a)
      BY <3>2 DEF FinishRows, TypeInv, DbTypeOK
    <3>3. CASE SwapCache(a)
      <4>1. cache' \in [Declared -> Holder] /\ desync' \in BOOLEAN
        BY <3>3, <1>a DEF SwapCache, AdminRecord
      <4>2. QED BY <3>3, <4>1 DEF SwapCache, TypeInv, DbTypeOK
    <3>4. CASE EditFails(a)
      <4>1. Unfilled(a) \subseteq Text \X Key
        BY <1>a DEF Unfilled, AdmFrame, AdminRecord
      <4>2. missed' \subseteq Text \X Key /\ faults' \in Nat /\ desync' \in BOOLEAN
        BY <3>4, <4>1 DEF EditFails, TypeInv, DbTypeOK
      <4>3. QED BY <3>4, <4>2 DEF EditFails, TypeInv, DbTypeOK
    <3>5. QED BY <1>5, <3>1, <3>2, <3>3, <3>4
  <2>2. CASE adm' = [adm EXCEPT ![a] = IdleAdmin]
    <3>1. adm'[a] = IdleAdmin
      BY <2>2, <1>a
    <3>2. AdmFrame(a)'
      BY <3>1 DEF AdmFrame, IdleAdmin
    <3>3. QED BY <2>1, <2>2, <3>2, IdleAdminType, AdmStepTypes
  <2>3. CASE SetCache(a) /\ AfterAlias(a) # "idle"
    <3> DEFINE r == [adm[a] EXCEPT !.pc = AfterAlias(a)]
    <3>1. AfterAlias(a) \in {"mark", "scan"}
      BY <2>3 DEF AfterAlias
    <3>2. r \in AdminRecord
      BY <1>a, <3>1 DEF AdminRecord, AdminPhase
    <3>3. adm' = [adm EXCEPT ![a] = r] /\ adm[a].pc = "cache"
      BY <2>3, <1>a DEF SetCache
    <3>4. r.pc = AfterAlias(a) /\ r.op = adm[a].op /\ r.text = adm[a].text /\ r.to = adm[a].to
      BY <1>a DEF AdminRecord
    <3>5. r.pc = "mark" => r.op = "resolve"
      BY <3>4 DEF AfterAlias
    <3>6. r.pc = "scan" => r.op = "remap"
      BY <3>4 DEF AfterAlias
    <3>7. adm'[a] = r
      BY <3>3, <1>b
    <3> HIDE DEF r
    <3>8. AdmFrame(a)'
      BY <2>1, <3>1, <3>3, <3>4, <3>5, <3>6, <3>7, <1>a DEF AdmFrame
    <3>9. QED BY <2>1, <3>2, <3>3, <3>8, AdmStepTypes
  <2>4. QED
    BY <1>5, <2>2, <2>3 DEF SetCache, FinishRows, SwapCache, EditFails
<1>6. CASE ScanSnapshots(a) \/ \E k \in Key : RepointRow(a, k)
  <2> DEFINE todo == adm'[a].todo
             at == adm'[a].epoch
             r == [adm[a] EXCEPT !.pc = "rows", !.epoch = at, !.todo = todo]
  <2>1. todo \subseteq Key /\ at \in Nat /\ adm' = [adm EXCEPT ![a] = r] /\ adm[a].pc \in {"scan", "rows"}
    <3>1. CASE ScanSnapshots(a)
      BY <3>1, <1>a DEF ScanSnapshots, TypeInv, AdmTypeOK, AdminRecord, DbTypeOK
    <3>2. CASE \E k \in Key : RepointRow(a, k)
      <4>1. PICK k \in Key : RepointRow(a, k)
        BY <3>2
      <4>2. todo = adm[a].todo \ {k} /\ at = adm[a].epoch /\ adm[a].pc = "rows"
        BY <4>1, <1>a DEF RepointRow, AdminRecord
      <4>3. todo \subseteq Key /\ at \in Nat
        BY <4>2, <1>a DEF AdminRecord
      <4>4. r = [adm[a] EXCEPT !.todo = @ \ {k}]
        BY <4>2, <1>a DEF AdminRecord
      <4>5. adm' = [adm EXCEPT ![a] = r]
        BY <4>1, <4>4 DEF RepointRow
      <4>6. QED BY <4>2, <4>3, <4>5
    <3>3. QED BY <1>6, <3>1, <3>2
  <2>2. r \in AdminRecord
    BY <1>a, <2>1 DEF AdminRecord, AdminPhase
  <2>3. DbTypeOK' /\ ing' = ing /\ queue' = queue
    <3>1. CASE ScanSnapshots(a)
      BY <3>1 DEF ScanSnapshots, TypeInv, DbTypeOK
    <3>2. CASE \E k \in Key : RepointRow(a, k)
      <4>1. PICK k \in Key : RepointRow(a, k)
        BY <3>2
      <4>2. conn' \in [Key -> Holder] /\ arrived' \subseteq Key
        BY <4>1, <1>a DEF RepointRow, PutRow, TypeInv, DbTypeOK, AdminRecord
      <4>3. QED BY <4>1, <4>2 DEF RepointRow, TypeInv, DbTypeOK
    <3>3. QED BY <1>6, <3>1, <3>2
  <2>4. r.pc = "rows" /\ r.op = adm[a].op /\ r.text = adm[a].text /\ r.to = adm[a].to
    BY <1>a DEF AdminRecord
  <2>5. adm'[a] = r
    BY <2>1, <1>b
  <2> HIDE DEF r
  <2>6. AdmFrame(a)'
    BY <2>1, <2>3, <2>4, <2>5, <1>a DEF AdmFrame
  <2>7. QED BY <2>1, <2>2, <2>3, <2>6, AdmStepTypes
<1>7. CASE \/ \E p \in Provider, force \in BOOLEAN : StartDeleteProvider(a, p, force)
           \/ \E t \in Text : DeleteAlias(a, t)
  <2>1. CASE \E p \in Provider, force \in BOOLEAN : StartDeleteProvider(a, p, force)
    <3>1. PICK p \in Provider, force \in BOOLEAN : StartDeleteProvider(a, p, force)
      BY <2>1
    <3> DEFINE r == [IdleAdmin EXCEPT !.pc = "erase", !.op = "delete", !.to = p, !.force = force]
    <3>2. r \in AdminRecord
      BY IdleAdminType, Constants DEF AdminRecord, AdminPhase
    <3>3. adm' = [adm EXCEPT ![a] = r] /\ requests' = requests + 1
      BY <3>1 DEF StartDeleteProvider, StartEdit
    <3>4. DbTypeOK' /\ ing' = ing /\ queue' = queue
      BY <3>1, <3>3 DEF StartDeleteProvider, TypeInv, DbTypeOK
    <3>5. r.pc = "erase" /\ r.op = "delete" /\ r.to = p
      BY DEF IdleAdmin
    <3>6. AdmFrame(a)'
      BY <3>3, <3>5, <1>b DEF AdmFrame
    <3>7. QED BY <3>2, <3>3, <3>4, <3>6, AdmStepTypes
  <2>2. CASE \E t \in Text : DeleteAlias(a, t)
    <3>1. PICK t \in Text : DeleteAlias(a, t)
      BY <2>2
    <3> DEFINE r == [IdleAdmin EXCEPT !.pc = "reload", !.op = "delete"]
    <3>2. r \in AdminRecord
      BY IdleAdminType, Constants DEF AdminRecord, AdminPhase
    <3>3. adm' = [adm EXCEPT ![a] = r] /\ requests' = requests + 1
      BY <3>1 DEF DeleteAlias, StartEdit
    <3>4. DbTypeOK' /\ ing' = ing /\ queue' = queue
      BY <3>1, <3>3, Constants DEF DeleteAlias, TypeInv, DbTypeOK
    <3>5. r.pc = "reload" /\ r.op = "delete"
      BY DEF IdleAdmin
    <3>6. AdmFrame(a)'
      BY <3>3, <3>5, <1>b DEF AdmFrame
    <3>7. QED BY <3>2, <3>3, <3>4, <3>6, AdmStepTypes
  <2>3. QED BY <1>7, <2>1, <2>2
<1>8. QED
  BY <1>1, <1>2, <1>3, <1>4, <1>5, <1>6, <1>7 DEF AdminStep

LEMMA TypeStep == TypeInv /\ [Next]_vars => TypeInv'
<1> SUFFICES ASSUME TypeInv, [Next]_vars PROVE TypeInv'
  OBVIOUS
<1> USE DEF db, bounds, observers
<1>1. CASE ResetDatabase
  <2>1. DbTypeOK'
    BY <1>1, Constants, NoCarriersType DEF ResetDatabase, TypeInv, DbTypeOK
  <2>2. IngTypeOK' /\ IngFrames' /\ AdmTypeOK' /\ AdmFrames'
    BY <1>1 DEF ResetDatabase, TypeInv, IngTypeOK, IngFrames, IngFrame, AdmTypeOK, AdmFrames, AdmFrame
  <2>3. QED BY <2>1, <2>2 DEF TypeInv
<1>2. CASE Crash
  <2>1. \A a \in Admin : Unfilled(a) \subseteq Text \X Key
    BY DEF Unfilled, TypeInv, AdmTypeOK, AdmFrames, AdmFrame, AdminRecord
  <2>2. missed' \subseteq Text \X Key
    BY <1>2, <2>1 DEF Crash, TypeInv, DbTypeOK
  <2>3. DbTypeOK'
    <3>1. cache' \in [Declared -> Holder]
      BY <1>2, TableType DEF Crash
    <3>2. faults' \in Nat
      BY <1>2 DEF Crash, TypeInv, DbTypeOK
    <3>3. desync' \in BOOLEAN
      BY <1>2 DEF Crash
    <3>4. UNCHANGED <<db, requests, raced, detached, sighted, arrived>>
      BY <1>2 DEF Crash
    <3>5. QED BY <2>2, <3>1, <3>2, <3>3, <3>4 DEF TypeInv, DbTypeOK
  <2>4. IngTypeOK' /\ AdmTypeOK'
    BY <1>2, IdleIngestType, IdleAdminType DEF Crash, IngTypeOK, AdmTypeOK
  <2>5. IngFrames' /\ AdmFrames'
    BY <1>2 DEF Crash, IngFrames, IngFrame, AdmFrames, AdmFrame, IdleIngest, IdleAdmin
  <2>6. QED BY <2>3, <2>4, <2>5 DEF TypeInv
<1>3. CASE UNCHANGED vars
  BY <1>3 DEF vars, TypeInv, DbTypeOK, IngTypeOK, IngFrames, IngFrame, AdmTypeOK, AdmFrames, AdmFrame
<1>4. QED BY <1>1, <1>2, <1>3, IngestTypes, AdminTypes DEF Next

LEMMA AlwaysTypeInv == Spec => []TypeInv
BY InitTypeInv, TypeStep, PTL DEF Spec

(* Every table, the cache and every request in flight keep the shape the code  *)
(* gives them, through every interleaving of the requests, failing queries,    *)
(* resets and crashes.                                                         *)
THEOREM AliasesTypeCorrect == Spec => []TypeOK
BY AlwaysTypeInv, TypeInvImpliesTypeOK, PTL

-----------------------------------------------------------------------------
(* Triage.                                                                     *)

(* What the steps of a request leave alone.                                    *)
LEMMA IngestLeaves ==
    ASSUME NEW i \in Ingest, IngestStep(i)
    PROVE  /\ UNCHANGED <<providers, used, alias, epoch, cache, adm, desync, detached>>
           /\ QueueVariant(i) \/ UNCHANGED <<queue, raced, sighted, missed>>
           /\ WriteRow(i) \/ UNCHANGED <<conn, arrived>>
           /\ SaveSnapshot(i) \/ UNCHANGED snap
           /\ UNCHANGED mnos \/ \E m \in Mno, f \in File : StartFile(i, m, f)
<1> USE DEF db, bounds, observers
<1>1. CASE \E m \in Mno, f \in File : StartFile(i, m, f)
  BY <1>1 DEF StartFile
<1>2. CASE StartDsxBackfill(i)
  BY <1>2 DEF StartDsxBackfill
<1>3. CASE \E m \in Mno : NextGap(i, m)
  BY <1>3 DEF NextGap
<1>4. CASE FinishDsxBackfill(i)
  BY <1>4 DEF FinishDsxBackfill
<1>5. CASE MatchText(i)
  BY <1>5 DEF MatchText
<1>6. CASE FindVariant(i)
  BY <1>6 DEF FindVariant
<1>7. CASE QueueVariant(i)
  BY <1>7 DEF QueueVariant
<1>8. CASE WriteRow(i)
  BY <1>8 DEF WriteRow
<1>9. CASE SaveSnapshot(i)
  BY <1>9 DEF SaveSnapshot
<1>10. CASE IngestFails(i)
  BY <1>10 DEF IngestFails
<1>11. QED
  BY <1>1, <1>2, <1>3, <1>4, <1>5, <1>6, <1>7, <1>8, <1>9, <1>10 DEF IngestStep

LEMMA AdminLeaves ==
    ASSUME NEW a \in Admin, AdminStep(a)
    PROVE  /\ UNCHANGED <<mnos, epoch, snap, ing, raced, sighted>>
           /\ \/ UpsertAlias(a) \/ EraseProvider(a) \/ UNCHANGED <<alias, detached>>
              \/ \E t \in Text : DeleteAlias(a, t)
           /\ MarkResolved(a) \/ UNCHANGED queue
           /\ SetCache(a) \/ SwapCache(a) \/ UNCHANGED cache
           /\ missed \subseteq missed'
           /\ EraseProvider(a) \/ providers \subseteq providers'
           /\ \/ EraseProvider(a) \/ UNCHANGED conn
              \/ \E k \in Key : RepointRow(a, k)
<1> USE DEF db, bounds, observers
<1>1. CASE \E t \in Text : StartResolve(a, t)
  BY <1>1 DEF StartResolve, StartEdit
<1>2. CASE \E t \in Text, p \in Provider : StartAddAlias(a, t, p)
  BY <1>2 DEF StartAddAlias
<1>3. CASE \E t \in Text, p \in Provider : StartRemap(a, t, p) \/ StartRemapToNew(a, t, p)
  BY <1>3 DEF StartRemap, StartRemapToNew
<1>4. CASE \E p \in Provider : PickTarget(a, p) \/ CreateTarget(a, p)
  BY <1>4 DEF PickTarget, CreateTarget
<1>5. CASE UpsertAlias(a)
  BY <1>5 DEF UpsertAlias
<1>6. CASE SetCache(a)
  BY <1>6 DEF SetCache
<1>7. CASE MarkResolved(a)
  BY <1>7 DEF MarkResolved
<1>8. CASE ScanSnapshots(a)
  BY <1>8 DEF ScanSnapshots
<1>9. CASE \E k \in Key : RepointRow(a, k)
  BY <1>9 DEF RepointRow
<1>10. CASE FinishRows(a)
  BY <1>10 DEF FinishRows
<1>11. CASE \E p \in Provider, force \in BOOLEAN : StartDeleteProvider(a, p, force)
  BY <1>11 DEF StartDeleteProvider
<1>12. CASE EraseProvider(a)
  BY <1>12 DEF EraseProvider
<1>13. CASE \E t \in Text : DeleteAlias(a, t)
  BY <1>13 DEF DeleteAlias
<1>14. CASE ReadAliases(a)
  BY <1>14 DEF ReadAliases
<1>15. CASE SwapCache(a)
  BY <1>15 DEF SwapCache
<1>16. CASE EditFails(a)
  BY <1>16 DEF EditFails
<1>17. QED
  BY <1>1, <1>2, <1>3, <1>4, <1>5, <1>6, <1>7, <1>8, <1>9, <1>10, <1>11, <1>12, <1>13, <1>14, <1>15, <1>16 DEF AdminStep

(* One request moves at a time.                                                *)
LEMMA AdminAlone ==
    ASSUME TypeInv, NEW a \in Admin, AdminStep(a)
    PROVE  \A b \in Admin \ {a} : adm'[b] = adm[b]
<1> SUFFICES \E r : adm' = [adm EXCEPT ![a] = r]
  BY DEF TypeInv, AdmTypeOK
<1>1. CASE \E t \in Text : StartResolve(a, t)
  BY <1>1 DEF StartResolve, StartEdit
<1>2. CASE \E t \in Text, p \in Provider : StartAddAlias(a, t, p)
  BY <1>2 DEF StartAddAlias, StartAlias, StartEdit
<1>3. CASE \E t \in Text, p \in Provider : StartRemap(a, t, p) \/ StartRemapToNew(a, t, p)
  BY <1>3 DEF StartRemap, StartRemapToNew, StartAlias, StartEdit
<1>4. CASE \E p \in Provider : PickTarget(a, p) \/ CreateTarget(a, p)
  BY <1>4 DEF PickTarget, CreateTarget
<1>5. CASE UpsertAlias(a)
  BY <1>5 DEF UpsertAlias
<1>6. CASE SetCache(a)
  BY <1>6 DEF SetCache
<1>7. CASE MarkResolved(a)
  BY <1>7 DEF MarkResolved
<1>8. CASE ScanSnapshots(a)
  BY <1>8 DEF ScanSnapshots
<1>9. CASE \E k \in Key : RepointRow(a, k)
  BY <1>9 DEF RepointRow
<1>10. CASE FinishRows(a)
  BY <1>10 DEF FinishRows
<1>11. CASE \E p \in Provider, force \in BOOLEAN : StartDeleteProvider(a, p, force)
  BY <1>11 DEF StartDeleteProvider, StartEdit
<1>12. CASE EraseProvider(a)
  BY <1>12 DEF EraseProvider
<1>13. CASE \E t \in Text : DeleteAlias(a, t)
  BY <1>13 DEF DeleteAlias, StartEdit
<1>14. CASE ReadAliases(a)
  BY <1>14 DEF ReadAliases
<1>15. CASE SwapCache(a)
  BY <1>15 DEF SwapCache
<1>16. CASE EditFails(a)
  BY <1>16 DEF EditFails
<1>17. QED
  BY <1>1, <1>2, <1>3, <1>4, <1>5, <1>6, <1>7, <1>8, <1>9, <1>10, <1>11, <1>12, <1>13, <1>14, <1>15, <1>16 DEF AdminStep

(* Only the resolver, a resolution and a reset touch what triage has seen.      *)
LEMMA WhoQueues ==
    ASSUME [Next]_vars
    PROVE  \/ UNCHANGED <<queue, sighted, raced>>
           \/ \E i \in Ingest : QueueVariant(i)
           \/ \E a \in Admin : MarkResolved(a)
           \/ ResetDatabase
<1>1. CASE \E i \in Ingest : IngestStep(i)
  BY <1>1, IngestLeaves
<1>2. CASE \E a \in Admin : AdminStep(a)
  BY <1>2, AdminLeaves
<1>3. CASE Crash \/ UNCHANGED vars
  BY <1>3 DEF Crash, vars, db, observers
<1>4. QED BY <1>1, <1>2, <1>3 DEF Next

(* A file reads the variant only to write it back.                             *)
LEMMA WhoReads ==
    ASSUME TypeInv, NEW i \in Ingest, IngestStep(i)
    PROVE  /\ \A j \in Ingest \ {i} : ing'[j] = ing[j]
           /\ ing'[i].pc = "queue" => FindVariant(i)
<1>a. ing \in [Ingest -> IngestRecord] /\ ing[i] \in IngestRecord
  BY DEF TypeInv, IngTypeOK
<1>1. CASE \E m \in Mno, f \in File : StartFile(i, m, f)
  BY <1>1, <1>a DEF StartFile, IdleIngest
<1>2. CASE StartDsxBackfill(i)
  BY <1>2, <1>a DEF StartDsxBackfill, IdleIngest
<1>3. CASE \E m \in Mno : NextGap(i, m)
  BY <1>3, <1>a DEF NextGap, IngestRecord
<1>4. CASE FinishDsxBackfill(i)
  BY <1>4, <1>a DEF FinishDsxBackfill, IdleIngest
<1>5. CASE MatchText(i)
  BY <1>5, <1>a DEF MatchText, AfterText, IngestRecord
<1>6. CASE FindVariant(i)
  BY <1>6, <1>a DEF FindVariant
<1>7. CASE QueueVariant(i)
  BY <1>7, <1>a DEF QueueVariant, AfterText, IngestRecord
<1>8. CASE WriteRow(i)
  BY <1>8, <1>a DEF WriteRow, AfterText, IngestRecord
<1>9. CASE SaveSnapshot(i)
  BY <1>9, <1>a DEF SaveSnapshot, IdleIngest
<1>10. CASE IngestFails(i)
  BY <1>10, <1>a DEF IngestFails, IdleIngest
<1>11. QED
  BY <1>1, <1>2, <1>3, <1>4, <1>5, <1>6, <1>7, <1>8, <1>9, <1>10 DEF IngestStep

LEMMA ListedQueued ==
    ASSUME TypeInv, TypeInv', ListedInv, NEW i \in Ingest, QueueVariant(i)
    PROVE  ListedInv'
<1> DEFINE t == ing[i].text
           k == ing[i].key
           n == <<t, k>>
           other == \E j \in Ingest \ {i} : ing[j].pc = "queue" /\ ing[j].text = t
<1>1. t \in Text /\ k \in Key /\ ing[i].pc = "queue"
  BY DEF QueueVariant, TypeInv, IngFrames, IngFrame
<1>2. /\ \A u \in Text \ {t} : queue'[u] = queue[u]
      /\ queue'[t] = [status |-> IF queue[t] = Null THEN "PENDING" ELSE queue[t].status,
                      service |-> k[2], tadigs |-> QueuedTadigs(i)]
      /\ sighted' = sighted \cup {n}
      /\ raced' = IF other THEN raced \cup ({n} \ sighted) ELSE raced \ {n}
  BY <1>1 DEF QueueVariant, TypeInv, DbTypeOK
<1>3. queue'[t] # Null /\ queue'[t].tadigs = ing[i].tadigs \cup {k[1]}
  <2>1. queue'[t].tadigs = ing[i].tadigs \cup {k[1]}
    BY <1>2 DEF QueuedTadigs
  <2>2. queue[t] = Null \/ queue[t] \in Variant
    BY <1>1 DEF TypeInv, DbTypeOK
  <2>3. ing[i].tadigs \subseteq Mno
    BY DEF TypeInv, IngTypeOK, IngestRecord
  <2>4. queue'[t] \in Variant
    BY <1>1, <1>2, <2>2, <2>3 DEF QueuedTadigs, Variant, Key
  <2>5. QED BY <2>1, <2>4, NoVariantAssumption
<1>4. /\ \A j \in Ingest \ {i} : ing'[j] = ing[j]
      /\ ing'[i].pc # "queue"
  BY DEF QueueVariant, AfterText, TypeInv, IngTypeOK, IngestRecord
<1>5. n[1] = t /\ n[2][1] = k[1]
  OBVIOUS
<1> HIDE DEF n
<1>6. ASSUME NEW x \in sighted' \ raced'
      PROVE  /\ queue'[x[1]] # Null /\ x[2][1] \in queue'[x[1]].tadigs
             /\ \A j \in Ingest : ing'[j].pc = "queue" /\ ing'[j].text = x[1] =>
                     x[2][1] \in ing'[j].tadigs
  <2>1. CASE x \in sighted \ raced
    <3>1. x \in Text \X Key
      BY <2>1 DEF TypeInv, DbTypeOK
    <3>2. /\ queue[x[1]] # Null /\ x[2][1] \in queue[x[1]].tadigs
          /\ \A j \in Ingest : ing[j].pc = "queue" /\ ing[j].text = x[1] =>
                  x[2][1] \in ing[j].tadigs
      BY <2>1 DEF ListedInv
    <3>3. CASE x[1] = t
      BY <1>1, <1>3, <1>4, <3>2, <3>3
    <3>4. CASE x[1] # t
      BY <1>2, <1>4, <3>1, <3>2, <3>4
    <3>5. QED BY <3>3, <3>4
  <2>2. CASE x \notin sighted \ raced
    <3>1. x = n /\ ~other
      BY <1>2, <1>6, <2>2
    <3>2. QED BY <1>3, <1>4, <1>5, <3>1
  <2>3. QED BY <2>1, <2>2
<1>7. QED BY <1>6 DEF ListedInv

LEMMA ListedStep == TypeInv /\ ListedInv /\ [Next]_vars => ListedInv'
<1> SUFFICES ASSUME TypeInv, ListedInv, [Next]_vars PROVE ListedInv'
  OBVIOUS
<1>a. TypeInv'
  BY TypeStep
<1>1. ASSUME NEW i \in Ingest, IngestStep(i) PROVE ListedInv'
  <2>1. CASE QueueVariant(i)
    BY <2>1, <1>a, ListedQueued
  <2>2. CASE UNCHANGED <<queue, raced, sighted>>
    <3>1. ASSUME NEW x \in sighted \ raced, ing'[i].pc = "queue", ing'[i].text = x[1]
          PROVE  x[2][1] \in ing'[i].tadigs
      <4>1. FindVariant(i)
        BY <1>1, <3>1, WhoReads
      <4>2. ing'[i].text = ing[i].text /\ ing'[i].tadigs = TadigsOf(ing[i].text)
        BY <4>1 DEF FindVariant, TypeInv, IngTypeOK, IngestRecord
      <4>3. QED BY <3>1, <4>2 DEF TadigsOf, ListedInv
    <3>2. \A j \in Ingest \ {i} : ing'[j] = ing[j]
      BY <1>1, WhoReads
    <3>3. QED BY <2>2, <3>1, <3>2 DEF ListedInv
  <2>3. QED BY <1>1, <2>1, <2>2, IngestLeaves
<1>2. ASSUME NEW a \in Admin, AdminStep(a) PROVE ListedInv'
  <2>1. UNCHANGED <<ing, raced, sighted>>
    BY <1>2, AdminLeaves
  <2>2. CASE MarkResolved(a)
    <3>1. adm[a].text \in Text /\ queue[adm[a].text] \in Variant
      BY <2>2 DEF MarkResolved, TypeInv, DbTypeOK, AdmFrames, AdmFrame
    <3>2. [queue[adm[a].text] EXCEPT !.status = "RESOLVED"] \in Variant
      BY <3>1 DEF Variant
    <3>3. queue' = [queue EXCEPT ![adm[a].text] = [queue[adm[a].text] EXCEPT !.status = "RESOLVED"]]
      BY <2>2, <3>1 DEF MarkResolved, TypeInv, DbTypeOK
    <3>4. \A t \in Text : queue[t] # Null => queue'[t] # Null /\ queue'[t].tadigs = queue[t].tadigs
      BY <3>1, <3>2, <3>3, NoVariantAssumption DEF TypeInv, DbTypeOK, Variant
    <3>5. \A x \in sighted : x[1] \in Text
      BY DEF TypeInv, DbTypeOK
    <3>6. QED BY <2>1, <3>4, <3>5 DEF ListedInv
  <2>3. CASE UNCHANGED queue
    BY <2>1, <2>3 DEF ListedInv
  <2>4. QED BY <1>2, <2>2, <2>3, AdminLeaves
<1>3. CASE ResetDatabase
  BY <1>3 DEF ResetDatabase, ListedInv
<1>4. CASE Crash
  BY <1>4 DEF Crash, db, ListedInv, IdleIngest
<1>5. CASE UNCHANGED vars
  BY <1>5 DEF vars, db, observers, ListedInv
<1>6. QED BY <1>1, <1>2, <1>3, <1>4, <1>5 DEF Next

(* A resolution that has come past its alias put it in the table.               *)
LEMMA WhoGives ==
    ASSUME TypeInv, NEW a \in Admin, AdminStep(a),
           adm'[a].op = "resolve", adm'[a].pc \in {"cache", "mark"}
    PROVE  /\ adm'[a].text = adm[a].text
           /\ UpsertAlias(a) \/ (adm[a].op = "resolve" /\ adm[a].pc = "cache")
<1>a. adm[a] \in AdminRecord /\ AdmFrame(a) /\ a \in DOMAIN adm
  BY DEF TypeInv, AdmTypeOK, AdmFrames
<1>1. ~\E t \in Text : StartResolve(a, t)
  BY <1>a DEF StartResolve, StartEdit, IdleAdmin
<1>2. ~\E t \in Text, p \in Provider : StartAddAlias(a, t, p)
  BY <1>a DEF StartAddAlias, StartAlias, StartEdit, IdleAdmin
<1>3. ~\E t \in Text, p \in Provider : StartRemap(a, t, p) \/ StartRemapToNew(a, t, p)
  BY <1>a DEF StartRemap, StartRemapToNew, StartAlias, StartEdit, IdleAdmin
<1>4. ~\E p \in Provider : PickTarget(a, p) \/ CreateTarget(a, p)
  BY <1>a DEF PickTarget, CreateTarget, AdminRecord
<1>5. CASE UpsertAlias(a)
  BY <1>5, <1>a DEF UpsertAlias, AdminRecord
<1>6. CASE SetCache(a)
  BY <1>6, <1>a DEF SetCache, IdleAdmin, AdminRecord
<1>7. ~MarkResolved(a)
  BY <1>a DEF MarkResolved, AdminRecord
<1>8. ~ScanSnapshots(a)
  BY <1>a DEF ScanSnapshots, AdminRecord
<1>9. ~\E k \in Key : RepointRow(a, k)
  <2> SUFFICES ASSUME NEW k \in Key, RepointRow(a, k) PROVE FALSE
    OBVIOUS
  <2>1. adm'[a].pc = "rows"
    BY <1>a DEF RepointRow, AdminRecord
  <2>2. QED BY <2>1
<1>10. ~FinishRows(a)
  BY <1>a DEF FinishRows, IdleAdmin
<1>11. ~\E p \in Provider, force \in BOOLEAN : StartDeleteProvider(a, p, force)
  BY <1>a DEF StartDeleteProvider, StartEdit, IdleAdmin
<1>12. ~EraseProvider(a)
  BY <1>a DEF EraseProvider, AdminRecord
<1>13. ~\E t \in Text : DeleteAlias(a, t)
  BY <1>a DEF DeleteAlias, StartEdit, IdleAdmin
<1>14. ~ReadAliases(a)
  BY <1>a DEF ReadAliases, AdminRecord
<1>15. ~SwapCache(a)
  BY <1>a DEF SwapCache, IdleAdmin
<1>16. ~EditFails(a)
  BY <1>a DEF EditFails, IdleAdmin
<1>17. QED
  BY <1>1, <1>2, <1>3, <1>4, <1>5, <1>6, <1>7, <1>8, <1>9, <1>10, <1>11, <1>12, <1>13, <1>14, <1>15, <1>16 DEF AdminStep

(* An alias goes only by being detached.                                        *)
LEMMA GivenStays ==
    ASSUME TypeInv, [Next]_vars, NEW t \in Text, Given(t)
    PROVE  Given(t)'
<1>1. CASE UNCHANGED <<alias, detached>>
  BY <1>1 DEF Given
<1>2. ASSUME NEW a \in Admin, AdminStep(a) PROVE Given(t)'
  <2>1. CASE UpsertAlias(a)
    <3>1. /\ alias' = [alias EXCEPT ![adm[a].text] = adm[a].to]
          /\ detached' = detached \ {adm[a].text}
          /\ adm[a].to # Null
      BY <2>1, Constants DEF UpsertAlias, TypeInv, AdmFrames, AdmFrame
    <3>2. QED BY <3>1 DEF Given, TypeInv, DbTypeOK
  <2>2. CASE EraseProvider(a)
    BY <2>2 DEF EraseProvider, Given
  <2>3. CASE \E u \in Text : DeleteAlias(a, u)
    BY <2>3 DEF DeleteAlias, Given, TypeInv, DbTypeOK
  <2>4. QED BY <1>2, <1>1, <2>1, <2>2, <2>3, AdminLeaves
<1>3. CASE \E i \in Ingest : IngestStep(i)
  BY <1>1, <1>3, IngestLeaves
<1>4. CASE ResetDatabase \/ Crash \/ UNCHANGED vars
  BY <1>1, <1>4 DEF ResetDatabase, Crash, vars, db, observers
<1>5. QED BY <1>2, <1>3, <1>4 DEF Next

LEMMA GivenStep == TypeInv /\ GivenInv /\ [Next]_vars => GivenInv'
<1> SUFFICES ASSUME TypeInv, GivenInv, [Next]_vars PROVE GivenInv'
  OBVIOUS
<1>1. ASSUME NEW t \in Text, queue'[t] # Null, queue'[t].status = "RESOLVED"
      PROVE  Given(t)'
  <2>1. CASE UNCHANGED queue
    BY <1>1, <2>1, GivenStays DEF GivenInv
  <2>2. CASE \E i \in Ingest : QueueVariant(i)
    <3>1. queue[t] # Null /\ queue[t].status = "RESOLVED"
      BY <1>1, <2>2 DEF QueueVariant, TypeInv, DbTypeOK
    <3>2. QED BY <3>1, GivenStays DEF GivenInv
  <2>3. CASE \E a \in Admin : MarkResolved(a)
    <3>1. PICK a \in Admin : MarkResolved(a)
      BY <2>3
    <3>2. adm[a].pc = "mark" /\ adm[a].op = "resolve"
      BY <3>1 DEF MarkResolved, TypeInv, AdmFrames, AdmFrame
    <3>3. t # adm[a].text => queue'[t] = queue[t]
      BY <3>1 DEF MarkResolved, TypeInv, DbTypeOK
    <3>4. Given(t)
      BY <1>1, <3>2, <3>3 DEF GivenInv
    <3>5. QED BY <3>4, GivenStays
  <2>4. CASE ResetDatabase
    BY <2>1, <2>4 DEF ResetDatabase
  <2>5. QED BY <2>1, <2>2, <2>3, <2>4, WhoQueues
<1>2. ASSUME NEW a \in Admin, adm'[a].op = "resolve", adm'[a].pc \in {"cache", "mark"},
             NEW u, u = adm'[a].text
      PROVE  Given(u)'
  <2>1. adm[a] \in AdminRecord /\ AdmFrame(a)
    BY DEF TypeInv, AdmTypeOK, AdmFrames
  <2>2. ASSUME adm[a].op = "resolve", adm[a].pc \in {"cache", "mark"}, u = adm[a].text
        PROVE  Given(u)'
    <3>1. u \in Text
      BY <2>1, <2>2 DEF AdmFrame
    <3>2. Given(u)
      BY <2>2 DEF GivenInv
    <3>3. QED BY <3>1, <3>2, GivenStays
  <2>3. CASE AdminStep(a)
    <3>1. u = adm[a].text
      BY <1>2, <2>3, WhoGives
    <3>2. CASE UpsertAlias(a)
      <4>1. /\ alias' = [alias EXCEPT ![u] = adm[a].to]
            /\ adm[a].to # Null /\ u \in Text
        BY <3>1, <3>2, <2>1, Constants DEF UpsertAlias, AdmFrame
      <4>2. QED BY <4>1 DEF Given, TypeInv, DbTypeOK
    <3>3. CASE adm[a].op = "resolve" /\ adm[a].pc = "cache"
      BY <3>1, <3>3, <2>2
    <3>4. QED BY <1>2, <2>3, <3>2, <3>3, WhoGives
  <2>4. ASSUME adm'[a] = adm[a] PROVE Given(u)'
    BY <1>2, <2>2, <2>4
  <2>5. ASSUME NEW b \in Admin, AdminStep(b), b # a PROVE adm'[a] = adm[a]
    BY <2>5, AdminAlone
  <2>6. ~Crash
    BY <1>2 DEF Crash, IdleAdmin
  <2>7. (\E i \in Ingest : IngestStep(i)) => adm' = adm
    BY IngestLeaves
  <2>8. ResetDatabase \/ UNCHANGED vars => adm' = adm
    BY DEF ResetDatabase, vars
  <2>9. QED BY <2>3, <2>4, <2>5, <2>6, <2>7, <2>8 DEF Next
<1>3. \A a \in Admin : adm'[a].op = "resolve" /\ adm'[a].pc \in {"cache", "mark"} =>
          alias'[adm'[a].text] # Null \/ adm'[a].text \in detached'
  BY <1>2 DEF Given
<1>4. QED BY <1>1, <1>3 DEF GivenInv, Given

LEMMA TriageStep == TypeInv /\ TriageInv /\ [Next]_vars => TriageInv'
BY ListedStep, GivenStep DEF TriageInv

LEMMA InitTriage == Init => TriageInv
BY DEF Init, TriageInv, ListedInv, GivenInv, IdleAdmin

LEMMA AlwaysTriage == Spec => [](TypeInv /\ TriageInv)
<1>1. Init => TypeInv /\ TriageInv
  BY InitTypeInv, InitTriage
<1>2. TypeInv /\ TriageInv /\ [Next]_vars => (TypeInv /\ TriageInv)'
  BY TypeStep, TriageStep
<1>3. QED BY <1>1, <1>2, PTL DEF Spec

LEMMA TriageSuffices == TypeInv /\ TriageInv => TriageIsComplete
<1> SUFFICES ASSUME TypeInv, TriageInv, NEW x \in sighted \ raced
             PROVE  /\ x[2][1] \in TadigsOf(x[1])
                    /\ \/ queue[x[1]].status = "PENDING"
                       \/ alias[x[1]] # Null
                       \/ x[1] \in detached
  BY DEF TriageIsComplete
<1>1. x[1] \in Text /\ queue[x[1]] # Null /\ x[2][1] \in queue[x[1]].tadigs
  BY DEF TriageInv, ListedInv, TypeInv, DbTypeOK
<1>2. queue[x[1]].status \in {"PENDING", "RESOLVED"}
  BY <1>1 DEF TypeInv, DbTypeOK, Variant
<1>3. queue[x[1]].status = "RESOLVED" => Given(x[1])
  BY <1>1 DEF TriageInv, GivenInv
<1>4. QED BY <1>1, <1>2, <1>3 DEF TadigsOf, Given

(* However many files, resolutions, deletions, failures, resets and crashes      *)
(* there were, every MNO that declared a carrier no alias could place is named   *)
(* by the carrier's variant, and that is listed or its carrier has had its alias *)
(* -- for every sighting that was not written between another file's read and    *)
(* write of the variant (provider-resolver.service.ts:93-115,                    *)
(* provider-alias.service.ts:24-27, 79-84).                                      *)
THEOREM TriageComplete == Spec => []TriageIsComplete
BY AlwaysTriage, TriageSuffices, PTL

-----------------------------------------------------------------------------
(* The cache.                                                                  *)

(* A step that moves nothing the table or the cache is made of, nor a request    *)
(* between the two, keeps CacheInv.                                             *)
LEMMA CacheQuiet ==
    ASSUME CacheInv, UNCHANGED <<alias, cache, desync>>,
           Others \in providers' <=> Others \in providers, Writing' = Writing,
           \A a \in Writing : adm'[a] = adm[a]
    PROVE  CacheInv'
<1>1. Table' = Table
  BY DEF Table
<1>2. QED BY <1>1 DEF CacheInv

LEMMA CacheAdmin ==
    ASSUME TypeInv, CacheInv, NEW a \in Admin, AdminStep(a)
    PROVE  CacheInv'
<1> USE DEF db, bounds, observers
<1>a. adm[a] \in AdminRecord /\ AdmFrame(a) /\ a \in DOMAIN adm
  BY DEF TypeInv, AdmTypeOK, AdmFrames
<1>b. \A b \in Admin \ {a} : adm'[b] = adm[b]
  BY AdminAlone
<1>c. Writing' \ {a} = Writing \ {a}
  BY <1>b DEF Writing
<1>d. TypeInv' /\ desync \in BOOLEAN /\ desync' \in BOOLEAN
  BY TypeStep DEF Next, TypeInv, DbTypeOK
<1>e. ASSUME a \notin Writing, a \notin Writing', UNCHANGED <<alias, cache, desync>>,
             Others \in providers' <=> Others \in providers
      PROVE  CacheInv'
  <2>1. Writing' = Writing
    BY <1>c, <1>e
  <2>2. \A b \in Writing : adm'[b] = adm[b]
    BY <1>b, <1>e DEF Writing
  <2>3. QED BY <1>e, <2>1, <2>2, CacheQuiet
<1>f. \A p \in Provider : p \notin used => p # Others
  BY ConstantsAssumption DEF TypeInv, DbTypeOK
<1>1. CASE \E t \in Text : StartResolve(a, t)
  <2>1. a \notin Writing /\ a \notin Writing'
    BY <1>1, <1>a DEF Writing, StartResolve, StartEdit, IdleAdmin
  <2>2. QED BY <1>1, <2>1, <1>e DEF StartResolve
<1>2. CASE \E t \in Text, p \in Provider :
             StartAddAlias(a, t, p) \/ StartRemap(a, t, p) \/ StartRemapToNew(a, t, p)
  <2>1. a \notin Writing /\ a \notin Writing'
    <3>1. PICK t \in Text, p \in Provider, op \in {"add", "remap"} : StartAlias(a, op, t, p)
      BY <1>2 DEF StartAddAlias, StartRemap, StartRemapToNew
    <3>2. adm[a].pc = "idle" /\ adm'[a].pc = "upsert"
      BY <3>1, <1>a DEF StartAlias, StartEdit, IdleAdmin
    <3>3. QED BY <3>2 DEF Writing
  <2>2. QED BY <1>2, <2>1, <1>e, <1>f DEF StartAddAlias, StartRemap, StartRemapToNew
<1>3. CASE \E p \in Provider : PickTarget(a, p) \/ CreateTarget(a, p)
  <2>1. a \notin Writing /\ a \notin Writing'
    BY <1>3, <1>a DEF Writing, PickTarget, CreateTarget, AdminRecord
  <2>2. QED BY <1>3, <2>1, <1>e, <1>f DEF PickTarget, CreateTarget
<1>4. CASE UpsertAlias(a)
  <2>1. a \notin Writing /\ Writing' = Writing \cup {a} /\ (desync' <=> desync \/ Writing # {})
    BY <1>4, <1>a, <1>b DEF UpsertAlias, Writing, AdminRecord
  <2>2. CASE ~desync /\ Writing = {}
    <3>1. cache = Table /\ Writing' = {a}
      BY <2>1, <2>2 DEF CacheInv
    <3>2. adm'[a].pc = "cache" /\ adm'[a].text = adm[a].text /\ adm'[a].to = adm[a].to
      BY <1>4, <1>a DEF UpsertAlias, AdminRecord
    <3>3. adm[a].text \in Text /\ cache' = cache /\ alias' = [alias EXCEPT ![adm[a].text] = adm[a].to]
      BY <1>4, <1>a DEF UpsertAlias, AdmFrame
    <3>4. [Table EXCEPT ![adm[a].text] = adm[a].to] = Table'
      BY <1>4, <3>3, Constants DEF UpsertAlias, Table, Declared, TypeInv, DbTypeOK
    <3>5. QED BY <3>1, <3>2, <3>3, <3>4 DEF CacheInv
  <2>3. QED BY <2>1, <2>2 DEF CacheInv
<1>5. CASE SetCache(a)
  <2>1. a \in Writing /\ Writing' = Writing \ {a} /\ (desync' <=> desync)
    <3>1. a \in Writing /\ adm[a].pc = "cache"
      BY <1>5 DEF SetCache, Writing
    <3>2. adm'[a].pc \in {"idle", "mark", "scan"}
      BY <1>5, <1>a DEF SetCache, AfterAlias, IdleAdmin, AdminRecord
    <3>3. desync' = desync
      BY <1>5 DEF SetCache
    <3>4. QED BY <3>1, <3>2, <3>3, <1>c DEF Writing
  <2>2. CASE ~desync
    <3>1. Writing = {a} /\ Writing' = {}
      BY <2>1, <2>2 DEF CacheInv
    <3>2. cache' = Table
      BY <1>5, <2>1, <2>2 DEF CacheInv, SetCache
    <3>3. Table' = Table
      BY <1>5 DEF SetCache, Table
    <3>4. QED BY <3>1, <3>2, <3>3 DEF CacheInv
  <2>3. QED BY <2>1, <2>2 DEF CacheInv
<1>6. CASE MarkResolved(a)
  <2>1. a \notin Writing /\ a \notin Writing'
    BY <1>6, <1>a DEF Writing, MarkResolved, AdminRecord
  <2>2. QED BY <1>6, <2>1, <1>e DEF MarkResolved
<1>7. CASE ScanSnapshots(a)
  <2>1. a \notin Writing /\ a \notin Writing'
    BY <1>7, <1>a DEF Writing, ScanSnapshots, AdminRecord
  <2>2. QED BY <1>7, <2>1, <1>e DEF ScanSnapshots
<1>8. CASE \E k \in Key : RepointRow(a, k)
  <2>1. a \notin Writing /\ a \notin Writing'
    BY <1>8, <1>a DEF Writing, RepointRow, AdminRecord
  <2>2. QED BY <1>8, <2>1, <1>e DEF RepointRow
<1>9. CASE FinishRows(a)
  <2>1. a \notin Writing /\ a \notin Writing'
    BY <1>9, <1>a DEF Writing, FinishRows, IdleAdmin
  <2>2. QED BY <1>9, <2>1, <1>e DEF FinishRows
<1>10. CASE \E p \in Provider, force \in BOOLEAN : StartDeleteProvider(a, p, force)
  <2>1. a \notin Writing /\ a \notin Writing'
    BY <1>10, <1>a DEF Writing, StartDeleteProvider, StartEdit, IdleAdmin
  <2>2. QED BY <1>10, <2>1, <1>e DEF StartDeleteProvider
<1>11. CASE EraseProvider(a) \/ \E t \in Text : DeleteAlias(a, t)
  <2>1. adm'[a].pc = "reload" /\ a \notin Writing /\ (desync' <=> desync \/ Writing # {})
    BY <1>11, <1>a DEF EraseProvider, DeleteAlias, StartEdit, Writing, IdleAdmin, AdminRecord
  <2>2. ~desync' => Writing' = {a}
    BY <1>c, <2>1 DEF Writing
  <2>3. QED BY <2>1, <2>2 DEF CacheInv
<1>12. CASE ReadAliases(a)
  <2>1. adm[a].pc = "reload" /\ adm'[a].pc = "swap" /\ adm'[a].loaded = Table
    BY <1>12, <1>a DEF ReadAliases, AdminRecord
  <2>2. Writing' = Writing /\ Table' = Table /\ cache' = cache /\ desync' = desync /\ a \in Writing
    BY <1>12, <1>c, <2>1 DEF ReadAliases, Writing, Table
  <2>3. QED BY <2>1, <2>2, <1>b DEF CacheInv
<1>13. CASE SwapCache(a)
  <2>1. /\ a \in Writing /\ cache' = adm[a].loaded /\ adm[a].pc = "swap"
        /\ (desync' <=> desync /\ (Writing # {a} \/ adm[a].loaded # Table))
    BY <1>13 DEF SwapCache, Writing
  <2>2. Table' = Table /\ Writing' = Writing \ {a}
    BY <1>13, <1>a, <1>c DEF SwapCache, Table, Writing, IdleAdmin
  <2>3. ~desync' => Writing = {a} /\ adm[a].loaded = Table
    BY <2>1, <1>d DEF CacheInv
  <2>4. QED BY <2>1, <2>2, <2>3 DEF CacheInv
<1>14. CASE EditFails(a)
  <2>1. a \notin Writing' /\ (desync' <=> desync \/ a \in Writing)
    BY <1>14, <1>a DEF EditFails, Writing, IdleAdmin
  <2>2. CASE a \in Writing
    BY <2>1, <2>2 DEF CacheInv
  <2>3. CASE a \notin Writing
    BY <1>14, <1>d, <2>1, <2>3, <1>e DEF EditFails
  <2>4. QED BY <2>2, <2>3
<1>15. QED
  BY <1>1, <1>2, <1>3, <1>4, <1>5, <1>6, <1>7, <1>8, <1>9, <1>10, <1>11, <1>12, <1>13, <1>14
     DEF AdminStep

LEMMA CacheStep == TypeInv /\ CacheInv /\ [Next]_vars => CacheInv'
<1> SUFFICES ASSUME TypeInv, CacheInv, [Next]_vars PROVE CacheInv'
  OBVIOUS
<1>1. CASE \E i \in Ingest : IngestStep(i)
  <2>1. UNCHANGED <<providers, alias, cache, adm, desync>>
    BY <1>1, IngestLeaves
  <2>2. QED BY <2>1, CacheQuiet DEF Writing
<1>2. CASE ResetDatabase \/ UNCHANGED vars
  <2>1. UNCHANGED <<providers, alias, cache, adm, desync>>
    BY <1>2 DEF ResetDatabase, vars, db, observers
  <2>2. QED BY <2>1, CacheQuiet DEF Writing
<1>3. CASE Crash
  <2>1. Writing' = {}
    BY <1>3 DEF Crash, Writing, IdleAdmin
  <2>2. cache' = Table /\ Table' = Table
    BY <1>3 DEF Crash, Table, db
  <2>3. QED BY <2>1, <2>2 DEF CacheInv
<1>4. QED BY <1>1, <1>2, <1>3, CacheAdmin DEF Next

LEMMA AlwaysCacheInv == Spec => [](TypeInv /\ CacheInv)
<1>1. Init => TypeInv /\ CacheInv
  BY InitTypeInv DEF Init, CacheInv, Writing, IdleAdmin
<1>2. TypeInv /\ CacheInv /\ [Next]_vars => (TypeInv /\ CacheInv)'
  BY TypeStep, CacheStep
<1>3. QED BY <1>1, <1>2, PTL DEF Spec

(* Between requests the cache the resolver matches against is the alias table,   *)
(* through every interleaving of additions, remaps, deletions and restarts,      *)
(* unless one cache update was overtaken or lost and no refresh has run           *)
(* undisturbed since (provider-resolver.service.ts:24-44).                       *)
THEOREM CacheTrue == Spec => []CacheFollowsTable
<1>1. CacheInv => CacheFollowsTable
  BY DEF CacheInv, CacheFollowsTable
<1>2. QED BY <1>1, AlwaysCacheInv, PTL

-----------------------------------------------------------------------------
(* Deletions.                                                                  *)

LEMMA EraseQuiet ==
    ASSUME EraseInv, UNCHANGED <<conn, arrived>>, Erasing' = Erasing,
           \A a \in Erasing : adm'[a] = adm[a]
    PROVE  EraseInv'
BY DEF EraseInv

LEMMA ErasePut ==
    ASSUME TypeInv, EraseInv, NEW k \in Key, NEW p, PutRow(k, p), Erasing' = Erasing,
           \A a \in Erasing : adm'[a] = adm[a]
    PROVE  EraseInv'
<1>1. conn' = [conn EXCEPT ![k] = p] /\ (Erasing # {} => arrived' = arrived \cup {k})
  BY DEF PutRow
<1>2. \A j \in Key \ {k} : conn'[j] = conn[j]
  BY <1>1 DEF TypeInv, DbTypeOK
<1>3. QED BY <1>1, <1>2 DEF EraseInv

LEMMA EraseStep == TypeInv /\ EraseInv /\ [Next]_vars => EraseInv'
<1> SUFFICES ASSUME TypeInv, EraseInv, [Next]_vars PROVE EraseInv'
  OBVIOUS
<1> USE DEF db, bounds, observers
<1>1. ASSUME NEW i \in Ingest, IngestStep(i) PROVE EraseInv'
  <2>1. adm' = adm /\ Erasing' = Erasing
    BY <1>1, IngestLeaves DEF Erasing
  <2>2. CASE UNCHANGED <<conn, arrived>>
    BY <2>1, <2>2, EraseQuiet
  <2>3. CASE WriteRow(i)
    <3>1. ing[i].key \in Key /\ PutRow(ing[i].key, ing[i].to)
      BY <2>3 DEF WriteRow, TypeInv, IngFrames, IngFrame
    <3>2. QED BY <2>1, <3>1, ErasePut
  <2>4. QED BY <1>1, <2>2, <2>3, IngestLeaves
<1>2. ASSUME NEW a \in Admin, AdminStep(a) PROVE EraseInv'
  <2>a. adm[a] \in AdminRecord /\ AdmFrame(a) /\ a \in DOMAIN adm
    BY DEF TypeInv, AdmTypeOK, AdmFrames
  <2>b. \A b \in Admin \ {a} : adm'[b] = adm[b]
    BY <1>2, AdminAlone
  <2>c. Erasing' \ {a} = Erasing \ {a}
    BY <2>b DEF Erasing
  <2>1. CASE EraseProvider(a)
    <3>1. a \notin Erasing' /\ arrived' = arrived
      BY <2>1, <2>a DEF EraseProvider, Erasing, AdminRecord
    <3>2. \A k \in Key : conn'[k] # Null => conn'[k] = conn[k]
      BY <2>1 DEF EraseProvider, TypeInv, DbTypeOK
    <3>3. \A b \in Erasing' : b \in Erasing /\ adm'[b] = adm[b] /\ adm[b].to # Null
      BY <3>1, <2>b, <2>c, Constants DEF TypeInv, AdmFrames, AdmFrame, Erasing
    <3>4. QED BY <3>1, <3>2, <3>3 DEF EraseInv
  <2>2. CASE \E p \in Provider, force \in BOOLEAN : StartDeleteProvider(a, p, force)
    <3>1. PICK p \in Provider, force \in BOOLEAN : StartDeleteProvider(a, p, force)
      BY <2>2
    <3>2. /\ conn' = conn /\ arrived' = (IF Erasing = {} THEN {} ELSE arrived)
          /\ force \/ \A k \in Key : conn[k] # p
      BY <3>1 DEF StartDeleteProvider, Deletable
    <3>3. adm'[a].to = p /\ adm'[a].force = force
      BY <3>1, <2>a DEF StartDeleteProvider, StartEdit, IdleAdmin
    <3>4. ASSUME NEW b \in Erasing', b # a PROVE b \in Erasing /\ adm'[b] = adm[b]
      BY <3>4, <2>b, <2>c DEF Erasing
    <3>5. QED BY <3>2, <3>3, <3>4 DEF EraseInv
  <2>3. CASE \E k \in Key : RepointRow(a, k)
    <3>1. PICK k \in Key : RepointRow(a, k)
      BY <2>3
    <3>2. adm[a].pc = "rows" /\ adm'[a].pc = "rows"
      BY <3>1, <2>a DEF RepointRow, AdminRecord
    <3>3. Erasing' = Erasing /\ \A b \in Erasing : adm'[b] = adm[b]
      BY <3>2, <2>b, <2>c DEF Erasing
    <3>4. UNCHANGED <<conn, arrived>> \/ PutRow(k, adm[a].to)
      BY <3>1 DEF RepointRow
    <3>5. QED BY <3>3, <3>4, EraseQuiet, ErasePut
  <2>4. CASE EditFails(a)
    <3>1. a \notin Erasing' /\ UNCHANGED <<conn, arrived>>
      BY <2>4, <2>a DEF EditFails, Erasing, IdleAdmin
    <3>2. \A b \in Erasing' : b \in Erasing /\ adm'[b] = adm[b]
      BY <3>1, <2>b, <2>c DEF Erasing
    <3>3. QED BY <3>1, <3>2 DEF EraseInv
  <2>5. ASSUME adm[a].pc # "erase", adm'[a].pc # "erase", UNCHANGED <<conn, arrived>>
        PROVE  EraseInv'
    <3>1. Erasing' = Erasing /\ \A b \in Erasing : adm'[b] = adm[b]
      BY <2>5, <2>b, <2>c DEF Erasing
    <3>2. QED BY <2>5, <3>1, EraseQuiet
  <2>6. CASE \E t \in Text : StartResolve(a, t)
    <3>1. adm[a].pc # "erase" /\ adm'[a].pc # "erase" /\ UNCHANGED <<conn, arrived>>
      BY <2>6, <2>a DEF StartResolve, StartEdit, IdleAdmin
    <3>2. QED BY <2>5, <3>1
  <2>7. CASE \E t \in Text, p \in Provider : StartAddAlias(a, t, p)
    <3>1. adm[a].pc # "erase" /\ adm'[a].pc # "erase" /\ UNCHANGED <<conn, arrived>>
      BY <2>7, <2>a DEF StartAddAlias, StartAlias, StartEdit, IdleAdmin, AdminRecord
    <3>2. QED BY <2>5, <3>1
  <2>8. CASE \E t \in Text, p \in Provider : StartRemap(a, t, p) \/ StartRemapToNew(a, t, p)
    <3>1. adm[a].pc # "erase" /\ adm'[a].pc # "erase" /\ UNCHANGED <<conn, arrived>>
      BY <2>8, <2>a DEF StartRemap, StartRemapToNew, StartAlias, StartEdit, IdleAdmin, AdminRecord
    <3>2. QED BY <2>5, <3>1
  <2>9. CASE \E p \in Provider : PickTarget(a, p) \/ CreateTarget(a, p)
    <3>1. adm[a].pc # "erase" /\ adm'[a].pc # "erase" /\ UNCHANGED <<conn, arrived>>
      BY <2>9, <2>a DEF PickTarget, CreateTarget, IdleAdmin, AdminRecord
    <3>2. QED BY <2>5, <3>1
  <2>10. CASE UpsertAlias(a)
    <3>1. adm[a].pc # "erase" /\ adm'[a].pc # "erase" /\ UNCHANGED <<conn, arrived>>
      BY <2>10, <2>a DEF UpsertAlias, IdleAdmin, AdminRecord
    <3>2. QED BY <2>5, <3>1
  <2>11. CASE SetCache(a)
    <3>1. adm[a].pc # "erase" /\ adm'[a].pc # "erase" /\ UNCHANGED <<conn, arrived>>
      BY <2>11, <2>a DEF SetCache, IdleAdmin, AdminRecord, AfterAlias
    <3>2. QED BY <2>5, <3>1
  <2>12. CASE MarkResolved(a)
    <3>1. adm[a].pc # "erase" /\ adm'[a].pc # "erase" /\ UNCHANGED <<conn, arrived>>
      BY <2>12, <2>a DEF MarkResolved, IdleAdmin, AdminRecord
    <3>2. QED BY <2>5, <3>1
  <2>13. CASE ScanSnapshots(a)
    <3>1. adm[a].pc # "erase" /\ adm'[a].pc # "erase" /\ UNCHANGED <<conn, arrived>>
      BY <2>13, <2>a DEF ScanSnapshots, IdleAdmin, AdminRecord
    <3>2. QED BY <2>5, <3>1
  <2>14. CASE FinishRows(a)
    <3>1. adm[a].pc # "erase" /\ adm'[a].pc # "erase" /\ UNCHANGED <<conn, arrived>>
      BY <2>14, <2>a DEF FinishRows, IdleAdmin, AdminRecord
    <3>2. QED BY <2>5, <3>1
  <2>15. CASE \E t \in Text : DeleteAlias(a, t)
    <3>1. adm[a].pc # "erase" /\ adm'[a].pc # "erase" /\ UNCHANGED <<conn, arrived>>
      BY <2>15, <2>a DEF DeleteAlias, StartEdit, IdleAdmin, AdminRecord
    <3>2. QED BY <2>5, <3>1
  <2>16. CASE ReadAliases(a)
    <3>1. adm[a].pc # "erase" /\ adm'[a].pc # "erase" /\ UNCHANGED <<conn, arrived>>
      BY <2>16, <2>a DEF ReadAliases, IdleAdmin, AdminRecord
    <3>2. QED BY <2>5, <3>1
  <2>17. CASE SwapCache(a)
    <3>1. adm[a].pc # "erase" /\ adm'[a].pc # "erase" /\ UNCHANGED <<conn, arrived>>
      BY <2>17, <2>a DEF SwapCache, IdleAdmin, AdminRecord
    <3>2. QED BY <2>5, <3>1
  <2>18. QED
    BY <1>2, <2>1, <2>2, <2>3, <2>4, <2>6, <2>7, <2>8, <2>9, <2>10, <2>11, <2>12, <2>13, <2>14, <2>15, <2>16, <2>17 DEF AdminStep
<1>3. CASE ResetDatabase
  <2>1. adm' = adm /\ Erasing' = Erasing /\ \A k \in Key : conn'[k] = Null
    BY <1>3 DEF ResetDatabase, Erasing
  <2>2. \A a \in Erasing : adm[a].to # Null
    BY Constants DEF TypeInv, AdmFrames, AdmFrame, Erasing
  <2>3. QED BY <2>1, <2>2 DEF EraseInv
<1>4. CASE Crash
  BY <1>4 DEF Crash, EraseInv, Erasing, IdleAdmin
<1>5. CASE UNCHANGED vars
  <2>1. UNCHANGED <<conn, arrived, adm>> /\ Erasing' = Erasing
    BY <1>5 DEF vars, Erasing
  <2>2. QED BY <2>1, EraseQuiet
<1>6. QED BY <1>1, <1>2, <1>3, <1>4, <1>5 DEF Next

LEMMA AlwaysEraseInv == Spec => [](TypeInv /\ EraseInv)
<1>1. Init => TypeInv /\ EraseInv
  BY InitTypeInv DEF Init, EraseInv, Erasing, IdleAdmin
<1>2. TypeInv /\ EraseInv /\ [Next]_vars => (TypeInv /\ EraseInv)'
  BY TypeStep, EraseStep
<1>3. QED BY <1>1, <1>2, PTL DEF Spec

(* A deletion without force takes no connectivity row that was there when it      *)
(* counted, however many files and remaps run between the count and the           *)
(* transaction: only what arrived since (provider-alias.service.ts:209-224).      *)
THEOREM UnforcedDeleteIsSafe == Spec => UnforcedDeleteKeepsOldRows
<1>1. TypeInv /\ EraseInv =>
        [\A a \in Admin : EraseProvider(a) /\ ~adm[a].force =>
            {k \in Key : conn[k] = adm[a].to} \subseteq arrived]_vars
  BY DEF EraseInv, Erasing, EraseProvider
<1>2. QED BY <1>1, AlwaysEraseInv, PTL DEF UnforcedDeleteKeepsOldRows

-----------------------------------------------------------------------------
(* Requests and MNOs.                                                          *)

LEMMA LiveIngest ==
    ASSUME TypeInv, LiveInv, NEW i \in Ingest, IngestStep(i)
    PROVE  LiveInv'
<1> USE DEF db, bounds, observers
<1>a. ing[i] \in IngestRecord /\ IngFrame(i) /\ i \in DOMAIN ing /\ IngLive(i)
  BY DEF TypeInv, IngTypeOK, IngFrames, LiveInv
<1>b. IsFiniteSet(mnos') /\ mnos \subseteq mnos' /\ epoch' = epoch
  <2>1. CASE \E m \in Mno, f \in File : StartFile(i, m, f)
    BY <2>1, FS_AddElement DEF StartFile, LiveInv
  <2>2. QED BY <2>1, IngestLeaves DEF LiveInv
<1>c. ASSUME \A j \in Ingest \ {i} : ing'[j] = ing[j], IngLive(i)',
             UNCHANGED snap \/ SaveSnapshot(i),
             UNCHANGED <<sighted, missed>> \/ QueueVariant(i)
      PROVE  LiveInv'
  <2>1. \A j \in Ingest : IngLive(j)'
    <3>1. \A j \in Ingest \ {i} : IngLive(j)'
      BY <1>b, <1>c DEF LiveInv, IngLive
    <3>2. QED BY <3>1, <1>c
  <2>2. \A k \in Key : snap'[k].first # Null => k[1] \in mnos'
    <3>1. CASE SaveSnapshot(i)
      <4>1. ing[i].key[1] \in mnos
        BY <3>1, <1>a DEF SaveSnapshot, Stale, IngLive
      <4>2. QED BY <3>1, <4>1, <1>b DEF SaveSnapshot, NoCarriers, LiveInv
    <3>2. QED BY <1>b, <1>c, <3>1 DEF LiveInv
  <2>3. \A x \in sighted' \ missed' : x[2][1] \in mnos'
    <3>1. CASE QueueVariant(i)
      <4>1. CASE Stale(i)
        BY <3>1, <4>1, <1>b DEF QueueVariant, LiveInv
      <4>2. CASE ~Stale(i)
        <5>1. ing[i].key[1] \in mnos
          BY <3>1, <4>2, <1>a DEF QueueVariant, Stale, IngLive
        <5>2. sighted' = sighted \cup {<<ing[i].text, ing[i].key>>} /\ missed \subseteq missed'
          BY <3>1 DEF QueueVariant
        <5>3. QED BY <5>1, <5>2, <1>b DEF LiveInv
      <4>3. QED BY <4>1, <4>2
    <3>2. QED BY <1>b, <1>c, <3>1 DEF LiveInv
  <2>4. QED BY <1>b, <2>1, <2>2, <2>3 DEF LiveInv
<1>d. ASSUME NEW r, ing' = [ing EXCEPT ![i] = r]
      PROVE  ing'[i] = r /\ \A j \in Ingest \ {i} : ing'[j] = ing[j]
  BY <1>a, <1>d DEF TypeInv, IngTypeOK
<1>e. ASSUME ing' = [ing EXCEPT ![i] = IdleIngest] PROVE IngLive(i)'
  <2>1. ing'[i] = IdleIngest
    BY <1>d, <1>e
  <2>2. 0 <= epoch
    BY DEF TypeInv, DbTypeOK
  <2>3. QED BY <2>1, <2>2, <1>b DEF IngLive, IdleIngest
<1>f. ASSUME NEW r, ing' = [ing EXCEPT ![i] = r], r.epoch = ing[i].epoch,
             r.key = ing[i].key, r.list = ing[i].list, ing[i].pc \notin {"idle", "gap"}
      PROVE  IngLive(i)'
  <2>1. ing'[i] = r
    BY <1>d, <1>f
  <2>2. QED BY <1>a, <1>b, <1>f, <2>1 DEF IngLive
<1>1. CASE \E m \in Mno, f \in File : StartFile(i, m, f)
  <2>1. PICK m \in Mno, f \in File : StartFile(i, m, f)
    BY <1>1
  <2> DEFINE r == [IdleIngest EXCEPT !.pc = "match", !.key = <<m, f.service>>,
                      !.text = f.first, !.rest = f.rest, !.epoch = epoch]
  <2>2. ing' = [ing EXCEPT ![i] = r]
    BY <2>1 DEF StartFile
  <2>3. /\ r.pc = "match" /\ r.key[1] = m /\ r.epoch = epoch
        /\ \A n \in Mno : r.list[n] = Null
    BY DEF IdleIngest
  <2>4. ing'[i] = r /\ m \in mnos' /\ \A j \in Ingest \ {i} : ing'[j] = ing[j]
    BY <2>1, <2>2, <1>d DEF StartFile
  <2> HIDE DEF r
  <2>5. IngLive(i)'
    BY <2>3, <2>4, <1>b DEF IngLive, TypeInv, DbTypeOK
  <2>6. QED BY <2>1, <2>4, <2>5, <1>c DEF StartFile
<1>2. CASE StartDsxBackfill(i)
  <2> DEFINE l == [m \in Mno |-> snap[<<m, Dsx>>].first]
             r == [IdleIngest EXCEPT !.pc = "gap", !.dsx = TRUE, !.epoch = epoch, !.list = l]
  <2>1. ing' = [ing EXCEPT ![i] = r]
    BY <1>2 DEF StartDsxBackfill
  <2>2. r.pc = "gap" /\ r.epoch = epoch /\ \A m \in Mno : r.list[m] = snap[<<m, Dsx>>].first
    BY DEF IdleIngest
  <2>3. ing'[i] = r /\ \A j \in Ingest \ {i} : ing'[j] = ing[j]
    BY <2>1, <1>d
  <2>4. \A m \in Mno : snap[<<m, Dsx>>].first # Null => m \in mnos
    BY ConstantsAssumption DEF LiveInv, Key
  <2> HIDE DEF r
  <2>5. IngLive(i)'
    <3>1. \A m \in Mno : r.list[m] # Null => m \in mnos'
      BY <2>2, <2>4, <1>b
    <3>2. epoch \in Nat
      BY DEF TypeInv, DbTypeOK
    <3>3. QED BY <2>2, <2>3, <3>1, <3>2, <1>b DEF IngLive
  <2>6. QED BY <1>2, <2>3, <2>5, <1>c DEF StartDsxBackfill
<1>3. CASE \E m \in Mno : NextGap(i, m)
  <2>1. PICK m \in Mno : NextGap(i, m)
    BY <1>3
  <2> DEFINE pc == IF ~Stale(i) /\ conn[<<m, Dsx>>] # Null THEN "gap" ELSE "match"
             r == [ing[i] EXCEPT !.list[m] = Null, !.pc = pc, !.key = <<m, Dsx>>,
                                 !.text = ing[i].list[m]]
  <2>2. ing' = [ing EXCEPT ![i] = r]
    BY <2>1, <1>a DEF NextGap, TypeInv, IngTypeOK, IngestRecord
  <2>3. r.epoch = ing[i].epoch /\ r.key[1] = m /\ ing[i].list[m] # Null
    BY <2>1, <1>a DEF NextGap, IngestRecord
  <2>4. \A n \in Mno : r.list[n] # Null => ing[i].list[n] # Null
    BY <1>a DEF IngestRecord
  <2>5. ing'[i] = r /\ \A j \in Ingest \ {i} : ing'[j] = ing[j]
    BY <2>2, <1>d
  <2> HIDE DEF r
  <2>6. IngLive(i)'
    BY <2>3, <2>4, <2>5, <1>a, <1>b DEF IngLive
  <2>7. QED BY <2>1, <2>5, <2>6, <1>c DEF NextGap
<1>4. CASE FinishDsxBackfill(i) \/ SaveSnapshot(i) \/ IngestFails(i)
  <2>1. ing' = [ing EXCEPT ![i] = IdleIngest]
    BY <1>4 DEF FinishDsxBackfill, SaveSnapshot, IngestFails
  <2>2. (UNCHANGED snap \/ SaveSnapshot(i)) /\ UNCHANGED <<sighted, missed>>
    BY <1>4 DEF FinishDsxBackfill, SaveSnapshot, IngestFails
  <2>3. QED BY <2>1, <2>2, <1>c, <1>d, <1>e
<1>5. CASE MatchText(i)
  <2>1. PICK r \in {[ing[i] EXCEPT !.pc = "write", !.to = p] : p \in Match(ing[i].text)}
                   \cup {[ing[i] EXCEPT !.pc = IF ing[i].text = Junk THEN AfterText(i) ELSE "find"]} :
             ing' = [ing EXCEPT ![i] = r]
    BY <1>5, <1>a DEF MatchText, TypeInv, IngTypeOK, IngestRecord
  <2>2. r.epoch = ing[i].epoch /\ r.key = ing[i].key /\ r.list = ing[i].list
    BY <1>a DEF IngestRecord
  <2>3. QED BY <1>5, <2>1, <2>2, <1>c, <1>d, <1>f DEF MatchText
<1>6. CASE FindVariant(i) \/ QueueVariant(i) \/ WriteRow(i)
  <2>1. PICK r \in {[ing[i] EXCEPT !.pc = "queue", !.tadigs = TadigsOf(ing[i].text)],
                    [ing[i] EXCEPT !.pc = AfterText(i), !.tadigs = {}],
                    [ing[i] EXCEPT !.pc = AfterText(i), !.to = Null]} :
             ing' = [ing EXCEPT ![i] = r]
    BY <1>6, <1>a DEF FindVariant, QueueVariant, WriteRow, TypeInv, IngTypeOK, IngestRecord
  <2>2. r.epoch = ing[i].epoch /\ r.key = ing[i].key /\ r.list = ing[i].list
    BY <1>a DEF IngestRecord
  <2>3. ing[i].pc \notin {"idle", "gap"} /\ UNCHANGED snap /\ (UNCHANGED <<sighted, missed>> \/ QueueVariant(i))
    BY <1>6 DEF FindVariant, QueueVariant, WriteRow
  <2>4. QED BY <2>1, <2>2, <2>3, <1>c, <1>d, <1>f
<1>7. QED BY <1>1, <1>2, <1>3, <1>4, <1>5, <1>6 DEF IngestStep

LEMMA LiveStep == TypeInv /\ LiveInv /\ [Next]_vars => LiveInv'
<1> SUFFICES ASSUME TypeInv, LiveInv, [Next]_vars PROVE LiveInv'
  OBVIOUS
<1>1. CASE \E a \in Admin : AdminStep(a)
  <2>1. UNCHANGED <<mnos, epoch, snap, ing, sighted>> /\ missed \subseteq missed'
    BY <1>1, AdminLeaves
  <2>2. QED BY <2>1 DEF LiveInv, IngLive
<1>2. CASE ResetDatabase
  <2>1. /\ mnos' = {} /\ epoch' = epoch + 1 /\ ing' = ing /\ sighted' = {}
        /\ \A k \in Key : snap'[k].first = Null
    BY <1>2 DEF ResetDatabase, NoCarriers
  <2>2. \A i \in Ingest : ing[i].epoch \in Nat /\ ing[i].epoch <= epoch /\ epoch \in Nat
    BY DEF LiveInv, IngLive, TypeInv, IngTypeOK, IngestRecord, DbTypeOK
  <2>3. \A i \in Ingest : IngLive(i)'
    BY <2>1, <2>2 DEF IngLive
  <2>4. QED BY <2>1, <2>3, FS_EmptySet DEF LiveInv
<1>3. CASE Crash
  <2>1. UNCHANGED <<mnos, epoch, snap, sighted>> /\ missed \subseteq missed' /\ 0 <= epoch
    BY <1>3 DEF Crash, db, TypeInv, DbTypeOK
  <2>2. \A i \in Ingest : IngLive(i)'
    BY <1>3, <2>1 DEF Crash, IngLive, IdleIngest
  <2>3. QED BY <2>1, <2>2 DEF LiveInv
<1>4. CASE UNCHANGED vars
  BY <1>4 DEF vars, db, observers, LiveInv, IngLive
<1>5. QED BY <1>1, <1>2, <1>3, <1>4, LiveIngest DEF Next

LEMMA InitLive == Init => LiveInv
BY FS_EmptySet DEF Init, LiveInv, IngLive, IdleIngest, NoCarriers

-----------------------------------------------------------------------------
(* Resolutions: what one will fill.                                            *)

(* A request with a plan: a resolution that has not started on the rows.        *)
LEMMA PlanQuiet ==
    ASSUME PlanInv, sighted' = sighted, missed \subseteq missed', raced' = raced,
           \A a \in Admin : adm'[a].op = "resolve" /\ adm'[a].pc # "rows" =>
                /\ adm[a].op = "resolve" /\ adm[a].pc # "rows"
                /\ adm'[a].text = adm[a].text /\ adm'[a].service = adm[a].service
                /\ adm'[a].todo = adm[a].todo
    PROVE  PlanInv'
BY DEF PlanInv

LEMMA PlanAdmin ==
    ASSUME TypeInv, TriageInv, PlanInv, NEW a \in Admin, AdminStep(a)
    PROVE  PlanInv'
<1> DEFINE Keeps ==
             \/ adm'[a].op # "resolve" \/ adm'[a].pc = "rows"
             \/ /\ adm[a].op = "resolve" /\ adm[a].pc # "rows"
                /\ adm'[a].text = adm[a].text /\ adm'[a].service = adm[a].service
                /\ adm'[a].todo = adm[a].todo
<1>a. adm[a] \in AdminRecord /\ AdmFrame(a) /\ a \in DOMAIN adm
  BY DEF TypeInv, AdmTypeOK, AdmFrames
<1>b. \A b \in Admin \ {a} : adm'[b] = adm[b]
  BY AdminAlone
<1>c. sighted' = sighted /\ raced' = raced /\ missed \subseteq missed'
  BY AdminLeaves
<1>d. ASSUME Keeps PROVE PlanInv'
  BY <1>b, <1>c, <1>d, PlanQuiet
<1>1. CASE \E t \in Text : StartResolve(a, t)
  <2>1. PICK t \in Text : StartResolve(a, t)
    BY <1>1
  <2> DEFINE r == [IdleAdmin EXCEPT !.pc = "target", !.op = "resolve", !.text = t,
                      !.service = queue[t].service,
                      !.todo = queue[t].tadigs \X {queue[t].service}]
  <2>2. adm'[a] = r
    BY <2>1, <1>a DEF StartResolve, StartEdit
  <2>3. r.text = t /\ r.service = queue[t].service /\ r.todo = queue[t].tadigs \X {queue[t].service}
    BY DEF IdleAdmin
  <2> HIDE DEF r
  <2>4. ASSUME NEW x \in sighted \ missed, x[1] = t, x \notin raced
        PROVE  <<x[2][1], r.service>> \in r.todo
    BY <2>3, <2>4 DEF TriageInv, ListedInv
  <2>5. ASSUME NEW b \in Admin, adm'[b].op = "resolve", adm'[b].pc # "rows",
               NEW x \in sighted' \ missed', x[1] = adm'[b].text, x \notin raced'
        PROVE  <<x[2][1], adm'[b].service>> \in adm'[b].todo
    <3>1. CASE b = a
      BY <2>2, <2>3, <2>4, <2>5, <1>c, <3>1
    <3>2. CASE b # a
      BY <2>5, <1>b, <1>c, <3>2 DEF PlanInv
    <3>3. QED BY <3>1, <3>2
  <2>6. QED BY <2>5 DEF PlanInv
<1>2. CASE \E t \in Text, p \in Provider : StartAddAlias(a, t, p)
  <2>1. Keeps
    BY <1>2, <1>a DEF StartAddAlias, StartAlias, StartEdit, IdleAdmin
  <2>2. QED BY <2>1, <1>d
<1>3. CASE \E t \in Text, p \in Provider : StartRemap(a, t, p) \/ StartRemapToNew(a, t, p)
  <2>1. Keeps
    BY <1>3, <1>a DEF StartRemap, StartRemapToNew, StartAlias, StartEdit, IdleAdmin
  <2>2. QED BY <2>1, <1>d
<1>4. CASE \E p \in Provider : PickTarget(a, p) \/ CreateTarget(a, p)
  <2>1. Keeps
    BY <1>4, <1>a DEF PickTarget, CreateTarget, IdleAdmin, AdminRecord, AdmFrame
  <2>2. QED BY <2>1, <1>d
<1>5. CASE UpsertAlias(a)
  <2>1. Keeps
    BY <1>5, <1>a DEF UpsertAlias, IdleAdmin, AdminRecord, AdmFrame
  <2>2. QED BY <2>1, <1>d
<1>6. CASE SetCache(a)
  <2>1. Keeps
    BY <1>6, <1>a DEF SetCache, IdleAdmin, AdminRecord, AdmFrame, AfterAlias
  <2>2. QED BY <2>1, <1>d
<1>7. CASE MarkResolved(a)
  <2>1. Keeps
    BY <1>7, <1>a DEF MarkResolved, IdleAdmin, AdminRecord, AdmFrame
  <2>2. QED BY <2>1, <1>d
<1>8. CASE ScanSnapshots(a)
  <2>1. Keeps
    BY <1>8, <1>a DEF ScanSnapshots, IdleAdmin, AdminRecord, AdmFrame
  <2>2. QED BY <2>1, <1>d
<1>9. CASE \E k \in Key : RepointRow(a, k)
  <2>1. Keeps
    BY <1>9, <1>a DEF RepointRow, IdleAdmin, AdminRecord, AdmFrame
  <2>2. QED BY <2>1, <1>d
<1>10. CASE FinishRows(a)
  <2>1. Keeps
    BY <1>10, <1>a DEF FinishRows, IdleAdmin, AdminRecord, AdmFrame
  <2>2. QED BY <2>1, <1>d
<1>11. CASE \E p \in Provider, force \in BOOLEAN : StartDeleteProvider(a, p, force)
  <2>1. Keeps
    BY <1>11, <1>a DEF StartDeleteProvider, StartEdit, IdleAdmin
  <2>2. QED BY <2>1, <1>d
<1>12. CASE EraseProvider(a)
  <2>1. Keeps
    BY <1>12, <1>a DEF EraseProvider, IdleAdmin, AdminRecord, AdmFrame
  <2>2. QED BY <2>1, <1>d
<1>13. CASE \E t \in Text : DeleteAlias(a, t)
  <2>1. Keeps
    BY <1>13, <1>a DEF DeleteAlias, StartEdit, IdleAdmin
  <2>2. QED BY <2>1, <1>d
<1>14. CASE ReadAliases(a)
  <2>1. Keeps
    BY <1>14, <1>a DEF ReadAliases, IdleAdmin, AdminRecord, AdmFrame
  <2>2. QED BY <2>1, <1>d
<1>15. CASE SwapCache(a)
  <2>1. Keeps
    BY <1>15, <1>a DEF SwapCache, IdleAdmin, AdminRecord, AdmFrame
  <2>2. QED BY <2>1, <1>d
<1>16. CASE EditFails(a)
  <2>1. Keeps
    BY <1>16, <1>a DEF EditFails, IdleAdmin, AdminRecord, AdmFrame
  <2>2. QED BY <2>1, <1>d
<1>17. QED
  BY <1>1, <1>2, <1>3, <1>4, <1>5, <1>6, <1>7, <1>8, <1>9, <1>10, <1>11, <1>12, <1>13, <1>14, <1>15, <1>16 DEF AdminStep

LEMMA PlanStep == TypeInv /\ TriageInv /\ PlanInv /\ [Next]_vars => PlanInv'
<1> SUFFICES ASSUME TypeInv, TriageInv, PlanInv, [Next]_vars PROVE PlanInv'
  OBVIOUS
<1>1. ASSUME NEW i \in Ingest, IngestStep(i) PROVE PlanInv'
  <2>1. adm' = adm
    BY <1>1, IngestLeaves
  <2>2. CASE UNCHANGED <<sighted, missed, raced>>
    BY <2>1, <2>2, PlanQuiet
  <2>3. CASE QueueVariant(i)
    <3> DEFINE n == <<ing[i].text, ing[i].key>>
    <3>1. /\ sighted' = sighted \cup {n} /\ missed \subseteq missed'
          /\ \A x \in raced : x \in raced' \/ x = n
          /\ Resolving(ing[i].text) => n \in missed'
      BY <2>3 DEF QueueVariant
    <3>2. ASSUME NEW a \in Admin, adm[a].op = "resolve", adm[a].text = ing[i].text
          PROVE  n \in missed'
      BY <3>1, <3>2 DEF Resolving, TypeInv, AdmFrames, AdmFrame
    <3> HIDE DEF n
    <3>3. n[1] = ing[i].text
      BY DEF n
    <3>4. QED BY <2>1, <3>1, <3>2, <3>3 DEF PlanInv
  <2>4. QED BY <1>1, <2>2, <2>3, IngestLeaves
<1>2. CASE ResetDatabase
  BY <1>2 DEF ResetDatabase, PlanInv
<1>3. CASE Crash
  BY <1>3 DEF Crash, PlanInv, IdleAdmin
<1>4. CASE UNCHANGED vars
  BY <1>4, PlanQuiet DEF vars, observers
<1>5. QED BY <1>1, <1>2, <1>3, <1>4, PlanAdmin DEF Next

-----------------------------------------------------------------------------
(* Resolutions: what one has filled.                                           *)

Filling(a) == adm[a].pc = "rows" /\ adm[a].op = "resolve"

LEMMA FillQuiet ==
    ASSUME FillInv, UNCHANGED <<queue, sighted, raced>>, missed \subseteq missed',
           \A x \in sighted' \ missed' : conn[x[2]] # Null => conn'[x[2]] # Null,
           \A a \in Admin : Filling(a) => adm'[a] = adm[a]
    PROVE  FillInv'
BY DEF FillInv, Filling

LEMMA FillAdmin ==
    ASSUME TypeInv, LiveInv, PlanInv, FillInv, NEW a \in Admin, AdminStep(a)
    PROVE  FillInv'
<1>a. adm[a] \in AdminRecord /\ AdmFrame(a) /\ a \in DOMAIN adm
  BY DEF TypeInv, AdmTypeOK, AdmFrames
<1>b. \A b \in Admin \ {a} : adm'[b] = adm[b]
  BY AdminAlone
<1>c. sighted' = sighted /\ raced' = raced /\ missed \subseteq missed'
  BY AdminLeaves
<1>d. \A x \in sighted : x \in Text \X Key
  BY DEF TypeInv, DbTypeOK
<1>1. CASE MarkResolved(a)
  <2> DEFINE t == adm[a].text
  <2>1. t \in Text /\ adm[a].op = "resolve" /\ adm[a].pc = "mark"
    BY <1>1, <1>a DEF MarkResolved, AdmFrame
  <2>2. /\ adm'[a].pc = "rows" /\ adm'[a].op = "resolve" /\ adm'[a].text = t
        /\ adm'[a].todo = adm[a].todo /\ conn' = conn
        /\ missed' = missed \cup {x \in sighted : x[1] = t /\ x[2][2] # adm[a].service}
        /\ \A u \in Text \ {t} : queue'[u] = queue[u]
    BY <1>1, <1>a, <2>1 DEF MarkResolved, AdminRecord, TypeInv, DbTypeOK
  <2>3. ASSUME NEW x \in sighted' \ missed', x \notin raced',
               queue'[x[1]].status = "RESOLVED"
        PROVE  \/ conn'[x[2]] # Null
               \/ \E b \in Admin : /\ adm'[b].pc = "rows" /\ adm'[b].op = "resolve"
                                   /\ adm'[b].text = x[1] /\ x[2] \in adm'[b].todo
    <3>1. CASE x[1] = t
      <4>1. x[2][2] = adm[a].service /\ x \in sighted \ missed
        BY <2>2, <2>3, <3>1, <1>c
      <4>2. <<x[2][1], adm[a].service>> \in adm[a].todo
        BY <2>1, <2>3, <3>1, <4>1, <1>c DEF PlanInv
      <4>3. x[2] = <<x[2][1], x[2][2]>>
        BY <4>1, <1>d DEF Key
      <4>4. QED BY <2>2, <3>1, <4>1, <4>2, <4>3
    <3>2. CASE x[1] # t
      <4>1. x \in sighted \ missed /\ x \notin raced /\ queue[x[1]].status = "RESOLVED"
        BY <2>2, <2>3, <3>2, <1>c, <1>d
      <4>2. QED BY <2>1, <2>2, <4>1, <1>b DEF FillInv
    <3>3. QED BY <3>1, <3>2
  <2>4. QED BY <2>3 DEF FillInv
<1>2. CASE \E k \in Key : RepointRow(a, k)
  <2>1. PICK k \in Key : RepointRow(a, k)
    BY <1>2
  <2>2. /\ adm[a].pc = "rows" /\ adm'[a].pc = "rows" /\ adm'[a].op = adm[a].op
        /\ adm'[a].text = adm[a].text /\ adm'[a].todo = adm[a].todo \ {k}
        /\ UNCHANGED <<queue, missed>>
    BY <2>1, <1>a DEF RepointRow, AdminRecord
  <2>3. adm[a].to # Null
    BY <2>2, <1>a, Constants DEF AdmFrame
  <2>4. /\ \A j \in Key : conn[j] # Null => conn'[j] # Null
        /\ k[1] \in mnos => conn'[k] # Null
    BY <2>1, <2>3 DEF RepointRow, Repoints, PutRow, TypeInv, DbTypeOK
  <2>5. ASSUME NEW x \in sighted \ missed, x \notin raced,
               queue[x[1]].status = "RESOLVED"
        PROVE  \/ conn'[x[2]] # Null
               \/ \E b \in Admin : /\ adm'[b].pc = "rows" /\ adm'[b].op = "resolve"
                                   /\ adm'[b].text = x[1] /\ x[2] \in adm'[b].todo
    <3>1. x[2][1] \in mnos /\ x[2] \in Key
      BY <1>d DEF LiveInv
    <3>2. CASE conn[x[2]] # Null \/ x[2] = k
      BY <2>4, <3>1, <3>2
    <3>3. CASE conn[x[2]] = Null /\ x[2] # k
      <4>1. PICK b \in Admin : /\ adm[b].pc = "rows" /\ adm[b].op = "resolve"
                               /\ adm[b].text = x[1] /\ x[2] \in adm[b].todo
        BY <2>5, <3>3 DEF FillInv
      <4>2. CASE b = a
        BY <2>2, <3>3, <4>1, <4>2
      <4>3. CASE b # a
        BY <4>1, <4>3, <1>b
      <4>4. QED BY <4>2, <4>3
    <3>4. QED BY <3>2, <3>3
  <2>6. QED BY <2>2, <2>5, <1>c DEF FillInv
<1>3. CASE EraseProvider(a)
  <2>1. ~Filling(a) /\ queue' = queue
    BY <1>3, <1>a DEF EraseProvider, Filling
  <2>2. \A x \in sighted' \ missed' : conn[x[2]] # Null => conn'[x[2]] # Null
    BY <1>3, <1>c, <1>d DEF EraseProvider
  <2>3. QED BY <2>1, <2>2, <1>b, <1>c, FillQuiet
<1>4. CASE FinishRows(a) \/ EditFails(a)
  <2>1. UNCHANGED <<queue, conn>> /\ \A x \in sighted' \ missed' : Filling(a) =>
             ~(adm[a].text = x[1] /\ x[2] \in adm[a].todo)
    <3>1. CASE FinishRows(a)
      BY <3>1 DEF FinishRows, db
    <3>2. CASE EditFails(a)
      <4>1. missed' = missed \cup Unfilled(a) /\ UNCHANGED <<queue, conn>>
        BY <3>2 DEF EditFails, db
      <4>2. ASSUME NEW x \in sighted' \ missed', Filling(a), adm[a].text = x[1], x[2] \in adm[a].todo
            PROVE  FALSE
        <5>1. x = <<adm[a].text, x[2]>>
          BY <4>2, <1>c, <1>d
        <5>2. x \in Unfilled(a)
          BY <4>2, <5>1 DEF Unfilled, Filling
        <5>3. QED BY <4>1, <4>2, <5>2
      <4>3. QED BY <4>1, <4>2
    <3>3. QED BY <1>4, <3>1, <3>2
  <2>2. QED BY <2>1, <1>b, <1>c DEF FillInv, Filling
<1>5. ASSUME ~Filling(a), UNCHANGED <<queue, conn>> PROVE FillInv'
  <2>1. \A b \in Admin : Filling(b) => adm'[b] = adm[b]
    BY <1>b, <1>5
  <2>2. QED BY <2>1, <1>5, <1>c, FillQuiet
<1>6. CASE \E t \in Text : StartResolve(a, t)
  <2>1. ~Filling(a) /\ UNCHANGED <<queue, conn>>
    BY <1>6, <1>a DEF StartResolve, StartEdit, Filling, db
  <2>2. QED BY <2>1, <1>5
<1>7. CASE \E t \in Text, p \in Provider : StartAddAlias(a, t, p)
  <2>1. ~Filling(a) /\ UNCHANGED <<queue, conn>>
    BY <1>7, <1>a DEF StartAddAlias, StartAlias, StartEdit, Filling, db
  <2>2. QED BY <2>1, <1>5
<1>8. CASE \E t \in Text, p \in Provider : StartRemap(a, t, p) \/ StartRemapToNew(a, t, p)
  <2>1. ~Filling(a) /\ UNCHANGED <<queue, conn>>
    BY <1>8, <1>a DEF StartRemap, StartRemapToNew, StartAlias, StartEdit, Filling, db
  <2>2. QED BY <2>1, <1>5
<1>9. CASE \E p \in Provider : PickTarget(a, p) \/ CreateTarget(a, p)
  <2>1. ~Filling(a) /\ UNCHANGED <<queue, conn>>
    BY <1>9, <1>a DEF PickTarget, CreateTarget, AdmFrame, Filling, db
  <2>2. QED BY <2>1, <1>5
<1>10. CASE UpsertAlias(a)
  <2>1. ~Filling(a) /\ UNCHANGED <<queue, conn>>
    BY <1>10, <1>a DEF UpsertAlias, AdmFrame, Filling, db
  <2>2. QED BY <2>1, <1>5
<1>11. CASE SetCache(a)
  <2>1. ~Filling(a) /\ UNCHANGED <<queue, conn>>
    BY <1>11, <1>a DEF SetCache, AdmFrame, Filling, db, AfterAlias
  <2>2. QED BY <2>1, <1>5
<1>12. CASE ScanSnapshots(a)
  <2>1. ~Filling(a) /\ UNCHANGED <<queue, conn>>
    BY <1>12, <1>a DEF ScanSnapshots, AdmFrame, Filling, db
  <2>2. QED BY <2>1, <1>5
<1>13. CASE \E p \in Provider, force \in BOOLEAN : StartDeleteProvider(a, p, force)
  <2>1. ~Filling(a) /\ UNCHANGED <<queue, conn>>
    BY <1>13, <1>a DEF StartDeleteProvider, StartEdit, Filling, db
  <2>2. QED BY <2>1, <1>5
<1>14. CASE \E t \in Text : DeleteAlias(a, t)
  <2>1. ~Filling(a) /\ UNCHANGED <<queue, conn>>
    BY <1>14, <1>a DEF DeleteAlias, StartEdit, Filling, db
  <2>2. QED BY <2>1, <1>5
<1>15. CASE ReadAliases(a)
  <2>1. ~Filling(a) /\ UNCHANGED <<queue, conn>>
    BY <1>15, <1>a DEF ReadAliases, AdmFrame, Filling, db
  <2>2. QED BY <2>1, <1>5
<1>16. CASE SwapCache(a)
  <2>1. ~Filling(a) /\ UNCHANGED <<queue, conn>>
    BY <1>16, <1>a DEF SwapCache, Filling, db, AdmFrame, Filling, db
  <2>2. QED BY <2>1, <1>5
<1>17. QED
  BY <1>1, <1>2, <1>3, <1>4, <1>6, <1>7, <1>8, <1>9, <1>10, <1>11, <1>12, <1>13, <1>14, <1>15, <1>16 DEF AdminStep

LEMMA FillStep == TypeInv /\ LiveInv /\ PlanInv /\ FillInv /\ [Next]_vars => FillInv'
<1> SUFFICES ASSUME TypeInv, LiveInv, PlanInv, FillInv, [Next]_vars PROVE FillInv'
  OBVIOUS
<1>a. \A x \in sighted : x \in Text \X Key
  BY DEF TypeInv, DbTypeOK
<1>1. ASSUME NEW i \in Ingest, IngestStep(i) PROVE FillInv'
  <2>1. adm' = adm
    BY <1>1, IngestLeaves
  <2>2. CASE UNCHANGED <<queue, sighted, raced, missed>>
    <3>1. CASE UNCHANGED conn
      BY <2>1, <2>2, <3>1, FillQuiet
    <3>2. CASE WriteRow(i)
      <4>1. ing[i].to # Null /\ ing[i].key \in Key
        BY <3>2, Constants DEF WriteRow, TypeInv, IngFrames, IngFrame
      <4>2. conn' = [conn EXCEPT ![ing[i].key] = ing[i].to]
        BY <3>2 DEF WriteRow, PutRow
      <4>3. \A j \in Key : conn[j] # Null => conn'[j] # Null
        BY <4>1, <4>2 DEF TypeInv, DbTypeOK
      <4>4. QED BY <2>1, <2>2, <4>3, <1>a, FillQuiet
    <3>3. QED BY <1>1, <3>1, <3>2, IngestLeaves
  <2>3. CASE QueueVariant(i)
    <3> DEFINE t == ing[i].text
               n == <<t, ing[i].key>>
               late == \/ Stale(i) \/ Resolving(t)
                       \/ queue[t] # Null /\ queue[t].status = "RESOLVED"
    <3>1. /\ sighted' = sighted \cup {n} /\ missed \subseteq missed'
          /\ \A x \in raced : x \in raced' \/ x = n
          /\ late => n \in missed'
          /\ t \in Text /\ conn' = conn
      BY <2>3 DEF QueueVariant, TypeInv, IngFrames, IngFrame
    <3>2. /\ \A u \in Text \ {t} : queue'[u] = queue[u]
          /\ queue'[t].status = IF queue[t] = Null THEN "PENDING" ELSE queue[t].status
      BY <2>3, <3>1 DEF QueueVariant, TypeInv, DbTypeOK
    <3> HIDE DEF n
    <3>3. n[1] = t
      BY DEF n
    <3>4. ASSUME NEW x \in sighted' \ missed', x \notin raced', queue'[x[1]].status = "RESOLVED"
          PROVE  x \in sighted \ missed /\ x \notin raced /\ queue[x[1]].status = "RESOLVED"
      <4>1. CASE x = n
        BY <3>1, <3>2, <3>3, <3>4, <4>1
      <4>2. CASE x # n
        BY <3>1, <3>2, <3>4, <4>2, <1>a
      <4>3. QED BY <4>1, <4>2
    <3>5. QED BY <2>1, <3>1, <3>4 DEF FillInv
  <2>4. QED BY <1>1, <2>2, <2>3, IngestLeaves
<1>2. CASE ResetDatabase
  BY <1>2 DEF ResetDatabase, FillInv
<1>3. CASE Crash
  <2>1. /\ UNCHANGED <<queue, conn, sighted, raced>> /\ missed \subseteq missed'
        /\ \A a \in Admin : Unfilled(a) \subseteq missed'
    BY <1>3 DEF Crash, db
  <2>2. ASSUME NEW x \in sighted' \ missed', NEW a \in Admin, Filling(a),
               adm[a].text = x[1], x[2] \in adm[a].todo
        PROVE  FALSE
    <3>1. x = <<adm[a].text, x[2]>>
      BY <2>1, <2>2, <1>a
    <3>2. x \in Unfilled(a)
      BY <2>2, <3>1 DEF Unfilled, Filling
    <3>3. QED BY <2>1, <2>2, <3>2
  <2>3. QED BY <2>1, <2>2 DEF FillInv, Filling
<1>4. CASE UNCHANGED vars
  BY <1>4, FillQuiet DEF vars, db, observers
<1>5. QED BY <1>1, <1>2, <1>3, <1>4, FillAdmin DEF Next

(* What a resolution relies on, together.                                       *)
ResolveInv == TypeInv /\ TriageInv /\ LiveInv /\ PlanInv /\ FillInv

LEMMA AlwaysResolveInv == Spec => []ResolveInv
<1>1. Init => ResolveInv
  <2>1. Init => PlanInv /\ FillInv
    BY DEF Init, PlanInv, FillInv
  <2>2. QED BY <2>1, InitTypeInv, InitTriage, InitLive DEF ResolveInv
<1>2. ResolveInv /\ [Next]_vars => ResolveInv'
  BY TypeStep, TriageStep, LiveStep, PlanStep, FillStep DEF ResolveInv
<1>3. QED BY <1>1, <1>2, PTL DEF Spec

(* Resolving a variant fills the blank cell of every MNO behind it, in every      *)
(* interleaving with files, backfills, deletions and resets, except for a         *)
(* sighting under another service than the last, one that came after the variant  *)
(* was read, one a crash or an error cut off, or one queued while another file    *)
(* held a read of the variant                                                     *)
(* (provider-alias.service.ts:46-123).                                            *)
THEOREM ResolvedAreFilled == Spec => []ResolvedSightingsAreFilled
<1>1. ResolveInv => ResolvedSightingsAreFilled
  <2> SUFFICES ASSUME ResolveInv, NEW x \in sighted \ missed,
                      x \notin raced, ~Resolving(x[1]), queue[x[1]].status = "RESOLVED"
               PROVE  conn[x[2]] # Null
    BY DEF ResolvedSightingsAreFilled
  <2>1. \A a \in Admin : ~(adm[a].pc = "rows" /\ adm[a].op = "resolve" /\ adm[a].text = x[1])
    BY DEF Resolving
  <2>2. QED BY <2>1 DEF ResolveInv, FillInv
<1>2. QED BY <1>1, AlwaysResolveInv, PTL

-----------------------------------------------------------------------------
(* The views.                                                                  *)

LEMMA OwnersStep == TypeInv /\ OwnersExist /\ [Next]_vars => OwnersExist'
<1> SUFFICES ASSUME TypeInv, OwnersExist, [Next]_vars PROVE OwnersExist'
  OBVIOUS
<1>1. ASSUME NEW i \in Ingest, IngestStep(i) PROVE OwnersExist'
  <2>1. providers' = providers
    BY <1>1, IngestLeaves
  <2>2. CASE WriteRow(i)
    <3>1. conn' = [conn EXCEPT ![ing[i].key] = ing[i].to] /\ ing[i].to \in providers
      BY <2>2 DEF WriteRow, PutRow
    <3>2. QED BY <2>1, <3>1 DEF OwnersExist, TypeInv, DbTypeOK
  <2>3. QED BY <1>1, <2>1, <2>2, IngestLeaves DEF OwnersExist
<1>2. ASSUME NEW a \in Admin, AdminStep(a) PROVE OwnersExist'
  <2>1. CASE EraseProvider(a)
    BY <2>1 DEF EraseProvider, OwnersExist
  <2>2. CASE \E k \in Key : RepointRow(a, k)
    <3>1. PICK k \in Key : RepointRow(a, k)
      BY <2>2
    <3>2. providers' = providers
      BY <3>1 DEF RepointRow
    <3>3. CASE conn' = conn
      BY <3>2, <3>3 DEF OwnersExist
    <3>4. CASE PutRow(k, adm[a].to) /\ k[1] \in mnos
      <4>1. conn' = [conn EXCEPT ![k] = adm[a].to] /\ adm[a].to \in providers
        BY <3>1, <3>4 DEF RepointRow, PutRow
      <4>2. QED BY <3>2, <4>1 DEF OwnersExist, TypeInv, DbTypeOK
    <3>5. QED BY <3>1, <3>3, <3>4 DEF RepointRow
  <2>3. CASE conn' = conn /\ providers \subseteq providers'
    BY <2>3 DEF OwnersExist
  <2>4. QED BY <1>2, <2>1, <2>2, <2>3, AdminLeaves
<1>3. CASE ResetDatabase \/ Crash \/ UNCHANGED vars
  <2>1. providers' = providers /\ \A k \in Key : conn'[k] \in {conn[k], Null}
    BY <1>3 DEF ResetDatabase, Crash, vars, db
  <2>2. QED BY <2>1 DEF OwnersExist
<1>4. QED BY <1>1, <1>2, <1>3 DEF Next

(* What the views rely on. *)
ViewInv == TypeInv /\ LiveInv /\ OwnersExist

LEMMA AlwaysViewInv == Spec => []ViewInv
<1>1. Init => ViewInv
  BY InitTypeInv, InitLive DEF Init, OwnersExist, ViewInv
<1>2. ViewInv /\ [Next]_vars => ViewInv'
  BY TypeStep, LiveStep, OwnersStep DEF ViewInv
<1>3. QED BY <1>1, <1>2, PTL DEF Spec

LEMMA CandidatesType ==
    ASSUME TypeInv, NEW k \in Key
    PROVE  Candidates(k) \subseteq Declared /\ (snap[k] = NoCarriers => Candidates(k) = {})
<1>1. snap[k] \in Carriers
  BY DEF TypeInv, DbTypeOK
<1>2. Candidates(k) \subseteq Declared
  BY <1>1, Constants DEF Candidates, Carriers
<1>3. snap[k] = NoCarriers => Candidates(k) = {}
  BY DEF Candidates, NoCarriers
<1>4. QED BY <1>2, <1>3

(* A name resolves to a provider the cache holds for some pattern, or to none. *)
LEMMA ResolvedType ==
    ASSUME TypeInv, NEW t \in Declared
    PROVE  /\ Resolved(t) \in Provider \cup {Null}
           /\ Resolved(t) # Null => Resolved(t) \in {cache[u] : u \in Text}
<1>1. CASE t = Junk \/ Match(t) = {}
  BY <1>1 DEF Resolved
<1>2. CASE t # Junk /\ Match(t) # {}
  <2>1. Resolved(t) \in Match(t)
    BY <1>2 DEF Resolved
  <2>2. t \in Text
    BY <1>2 DEF Declared
  <2>3. Match(t) \subseteq {cache[u] : u \in Text}
    BY <2>2 DEF Match
  <2>4. QED BY <2>1, <2>3, MatchType
<1>3. QED BY <1>1, <1>2

LEMMA TotalsHold == ViewInv => TotalsAreScopes
<1> SUFFICES ASSUME ViewInv PROVE TotalsAreScopes
  OBVIOUS
<1> DEFINE A == Scope("ir21", {})
           B == Scope("reachlist_only", {})
<1>1. A = {m \in mnos : HasSnapshot(m)} \cup DeclaredMnos
  BY DEF Scope, DeclaredMnos
<1>2. B = mnos \ A /\ A \subseteq mnos
  BY DEF Scope
<1>3. IsFiniteSet(mnos)
  BY DEF ViewInv, LiveInv
<1> HIDE DEF A, B
<1>4. Cardinality(B) = Cardinality(mnos) - Cardinality(A)
  <2>1. Cardinality(mnos \ A) = Cardinality(mnos) - Cardinality(mnos \cap A)
    BY <1>3, FS_Difference
  <2>2. mnos \cap A = A
    BY <1>2
  <2>3. QED BY <1>2, <2>1, <2>2
<1>5. ASSUME NEW p \in Provider, NEW k \in Key, k \in OnNet(p, "ir21", {}) PROVE k[1] \in A
  <2>1. k[1] \in mnos /\ k[2] \in Service /\ k = <<k[1], k[2]>>
    BY <1>5 DEF OnNet, MultiHomed, Key
  <2>2. CASE conn[k] = p
    <3>1. conn[<<k[1], k[2]>>] # Null
      BY <2>1, <2>2, Constants
    <3>2. QED BY <1>1, <2>1, <3>1 DEF DeclaredMnos
  <2>3. CASE k \in MultiHomed(p)
    <3>1. Candidates(k) # {}
      BY <2>3 DEF MultiHomed
    <3>2. snap[<<k[1], k[2]>>] # NoCarriers
      BY <2>1, <3>1, CandidatesType DEF ViewInv
    <3>3. QED BY <1>1, <2>1, <3>2 DEF HasSnapshot
  <2>4. QED BY <1>5, <2>2, <2>3 DEF OnNet
<1>6. QED
  BY <1>1, <1>2, <1>4, <1>5 DEF TotalsAreScopes, TotalMnos, ReachlistOnlyCount, A, B

LEMMA CarriersHold == ViewInv => CarriersAgree
<1> SUFFICES ASSUME ViewInv, NEW p \in providers, NEW k \in mnos \X Service
             PROVE  LET onNet == k \in OnNet(p, "ir21", {})
                    IN /\ onNet <=> p \in DetailProviders(k)
                       /\ onNet <=> p \in Broad(k, "ir21", {})
                       /\ onNet <=> <<k, p>> \in Relationships
                       /\ onNet <=> <<k, p, "ir21">> \in OperatorMatrix({k[1]}, {})
  BY DEF CarriersAgree
<1> DEFINE carried == conn[k] = p \/ \E t \in Candidates(k) : Resolved(t) = p
<1>1. p \in Provider /\ p # Null
  BY Constants DEF ViewInv, TypeInv, DbTypeOK
<1>2. k \in OnNet(p, "ir21", {}) <=> carried
  BY DEF OnNet, MultiHomed
<1>3. p \in DetailProviders(k) <=> carried
  BY <1>1 DEF DetailProviders
<1>4. p \in Broad(k, "ir21", {}) <=> carried
  BY DEF Broad, Canonical, Claims
<1>5. <<k, p>> \in Relationships <=> carried
  BY <1>1 DEF Relationships
<1>6. <<k, p, "ir21">> \in OperatorMatrix({k[1]}, {}) <=> carried
  <2>1. OperatorMatrix({k[1]}, {}) =
            UNION {{<<j, q, "ir21">> : q \in DetailProviders(j)} : j \in {k[1]} \X Service}
    BY DEF OperatorMatrix, Claims
  <2>2. k \in {k[1]} \X Service
    OBVIOUS
  <2>3. <<k, p, "ir21">> \in OperatorMatrix({k[1]}, {}) <=> p \in DetailProviders(k)
    BY <2>1, <2>2
  <2>4. QED BY <1>3, <2>3
<1>7. QED BY <1>2, <1>3, <1>4, <1>5, <1>6

(* The dashboard, the MNO pages and the provider pages count the same MNOs and     *)
(* show the same carriers, each with queries of its own, after any partial load,   *)
(* remap, deletion or crash (mno.service.ts:190-226, provider.service.ts:514-562,   *)
(* dashboard.service.ts:37-48 and 74-98).                                          *)
THEOREM PagesAlwaysAgree == Spec => []PagesAgree
<1>1. ViewInv => PagesAgree
  BY TotalsHold, CarriersHold DEF PagesAgree
<1>2. QED BY <1>1, AlwaysViewInv, PTL

-----------------------------------------------------------------------------
(* Exclusivity.                                                                *)

LEMMA Singletons == \A x : IsFiniteSet({x}) /\ Cardinality({x}) = 1
BY FS_Singleton

LEMMA SoleIsSingleton ==
    ASSUME NEW S \in SUBSET Provider
    PROVE  Cardinality(S) = 1 <=> \E q : S = {q}
<1>1. IsFiniteSet(S)
  BY ProviderAssumption, FS_Subset
<1>2. QED BY <1>1, FS_Singleton

LEMMA HoldersType ==
    ASSUME ViewInv, NEW reach \in ReachLists, NEW source \in Source, NEW k \in mnos \X Service
    PROVE  /\ Holders(k, source, reach) \subseteq Provider
           /\ \A q \in Provider :
                 k \in OnNet(q, source, reach) <=> q \in Holders(k, source, reach)
<1>1. k \in Key
  BY DEF Key, ViewInv, TypeInv, DbTypeOK
<1>2. \A t \in Candidates(k) : Resolved(t) \in Provider \cup {Null}
  BY <1>1, CandidatesType, ResolvedType DEF ViewInv
<1>3. conn[k] \in Provider \cup {Null}
  BY <1>1 DEF ViewInv, TypeInv, DbTypeOK, Holder
<1>4. Claims(reach) \subseteq Key \X Provider
  BY ReachListsAssumption DEF Claims
<1>5. Holders(k, source, reach) \subseteq Provider
  BY <1>2, <1>3, <1>4 DEF Holders
<1>6. ASSUME NEW q \in Provider
      PROVE  k \in OnNet(q, source, reach) <=> q \in Holders(k, source, reach)
  <2> DEFINE carried == source # "reachlist" /\ (conn[k] = q \/ \E t \in Candidates(k) : Resolved(t) = q)
             claimed == source # "ir21" /\ <<k, q>> \in Claims(reach)
  <2>1. k \in OnNet(q, source, reach) <=> carried \/ claimed
    <3>1. k \in {x[1] : x \in {y \in Claims(reach) : y[2] = q}} <=> <<k, q>> \in Claims(reach)
      BY <1>4
    <3>2. QED BY <3>1 DEF OnNet, MultiHomed
  <2>2. q \in Holders(k, source, reach) <=> carried \/ claimed
    <3>1. q \in {x[2] : x \in {y \in Claims(reach) : y[1] = k}} <=> <<k, q>> \in Claims(reach)
      BY <1>4
    <3>2. q # Null
      BY Constants
    <3>3. QED BY <3>1, <3>2 DEF Holders
  <2>3. QED BY <2>1, <2>2
<1>7. QED BY <1>5, <1>6

LEMMA HoldersAreBroad ==
    ASSUME ViewInv, NEW reach \in ReachLists, NEW source \in Source, NEW k \in mnos \X Service,
           {cache[t] : t \in Text} \subseteq providers \cup {Null}
    PROVE  Holders(k, source, reach) = Broad(k, source, reach)
<1>1. k \in Key
  BY DEF Key, ViewInv, TypeInv, DbTypeOK
<1>2. \A t \in Candidates(k) : Resolved(t) \in providers \cup {Null}
  BY <1>1, CandidatesType, ResolvedType DEF ViewInv
<1>3. conn[k] \in providers \cup {Null} /\ Null \notin providers
  BY <1>1, Constants DEF ViewInv, OwnersExist, TypeInv, DbTypeOK
<1>4. Claims(reach) \subseteq Key \X providers
  BY ReachListsAssumption DEF Claims
<1>5. {x[2] : x \in {y \in Claims(reach) : y[1] = k}} = {q \in providers : <<k, q>> \in Claims(reach)}
  BY <1>4
<1>6. ASSUME NEW q
      PROVE  q \in Holders(k, source, reach) <=> q \in Broad(k, source, reach)
  <2> DEFINE carried == source # "reachlist" /\ (conn[k] = q \/ \E t \in Candidates(k) : Resolved(t) = q)
             claimed == source # "ir21" /\ <<k, q>> \in Claims(reach)
  <2>1. q \in Holders(k, source, reach) <=> q \in providers /\ (carried \/ claimed)
    BY <1>2, <1>3, <1>4, <1>5 DEF Holders
  <2>2. q \in Broad(k, source, reach) <=> q \in providers /\ (carried \/ claimed)
    BY DEF Broad, Canonical
  <2>3. QED BY <2>1, <2>2
<1>7. QED BY <1>6

(* A carrier the provider page calls exclusive at an MNO is the only one on-net      *)
(* there, and the MNO search row under the same sources agrees whenever every        *)
(* cached provider still has its row (provider.service.ts:514-562,                   *)
(* mno.service.ts:190-226).                                                          *)
THEOREM ExclusiveIsAlwaysAlone == Spec => []ExclusiveIsAlone
<1>1. ViewInv => ExclusiveIsAlone
  <2> SUFFICES ASSUME ViewInv, NEW reach \in ReachLists, NEW source \in Source,
                      NEW p \in providers, NEW k \in mnos \X Service
               PROVE  LET exclusive == ExclusiveTo(p, k, source, reach)
                      IN /\ exclusive => \A q \in providers \ {p} : k \notin OnNet(q, source, reach)
                         /\ {cache[t] : t \in Text} \subseteq providers \cup {Null} =>
                                (exclusive <=> Broad(k, source, reach) = {p})
    BY DEF ExclusiveIsAlone
  <2> DEFINE H == Holders(k, source, reach)
  <2>1. providers \subseteq Provider
    BY DEF ViewInv, TypeInv, DbTypeOK
  <2>2. H \subseteq Provider /\ \A q \in Provider : k \in OnNet(q, source, reach) <=> q \in H
    BY HoldersType
  <2>3. ExclusiveTo(p, k, source, reach) <=> p \in H /\ Cardinality(H) = 1
    BY <2>1, <2>2 DEF ExclusiveTo
  <2>4. {cache[t] : t \in Text} \subseteq providers \cup {Null} => H = Broad(k, source, reach)
    BY HoldersAreBroad
  <2> HIDE DEF H
  <2>5. ExclusiveTo(p, k, source, reach) <=> H = {p}
    BY <2>2, <2>3, SoleIsSingleton, Singletons
  <2>6. QED BY <2>1, <2>2, <2>4, <2>5
<1>2. QED BY <1>1, AlwaysViewInv, PTL

(* The pills, the table and the charts of the MNO search page count the same rows     *)
(* of a provider, except where the code leaves the service filter out of the count    *)
(* (page.tsx:182-251 and 750-806, exclusivityReportData.ts:93-185).                   *)
THEOREM ChartsAlwaysCountTheTable == Spec => []ChartsCountTheTable
<1>1. ASSUME NEW row \in [Service -> SUBSET Provider], NEW filter \in Service \cup {Null},
             NEW mode \in Mode, NEW p
      PROVE  /\ filter = Null \/ mode \notin {"all", "shared"} =>
                    (OnPill(row, mode, p) <=> Visible(row, mode, p, filter))
             /\ mode # "shared" /\ (filter = Null \/ mode # "any") =>
                    (OnChart(row, mode, p, filter) <=> Visible(row, mode, p, filter))
  <2>1. CASE mode = "all"
    <3>1. mode \notin Service
      BY <2>1, ModeAssumption DEF Pooled
    <3>2. Visible(row, mode, p, filter) <=> IF filter # Null THEN p \in row[filter] ELSE p \in Carried(row)
      BY <2>1, <3>1 DEF Visible, Qualifies, ProviderMatches
    <3>3. OnPill(row, mode, p) <=> p \in Carried(row)
      BY <2>1, <3>1 DEF OnPill, Qualifies, ProviderMatches
    <3>4. OnChart(row, mode, p, filter) <=>
              \E s \in (IF filter = Null THEN Service ELSE {filter}) : p \in row[s]
      BY <2>1 DEF OnChart, Aggregation
    <3>5. QED BY <2>1, <3>2, <3>3, <3>4 DEF Carried
  <2>2. CASE mode = "shared"
    BY <2>2 DEF OnPill, Visible
  <2>3. CASE mode = "full"
    <3>a. \A f \in Service \cup {Null} : ProviderMatches(row, mode, p, f) <=> Carried(row) = {p}
      BY <2>3, ModeAssumption DEF ProviderMatches, Pooled
    <3>b. Carried(row) = {p} => Qualifies(row, mode)
      BY <2>3, Singletons DEF Qualifies, FullyExclusive
    <3>1. Visible(row, mode, p, filter) <=> Carried(row) = {p}
      BY <3>a, <3>b DEF Visible
    <3>2. OnPill(row, mode, p) <=> Carried(row) = {p}
      BY <3>a, <3>b DEF OnPill
    <3>3. OnChart(row, mode, p, filter) <=> Carried(row) = {p}
      BY <2>3 DEF OnChart, Aggregation
    <3>4. QED BY <3>1, <3>2, <3>3
  <2>4. CASE mode = "any"
    <3>a. \A f \in Service \cup {Null} :
             ProviderMatches(row, mode, p, f) <=> \E s \in Service : row[s] = {p}
      BY <2>4, ModeAssumption DEF ProviderMatches, Pooled
    <3>b. \A s \in Service : row[s] = {p} => SoleOn(row, s)
      BY Singletons DEF SoleOn
    <3>c. Qualifies(row, mode) <=> \E s \in Service : SoleOn(row, s)
      BY <2>4 DEF Qualifies
    <3>1. Visible(row, mode, p, filter) <=> \E s \in Service : row[s] = {p}
      BY <3>a, <3>b, <3>c DEF Visible
    <3>2. OnPill(row, mode, p) <=> \E s \in Service : row[s] = {p}
      BY <3>a, <3>b, <3>c DEF OnPill
    <3>3. filter = Null => (OnChart(row, mode, p, filter) <=> \E s \in Service : row[s] = {p})
      BY <2>4 DEF OnChart, Aggregation
    <3>4. QED BY <2>4, <3>1, <3>2, <3>3
  <2>5. CASE mode \in Service
    <3>1. mode \notin Pooled
      BY <2>5, ModeAssumption
    <3>a. \A f \in Service \cup {Null} : ProviderMatches(row, mode, p, f) <=> row[mode] = {p}
      BY <2>5, <3>1 DEF ProviderMatches, Pooled
    <3>b. row[mode] = {p} => Qualifies(row, mode)
      <4>1. Qualifies(row, mode) <=> SoleOn(row, mode)
        BY <3>1 DEF Qualifies, Pooled
      <4>2. QED BY <4>1, Singletons DEF SoleOn
    <3>2. Visible(row, mode, p, filter) <=> row[mode] = {p}
      BY <3>a, <3>b DEF Visible
    <3>3. OnPill(row, mode, p) <=> row[mode] = {p}
      BY <3>a, <3>b DEF OnPill
    <3>4. OnChart(row, mode, p, filter) <=> row[mode] = {p}
      BY <2>5, <3>1 DEF OnChart, Aggregation, Pooled
    <3>5. QED BY <3>2, <3>3, <3>4
  <2>6. QED BY <2>1, <2>2, <2>3, <2>4, <2>5 DEF Mode, Pooled
<1>2. ViewInv => ChartsCountTheTable
  <2>1. ASSUME ViewInv, NEW reach, NEW scope, NEW m \in mnos
        PROVE  RowOf(m, scope, reach) \in [Service -> SUBSET Provider]
    <3>1. \A k : Broad(k, ScopeSource(scope), reach) \subseteq providers
      BY DEF Broad, Canonical
    <3>2. providers \subseteq Provider
      BY <2>1 DEF ViewInv, TypeInv, DbTypeOK
    <3>3. QED BY <3>1, <3>2 DEF RowOf
  <2>2. \A reach \in ReachLists, scope \in ScopeName : Scope(scope, reach) \subseteq mnos
    BY DEF Scope, ScopeName, Claims
  <2>3. QED BY <1>1, <2>1, <2>2 DEF ChartsCountTheTable
<1>3. QED BY <1>2, AlwaysViewInv, PTL
=============================================================================
