--------------------------- MODULE ReachListProofs ---------------------------
(* Proofs about ReachList, for every value of its constants.                   *)
EXTENDS ReachList, FiniteSetTheorems, SequenceTheorems, TLAPS

-----------------------------------------------------------------------------
(* The shapes, in parts.                                                       *)

DbTypeOK ==
    /\ mnos \in Roster /\ secondary \in [Code -> SUBSET Code] /\ epoch \in Nat
    /\ Seeded \subseteq providers /\ alias \subseteq providers /\ providers \subseteq Provider
    /\ reach \in [ReachKey -> File \cup {Null}]
    /\ audit \in [AuditKey -> AuditRow \cup {Null}] /\ erased \in Nat
    /\ uploads \in Nat /\ lines \in Nat /\ edits \in Nat /\ faults \in Nat
    /\ alone \subseteq Upload /\ declared \in [File -> SUBSET ReachKey]
    /\ taken \subseteq ReachKey /\ wiped \subseteq ReachKey /\ overtaken \subseteq AuditKey

(* Foreign keys; an entry names a file, and its id is one that has been given.  *)
RefsExist ==
    /\ \A k \in ReachKey : reach[k] # Null => mnos[k[1]] # Null /\ k[2] \in providers
    /\ \A k \in AuditKey : audit[k] # Null =>
            /\ k[1] \in providers
            /\ audit[k].files # <<>> /\ audit[k].id <= erased
            /\ audit[k].mno # Null => mnos[audit[k].mno] # Null

RowPhase == {"name", "create", "alias", "find", "audit", "upsert"}
CarrierPhase == RowPhase \ {"name"}

Elems(s) == {s[i] : i \in DOMAIN s}

EntryKey(u) == <<Head(u.carriers), u.code, u.row.name>>

(* An upload is where its file and its row can be.  What it has looked up is of *)
(* its epoch, or refused when it is written.                                   *)
UploadFits(u) ==
    /\ u.pc \notin {"idle", "batch"} => u.file \in File
    /\ u.names \subseteq providers
    /\ u.rosterAt <= epoch /\ u.at <= epoch
    /\ u.rosterAt = epoch => \A c \in Code : u.roster[c] # Null => mnos[c] # Null
    /\ u.mno # Null /\ u.at = epoch => mnos[u.mno] # Null
    /\ u.pc \in RowPhase =>
         /\ u.row \in Row
         /\ u.code \in IF u.row.code = Null THEN Code \cup {Null} ELSE {u.row.code}
         /\ u.carriers # <<>> /\ Elems(u.carriers) \subseteq CarriersOf(u.row)
    /\ u.pc \in {"alias", "find", "audit", "upsert"} => Head(u.carriers) \in providers
    /\ u.pc = "upsert" \/ u.exact => u.mno # Null
    /\ u.pc \notin CarrierPhase => u.mno = Null
    /\ u.pc = "audit" /\ u.found # Null =>
         /\ u.found.files # <<>> /\ u.found.id <= erased
         /\ u.found.mno # Null /\ mnos[u.found.mno] = Null =>
                u.found.id < erased /\ ~Alive(EntryKey(u), u.found)

(* A request of an administrator has read what it works on.                    *)
AdminFits(f) ==
    /\ f.at <= epoch
    /\ f.pc = "map" => DOMAIN f.saw # {}
    /\ f.pc \in {"map", "secondary"} \/ f.op = "map" => f.to \in Code
    /\ f.at = epoch /\ f.to # Null => mnos[f.to] # Null
    /\ \A k \in DOMAIN f.saw :
         /\ k[1] \in providers /\ f.saw[k].files # <<>>
         /\ f.at = epoch /\ f.saw[k].mno # Null => mnos[f.saw[k].mno] # Null

UpTypeOK == up \in [Upload -> UploadRecord]
AdmTypeOK == adm \in [Admin -> AdminRecord]
UpFrames == \A r \in Upload : UploadFits(up[r])
AdmFrames == \A a \in Admin : AdminFits(adm[a])

TypeInv == DbTypeOK /\ RefsExist /\ UpTypeOK /\ AdmTypeOK /\ UpFrames /\ AdmFrames

-----------------------------------------------------------------------------
(* What holds of an upload that nothing has run beside.                        *)

AloneInv ==
    \A r \in alone :
        /\ alone = {r}
        /\ \A o \in Upload \ {r} : up[o].pc = "idle"
        /\ \A a \in Admin : adm[a].pc = "idle"

(* Where the operators of now put a row of a file of this kind.                *)
CodeNow(kind, row) ==
    IF row.code # Null THEN row.code
    ELSE IF kind = "sheet" THEN Null ELSE ByName(mnos, row.name)

PlaceNow(kind, row) ==
    LET c == CodeNow(kind, row)
    IN IF c = Null THEN {}
       ELSE IF Holders(c) # {} THEN Holders(c) ELSE {ByName(mnos, row.name)} \ {Null}

(* It sees the operators as they are, and places each row as they do.          *)
Steady(u) ==
    /\ u.pc # "idle" /\ (u.kind = "zip" => u.batch = mnos)
    /\ u.pc \in {"batch", "delete", "roster"} => u.rows = {} /\ u.seen = {} /\ u.loaded = 0
    /\ u.pc \in {"rows"} \cup RowPhase => u.roster = mnos /\ u.rosterAt = epoch
    /\ u.pc \notin RowPhase => u.carriers = <<>>
    /\ u.pc \in RowPhase => u.row \in u.rows /\ u.code = CodeNow(u.kind, u.row)
    /\ u.pc = "name" => u.code # Null /\ Holders(u.code) = {}
    /\ u.pc \in CarrierPhase =>
         /\ IF u.mno = Null THEN PlaceNow(u.kind, u.row) = {} ELSE u.mno \in PlaceNow(u.kind, u.row)
         /\ u.services \subseteq u.row.services

(* The entry it has read is still as it read it, and nobody's decision.         *)
FoundFits(u) ==
    u.pc = "audit" =>
        /\ u.found = audit[EntryKey(u)]
        /\ u.found # Null => u.found.status # "MANUALLY_OVERRIDDEN"

SteadyInv == \A r \in alone : Steady(up[r]) /\ FoundFits(up[r])

Queued(queue, p, c, row) ==
    LET entry == queue[<<p, c, row.name>>]
    IN /\ entry # Null
       /\ entry.status # "MANUALLY_OVERRIDDEN" => row.services \subseteq entry.services

(* Every carrier it has passed of a row nothing places is queued.              *)
QueueFits(u) ==
    \A row \in u.rows : PlaceNow(u.kind, row) = {} =>
        \A p \in CarriersOf(row) :
            Queued(audit, p, CodeNow(u.kind, row), row) \/ (row = u.row /\ p \in Elems(u.carriers))

QueueInv == \A r \in alone : QueueFits(up[r])

Outstanding(u, p, s) ==
    \/ u.pc = "name" /\ p \in Elems(u.carriers)
    \/ /\ u.pc \in CarrierPhase
       /\ p \in Elems(Tail(u.carriers)) \/ (p = Head(u.carriers) /\ s \in u.services)

(* What it has loaded is what the file has, and what it has passed is loaded.   *)
LoadFits(u) ==
    u.replace /\ u.pc \in {"roster", "rows"} \cup RowPhase =>
        /\ FileRows(u.file) = u.seen /\ IsFiniteSet(u.seen) /\ u.loaded = Cardinality(u.seen)
        /\ \A k \in u.seen : \E row \in u.rows :
              k \in PlaceNow(u.kind, row) \X CarriersOf(row) \X row.services
        /\ \A row \in u.rows : PlaceNow(u.kind, row) # {} =>
              \A p \in CarriersOf(row), s \in row.services :
                 \/ \E m \in PlaceNow(u.kind, row) : <<m, p, s>> \in u.seen
                 \/ row = u.row /\ Outstanding(u, p, s)

LoadInv == \A r \in alone : LoadFits(up[r])

-----------------------------------------------------------------------------
(* Resolutions.  What one read of an entry is what the entry still asks for,    *)
(* unless an upload has been there since ...                                   *)
SawInv ==
    \A a \in Admin : adm[a].pc # "idle" =>
        \A k \in DOMAIN adm[a].saw \ overtaken : Alive(k, adm[a].saw[k]) =>
            audit[k].services = adm[a].saw[k].services

(* ... and each service it has gone through has its row.                       *)
MapInv ==
    \A a \in Admin : adm[a].pc = "map" /\ adm[a].at = epoch =>
        \A s \in adm[a].saw[TheKey(a)].services \ adm[a].todo :
            LET x == <<adm[a].to, TheKey(a)[1], s>> IN reach[x] # Null \/ x \in wiped

-----------------------------------------------------------------------------
(* Sequences and constants.                                                    *)

LEMMA SequenceFacts ==
    ASSUME NEW S, NEW s \in Seq(S), s # <<>>
    PROVE  /\ Head(s) \in S /\ Head(s) \in Elems(s)
           /\ Tail(s) \in Seq(S)
           /\ Elems(s) = {Head(s)} \cup Elems(Tail(s))
           /\ Len(s) > 1 <=> Tail(s) # <<>>
           /\ s[Len(s)] \in S
<1>1. Len(s) \in Nat /\ Len(s) > 0 /\ DOMAIN s = 1..Len(s) /\ \A i \in DOMAIN s : s[i] \in S
  OBVIOUS
<1>2. /\ Head(s) = s[1] /\ Len(Tail(s)) = Len(s) - 1 /\ Tail(s) \in Seq(S)
      /\ \A i \in 1..(Len(s) - 1) : Tail(s)[i] = s[i + 1]
  OBVIOUS
<1>3. Head(s) \in S /\ Head(s) \in Elems(s) /\ s[Len(s)] \in S
  BY <1>1, <1>2 DEF Elems
<1>4. DOMAIN Tail(s) = 1..(Len(s) - 1)
  BY <1>1, <1>2
<1>5. Elems(s) = {Head(s)} \cup Elems(Tail(s))
  <2>1. ASSUME NEW x \in Elems(s) PROVE x \in {Head(s)} \cup Elems(Tail(s))
    <3>1. PICK i \in 1..Len(s) : x = s[i]
      BY <1>1 DEF Elems
    <3>2. CASE i = 1
      BY <1>2, <3>1, <3>2
    <3>3. CASE i # 1
      <4>1. i - 1 \in 1..(Len(s) - 1) /\ Tail(s)[i - 1] = s[i]
        BY <1>1, <1>2, <3>1, <3>3
      <4>2. QED BY <1>4, <3>1, <4>1 DEF Elems
    <3>4. QED BY <3>2, <3>3
  <2>2. ASSUME NEW x \in Elems(Tail(s)) PROVE x \in Elems(s)
    <3>1. PICK i \in 1..(Len(s) - 1) : x = s[i + 1]
      BY <1>2, <1>4 DEF Elems
    <3>2. i + 1 \in DOMAIN s
      BY <1>1, <3>1
    <3>3. QED BY <3>1, <3>2 DEF Elems
  <2>3. QED BY <1>3, <2>1, <2>2
<1>6. Len(s) > 1 <=> Tail(s) # <<>>
  <2>1. ASSUME NEW t \in Seq(S) PROVE t = <<>> <=> Len(t) = 0
    OBVIOUS
  <2>2. Tail(s) = <<>> <=> Len(Tail(s)) = 0
    BY <1>2, <2>1
  <2>3. Len(Tail(s)) = Len(s) - 1
    BY <1>2
  <2>4. Len(s) - 1 = 0 <=> ~(Len(s) > 1)
    BY <1>1
  <2>5. QED BY <2>2, <2>3, <2>4
<1>7. QED BY <1>2, <1>3, <1>5, <1>6

LEMMA NoElems == Elems(<<>>) = {}
BY DEF Elems

LEMMA ExtendType ==
    ASSUME NEW s \in Seq(File), NEW f \in File, s # <<>>
    PROVE  Extend(s, f) \in Seq(File) /\ Extend(s, f) # <<>>
<1>1. Append(s, f) \in Seq(File) /\ Append(s, f) # <<>>
  OBVIOUS
<1>2. QED BY <1>1 DEF Extend

LEMMA Constants ==
    /\ Null \notin Code /\ Null \notin Name /\ Null \notin Provider /\ Null \notin File
    /\ Null \notin AuditRow
BY ConstantsAssumption, NoEntryAssumption

LEMMA RowType ==
    ASSUME NEW row \in Row
    PROVE  /\ row.code \in Code \cup {Null} /\ row.name \in Name
           /\ row.carriers \in Seq(Provider) /\ row.carriers # <<>>
           /\ row.services \subseteq Service /\ row.services # {}
           /\ CarriersOf(row) = Elems(row.carriers) /\ CarriersOf(row) \subseteq Provider
<1>1. row.carriers \in Seq(Provider) /\ row.carriers # <<>>
  BY ConstantsAssumption
<1>2. CarriersOf(row) \subseteq Provider
  BY <1>1 DEF CarriersOf
<1>3. QED BY <1>1, <1>2, ConstantsAssumption DEF CarriersOf, Elems

LEMMA AuditKeyOf ==
    ASSUME NEW row \in Row, NEW p \in CarriersOf(row),
           NEW c \in IF row.code = Null THEN Code \cup {Null} ELSE {row.code}
    PROVE  <<p, c, row.name>> \in AuditKey
BY DEF AuditKey, CarriersOf

LEMMA AuditKeyType ==
    ASSUME NEW k \in AuditKey
    PROVE  k[1] \in Provider /\ k[2] \in Code \cup {Null} /\ k[3] \in Name
<1>1. PICK row \in Row : \E p \in CarriersOf(row),
              c \in IF row.code = Null THEN Code \cup {Null} ELSE {row.code} : k = <<p, c, row.name>>
  BY DEF AuditKey, CarriersOf
<1>2. QED BY <1>1, RowType

LEMMA NothingSeenType == NothingSeen \in UNION {[K -> AuditRow] : K \in SUBSET AuditKey}
<1>1. NothingSeen \in [{} -> AuditRow]
  BY DEF NothingSeen
<1>2. {} \in SUBSET AuditKey
  OBVIOUS
<1>3. QED BY <1>1, <1>2

LEMMA IdleTypes == IdleUpload \in UploadRecord /\ IdleAdmin \in AdminRecord
<1>1. NoRoster \in Roster
  BY DEF NoRoster, Roster
<1>2. <<>> \in Seq(Provider)
  OBVIOUS
<1>3. IdleUpload \in UploadRecord
  BY <1>1, <1>2 DEF IdleUpload, UploadRecord, UploadPhase
<1>4. IdleAdmin \in AdminRecord
  BY NothingSeenType DEF IdleAdmin, AdminRecord
<1>5. QED BY <1>3, <1>4

(* A roster answers with an operator it holds.                                 *)
LEMMA ByNameType ==
    ASSUME NEW roster \in Roster, NEW n \in Name
    PROVE  /\ ByName(roster, n) \in Code \cup {Null}
           /\ ByName(roster, n) # Null => roster[ByName(roster, n)] # Null
<1> DEFINE exact == {c \in Code : roster[c] = n}
           fuzzy == {c \in Code : <<n, roster[c]>> \in Similar}
           best == IF exact # {} THEN exact ELSE fuzzy
<1>1. best \subseteq {c \in Code : roster[c] # Null}
  BY Constants, ConstantsAssumption
<1>2. CASE Cardinality(best) = 1
  <2>1. best # {}
    <3> HIDE DEF best
    <3>1. Cardinality({}) = 0
      BY FS_EmptySet
    <3>2. best = {} => Cardinality(best) = 0
      BY <3>1
    <3>3. QED BY <1>2, <3>2
  <2>2. (CHOOSE c \in best : TRUE) \in best
    BY <2>1
  <2>3. ByName(roster, n) = CHOOSE c \in best : TRUE
    BY <1>2 DEF ByName
  <2>4. QED BY <1>1, <2>2, <2>3
<1>3. CASE Cardinality(best) # 1
  BY <1>3 DEF ByName
<1>4. QED BY <1>2, <1>3

LEMMA SourceType ==
    ASSUME NEW row \in AuditRow, row.files # <<>>
    PROVE  SourceOf(row) \in File
<1>1. row.files \in Seq(File)
  BY DEF AuditRow
<1>2. QED BY <1>1, SequenceFacts DEF SourceOf

-----------------------------------------------------------------------------
(* What one request does leaves the others as they fit.                        *)

(* Ids, operators and providers only come, but for a reset.                    *)
Onward ==
    /\ epoch' = epoch /\ providers \subseteq providers' /\ erased <= erased'
    /\ \A c \in Code : mnos[c] # Null => mnos'[c] # Null
    /\ \A k \in AuditKey : audit'[k] # Null =>
         audit'[k].id = erased \/ (audit[k] # Null /\ audit'[k].id = audit[k].id)

LEMMA EntryKeyType ==
    ASSUME NEW u \in UploadRecord, UploadFits(u), u.pc \in RowPhase
    PROVE  /\ EntryKey(u) \in AuditKey /\ Head(u.carriers) \in Provider
           /\ u.row.name \in Name /\ u.carriers \in Seq(Provider)
<1>1. u.row \in Row /\ u.carriers \in Seq(Provider) /\ u.carriers # <<>>
  BY DEF UploadFits, UploadRecord
<1>2. Head(u.carriers) \in CarriersOf(u.row)
  BY <1>1, SequenceFacts DEF UploadFits
<1>3. QED BY <1>1, <1>2, AuditKeyOf, RowType DEF UploadFits, EntryKey

LEMMA UploadFitsOnward ==
    ASSUME TypeInv, Onward, erased' \in Nat, NEW u \in UploadRecord, UploadFits(u)
    PROVE  UploadFits(u)'
<1>1. u.mno \in Code \cup {Null} /\ u.found \in AuditRow \cup {Null}
  BY DEF UploadRecord
<1>2. /\ u.pc \notin {"idle", "batch"} => u.file \in File
      /\ u.names \subseteq providers'
      /\ u.rosterAt <= epoch' /\ u.at <= epoch'
      /\ u.rosterAt = epoch' => \A c \in Code : u.roster[c] # Null => mnos'[c] # Null
      /\ u.mno # Null /\ u.at = epoch' => mnos'[u.mno] # Null
      /\ u.pc \in {"alias", "find", "audit", "upsert"} => Head(u.carriers) \in providers'
  BY <1>1 DEF UploadFits, Onward
<1>3. ASSUME u.pc = "audit", u.found # Null
      PROVE  /\ u.found.files # <<>> /\ u.found.id <= erased'
             /\ u.found.mno # Null /\ mnos'[u.found.mno] = Null =>
                    u.found.id < erased' /\ ~Alive(EntryKey(u), u.found)'
  <2>1. u.found.id \in Nat /\ u.found.mno \in Code \cup {Null} /\ erased \in Nat
    BY <1>1, <1>3 DEF AuditRow, TypeInv, DbTypeOK
  <2>2. u.found.files # <<>> /\ u.found.id <= erased'
    BY <1>3, <2>1 DEF UploadFits, Onward
  <2>3. ASSUME u.found.mno # Null, mnos'[u.found.mno] = Null
        PROVE  u.found.id < erased' /\ ~Alive(EntryKey(u), u.found)'
    <3>1. mnos[u.found.mno] = Null
      BY <2>1, <2>3 DEF Onward
    <3>2. u.found.id < erased /\ ~Alive(EntryKey(u), u.found)
      BY <1>3, <2>3, <3>1 DEF UploadFits
    <3>3. EntryKey(u) \in AuditKey
      BY <1>3, EntryKeyType DEF RowPhase, CarrierPhase
    <3>4. u.found.id < erased'
      BY <2>1, <3>2 DEF Onward
    <3>5. ~(audit'[EntryKey(u)] # Null /\ audit'[EntryKey(u)].id = u.found.id)
      BY <2>1, <3>2, <3>3 DEF Onward, Alive
    <3>6. EntryKey(u)' = EntryKey(u)
      BY DEF EntryKey
    <3>7. QED BY <3>4, <3>5, <3>6 DEF Alive
  <2>4. QED BY <2>2, <2>3
<1>4. QED BY <1>2, <1>3 DEF UploadFits

LEMMA AdminFitsOnward ==
    ASSUME TypeInv, Onward, NEW f \in AdminRecord, AdminFits(f)
    PROVE  AdminFits(f)'
<1>1. f.to \in Code \cup {Null} /\ \A k \in DOMAIN f.saw : f.saw[k] \in AuditRow
  BY DEF AdminRecord
<1>2. \A k \in DOMAIN f.saw : f.saw[k].mno \in Code \cup {Null}
  BY <1>1 DEF AuditRow
<1>3. QED BY <1>1, <1>2 DEF AdminFits, Onward

(* One upload's step.                                                          *)
LEMMA UploadMoves ==
    ASSUME TypeInv, NEW r \in Upload, NEW u \in UploadRecord,
           up' = [up EXCEPT ![r] = u], UploadFits(u)', Onward, adm' = adm,
           DbTypeOK', RefsExist'
    PROVE  TypeInv'
<1>1. UpTypeOK' /\ up'[r] = u /\ \A o \in Upload \ {r} : up'[o] = up[o]
  BY DEF TypeInv, UpTypeOK
<1>2. ASSUME NEW o \in Upload PROVE UploadFits(up[o])'
  <2>1. CASE o = r
    BY <1>1, <2>1 DEF UploadFits, EntryKey, Alive
  <2>2. CASE o # r
    <3>1. PICK v : v = up[o]
      OBVIOUS
    <3>2. v \in UploadRecord /\ UploadFits(v)
      BY <3>1 DEF TypeInv, UpTypeOK, UpFrames
    <3>3. UploadFits(v)'
      BY <3>2, UploadFitsOnward DEF DbTypeOK
    <3>4. up'[o] = v
      BY <1>1, <2>2, <3>1
    <3>5. QED BY <3>3, <3>4 DEF UploadFits, EntryKey, Alive
  <2>3. QED BY <2>1, <2>2
<1>3. ASSUME NEW a \in Admin PROVE AdminFits(adm[a])'
  <2>1. PICK f : f = adm[a]
    OBVIOUS
  <2>2. f \in AdminRecord /\ AdminFits(f)
    BY <2>1 DEF TypeInv, AdmTypeOK, AdmFrames
  <2>3. AdminFits(f)'
    BY <2>2, AdminFitsOnward
  <2>4. QED BY <2>1, <2>3 DEF AdminFits
<1>4. AdmTypeOK'
  BY DEF TypeInv, AdmTypeOK
<1>5. QED BY <1>1, <1>2, <1>3, <1>4 DEF TypeInv, UpFrames, AdmFrames

(* One administrator's step. *)
LEMMA AdminMoves ==
    ASSUME TypeInv, NEW a \in Admin, NEW f \in AdminRecord,
           adm' = [adm EXCEPT ![a] = f], AdminFits(f)', Onward, up' = up,
           DbTypeOK', RefsExist'
    PROVE  TypeInv'
<1>1. AdmTypeOK' /\ adm'[a] = f /\ \A b \in Admin \ {a} : adm'[b] = adm[b]
  BY DEF TypeInv, AdmTypeOK
<1>2. ASSUME NEW b \in Admin PROVE AdminFits(adm[b])'
  <2>1. CASE b = a
    BY <1>1, <2>1 DEF AdminFits
  <2>2. CASE b # a
    <3>1. PICK g : g = adm[b]
      OBVIOUS
    <3>2. g \in AdminRecord /\ AdminFits(g)
      BY <3>1 DEF TypeInv, AdmTypeOK, AdmFrames
    <3>3. AdminFits(g)'
      BY <3>2, AdminFitsOnward
    <3>4. adm'[b] = g
      BY <1>1, <2>2, <3>1
    <3>5. QED BY <3>3, <3>4 DEF AdminFits
  <2>3. QED BY <2>1, <2>2
<1>3. ASSUME NEW o \in Upload PROVE UploadFits(up[o])'
  <2>1. PICK v : v = up[o]
    OBVIOUS
  <2>2. v \in UploadRecord /\ UploadFits(v)
    BY <2>1 DEF TypeInv, UpTypeOK, UpFrames
  <2>3. UploadFits(v)'
    BY <2>2, UploadFitsOnward DEF DbTypeOK
  <2>4. QED BY <2>1, <2>3 DEF UploadFits, EntryKey, Alive
<1>4. UpTypeOK'
  BY DEF TypeInv, UpTypeOK
<1>5. QED BY <1>1, <1>2, <1>3, <1>4 DEF TypeInv, UpFrames, AdmFrames

-----------------------------------------------------------------------------
(* Where an upload goes next, it fits.                                         *)

RowFits(u) ==
    /\ u.file \in File /\ u.names \subseteq providers
    /\ u.rosterAt <= epoch /\ u.at <= epoch
    /\ u.rosterAt = epoch => \A c \in Code : u.roster[c] # Null => mnos[c] # Null
    /\ u.mno # Null /\ u.at = epoch => mnos[u.mno] # Null
    /\ u.row \in Row
    /\ u.code \in IF u.row.code = Null THEN Code \cup {Null} ELSE {u.row.code}
    /\ u.carriers # <<>> /\ Elems(u.carriers) \subseteq CarriersOf(u.row)
    /\ u.exact => u.mno # Null

LEMMA FitsInRow ==
    ASSUME NEW u \in UploadRecord, UploadFits(u), u.pc \in RowPhase
    PROVE  RowFits(u)
BY DEF UploadFits, RowFits, RowPhase, CarrierPhase

LEMMA AtCarrierFits ==
    ASSUME TypeInv, NEW u \in UploadRecord, RowFits(u)
    PROVE  AtCarrier(u) \in UploadRecord /\ UploadFits(AtCarrier(u))
<1> DEFINE v == AtCarrier(u)
<1>1. /\ u.row.services \subseteq Service /\ u.carriers \in Seq(Provider)
      /\ Head(u.carriers) \in Provider
  BY RowType, SequenceFacts DEF RowFits, UploadRecord
<1>2. /\ v \in UploadRecord
      /\ v = [u EXCEPT !.services = u.row.services, !.pc = v.pc]
      /\ v.pc \in {"create", "upsert", "find"}
      /\ v.pc = "upsert" => Known(u, Head(u.carriers)) /\ u.exact
      /\ v.pc = "find" => Known(u, Head(u.carriers))
  <2>1. CASE ~Known(u, Head(u.carriers))
    BY <1>1, <2>1 DEF AtCarrier, UploadRecord, UploadPhase
  <2>2. CASE Known(u, Head(u.carriers)) /\ u.exact
    BY <1>1, <2>2 DEF AtCarrier, UploadRecord, UploadPhase
  <2>3. CASE Known(u, Head(u.carriers)) /\ ~u.exact
    BY <1>1, <2>3 DEF AtCarrier, UploadRecord, UploadPhase
  <2>4. QED BY <2>1, <2>2, <2>3
<1>3. /\ v.file = u.file /\ v.names = u.names /\ v.rosterAt = u.rosterAt /\ v.at = u.at
      /\ v.roster = u.roster /\ v.mno = u.mno /\ v.row = u.row /\ v.code = u.code
      /\ v.carriers = u.carriers /\ v.exact = u.exact
  BY <1>2 DEF UploadRecord
<1> HIDE DEF v
<1>4. Known(u, Head(u.carriers)) => Head(u.carriers) \in providers
  BY DEF Known, RowFits, TypeInv, DbTypeOK
<1>5. UploadFits(v)
  BY <1>2, <1>3, <1>4 DEF RowFits, UploadFits, RowPhase, CarrierPhase
<1>6. QED BY <1>2, <1>5 DEF v

LEMMA NextCarrierFits ==
    ASSUME TypeInv, NEW u \in UploadRecord, RowFits(u)
    PROVE  NextCarrier(u) \in UploadRecord /\ UploadFits(NextCarrier(u))
<1>1. u.carriers \in Seq(Provider) /\ u.carriers # <<>>
  BY DEF RowFits, UploadRecord
<1>2. CASE Len(u.carriers) > 1
  <2>1. PICK w : w = [u EXCEPT !.carriers = Tail(u.carriers), !.found = Null]
    OBVIOUS
  <2>2. Tail(u.carriers) \in Seq(Provider) /\ Tail(u.carriers) # <<>>
        /\ Elems(Tail(u.carriers)) \subseteq Elems(u.carriers)
    BY <1>1, <1>2, SequenceFacts
  <2>3. w \in UploadRecord
    BY <2>1, <2>2 DEF UploadRecord
  <2>4. RowFits(w)
    BY <2>1, <2>2 DEF RowFits, UploadRecord
  <2>5. NextCarrier(u) = AtCarrier(w)
    BY <1>2, <2>1 DEF NextCarrier
  <2>6. QED BY <2>3, <2>4, <2>5, AtCarrierFits
<1>3. CASE ~(Len(u.carriers) > 1)
  <2>1. PICK w : w = [u EXCEPT !.pc = "rows", !.row = Null, !.code = Null, !.mno = Null, !.at = 0,
                   !.exact = FALSE, !.carriers = <<>>, !.services = {}, !.found = Null]
    OBVIOUS
  <2>2. NextCarrier(u) = w
    BY <1>3, <2>1 DEF NextCarrier
  <2>3. w \in UploadRecord
    <3>1. <<>> \in Seq(Provider) /\ {} \in SUBSET Service
      OBVIOUS
    <3>2. QED BY <2>1, <3>1 DEF UploadRecord, UploadPhase
  <2>4. /\ w.pc = "rows" /\ w.file = u.file /\ w.names = u.names /\ w.rosterAt = u.rosterAt
        /\ w.roster = u.roster /\ w.at = 0 /\ w.mno = Null /\ w.exact = FALSE
    BY <2>1 DEF UploadRecord
  <2>5. UploadFits(w)
    BY <2>4 DEF UploadFits, RowFits, RowPhase, CarrierPhase, TypeInv, DbTypeOK
  <2>6. QED BY <2>2, <2>3, <2>5
<1>4. QED BY <1>2, <1>3

LEMMA AfterAuditFits ==
    ASSUME TypeInv, NEW u \in UploadRecord, RowFits(u), Head(u.carriers) \in providers
    PROVE  AfterAudit(u) \in UploadRecord /\ UploadFits(AfterAudit(u))
<1>1. CASE u.mno = Null
  BY <1>1, NextCarrierFits DEF AfterAudit
<1>2. CASE u.mno # Null
  <2>1. PICK w : w = [u EXCEPT !.pc = "upsert"]
    OBVIOUS
  <2>2. w \in UploadRecord /\ w.pc = "upsert"
    BY <2>1 DEF UploadRecord, UploadPhase
  <2>3. /\ w.file = u.file /\ w.names = u.names /\ w.rosterAt = u.rosterAt /\ w.at = u.at
        /\ w.roster = u.roster /\ w.mno = u.mno /\ w.row = u.row /\ w.code = u.code
        /\ w.carriers = u.carriers /\ w.exact = u.exact
    BY <2>1 DEF UploadRecord
  <2>4. UploadFits(w)
    BY <1>2, <2>2, <2>3 DEF RowFits, UploadFits, RowPhase, CarrierPhase
  <2>5. QED BY <1>2, <2>1, <2>2, <2>4 DEF AfterAudit
<1>3. QED BY <1>1, <1>2

LEMMA OpenedFits ==
    ASSUME TypeInv, NEW u \in UploadRecord, UploadFits(u), NEW f \in File,
           u.pc \in {"idle", "batch"}
    PROVE  Opened(u, f) \in UploadRecord /\ UploadFits(Opened(u, f))
<1>1. PICK w : w = Opened(u, f)
  OBVIOUS
<1>2. providers \in SUBSET Provider
  BY DEF TypeInv, DbTypeOK
<1>3. w \in UploadRecord /\ w.pc \in {"delete", "roster"}
  <2>1. u.files \in Nat
    BY DEF UploadRecord
  <2>2. PICK p : p = IF u.replace THEN "delete" ELSE "roster"
    OBVIOUS
  <2>3. p \in {"delete", "roster"}
    BY <2>2
  <2>4. w = [u EXCEPT !.pc = p, !.file = f, !.files = u.files + 1, !.names = providers]
    BY <1>1, <2>2 DEF Opened
  <2>5. u.files + 1 \in Nat
    BY <2>1
  <2>6. QED BY <1>2, <2>3, <2>4, <2>5 DEF UploadRecord, UploadPhase
<1>4. /\ w.file = f /\ w.names = providers /\ w.rosterAt = u.rosterAt /\ w.at = u.at
      /\ w.roster = u.roster /\ w.mno = u.mno /\ w.exact = u.exact
  BY <1>1 DEF UploadRecord, Opened
<1>5. UploadFits(w)
  BY <1>3, <1>4 DEF UploadFits, RowPhase, CarrierPhase
<1>6. QED BY <1>1, <1>3, <1>5

LEMMA AfterFileFits ==
    ASSUME TypeInv, NEW u \in UploadRecord
    PROVE  AfterFile(u) \in UploadRecord /\ UploadFits(AfterFile(u))
<1>1. PICK w : w = AfterFile(u)
  OBVIOUS
<1>2. w \in UploadRecord
  <2>1. CASE u.kind # "zip"
    BY <1>1, <2>1, IdleTypes DEF AfterFile
  <2>2. CASE u.kind = "zip"
    <3>1. PICK i : i = IdleUpload
      OBVIOUS
    <3>2. i \in UploadRecord /\ u.batch \in Roster /\ u.files \in Nat /\ u.replace \in BOOLEAN
      BY <3>1, IdleTypes DEF UploadRecord
    <3>3. w = [i EXCEPT !.pc = "batch", !.kind = "zip", !.replace = u.replace,
                         !.batch = u.batch, !.files = u.files]
      BY <1>1, <2>2, <3>1 DEF AfterFile
    <3>4. QED BY <3>2, <3>3 DEF UploadRecord, UploadPhase
  <2>3. QED BY <2>1, <2>2
<1>3. /\ w.pc \in {"idle", "batch"} /\ w.names = {} /\ w.rosterAt = 0 /\ w.at = 0
      /\ w.roster = NoRoster /\ w.mno = Null /\ w.exact = FALSE
  BY <1>1 DEF AfterFile, IdleUpload
<1>4. UploadFits(w)
  BY <1>3 DEF UploadFits, RowPhase, CarrierPhase, NoRoster, TypeInv, DbTypeOK
<1>5. QED BY <1>1, <1>2, <1>4

LEMMA IdleFits ==
    ASSUME DbTypeOK
    PROVE  UploadFits(IdleUpload) /\ AdminFits(IdleAdmin)
<1>1. UploadFits(IdleUpload)
  BY DEF UploadFits, IdleUpload, RowPhase, CarrierPhase, NoRoster, DbTypeOK
<1>2. AdminFits(IdleAdmin)
  BY DEF AdminFits, IdleAdmin, NothingSeen, DbTypeOK
<1>3. QED BY <1>1, <1>2

LEMMA CodeOfType ==
    ASSUME TypeInv, NEW r \in Upload, NEW row \in Row
    PROVE  CodeOf(r, row) \in IF row.code = Null THEN Code \cup {Null} ELSE {row.code}
<1>1. up[r] \in UploadRecord
  BY DEF TypeInv, UpTypeOK
<1>2. up[r].roster \in Roster /\ up[r].batch \in Roster /\ up[r].kind \in {"sheet", "matrix", "zip"}
  BY <1>1 DEF UploadRecord
<1>3. QED BY <1>2, ByNameType, RowType DEF CodeOf

(* A row whose operator is found leaves the record an upload's.                *)
LEMMA WithOperator ==
    ASSUME NEW u \in UploadRecord, NEW m \in Code, NEW at \in Nat
    PROVE  [u EXCEPT !.mno = m, !.at = at, !.exact = TRUE] \in UploadRecord
BY DEF UploadRecord

LEMMA LocatedFits ==
    ASSUME TypeInv, NEW u \in UploadRecord, RowFits(u), u.mno = Null,
           NEW v \in Located(u)
    PROVE  v \in UploadRecord /\ UploadFits(v)
<1>1. CASE u.code = Null
  BY <1>1, AtCarrierFits DEF Located
<1>2. CASE u.code # Null /\ Holders(u.code) = {}
  <2>1. v = [u EXCEPT !.pc = "name"]
    BY <1>2 DEF Located
  <2>2. v \in UploadRecord /\ v.pc = "name"
    BY <2>1 DEF UploadRecord, UploadPhase
  <2>3. /\ v.file = u.file /\ v.names = u.names /\ v.rosterAt = u.rosterAt /\ v.at = u.at
        /\ v.roster = u.roster /\ v.mno = u.mno /\ v.row = u.row /\ v.code = u.code
        /\ v.carriers = u.carriers /\ v.exact = u.exact
    BY <2>1 DEF UploadRecord
  <2>4. QED BY <2>2, <2>3 DEF RowFits, UploadFits, RowPhase, CarrierPhase
<1>3. CASE u.code # Null /\ Holders(u.code) # {}
  <2>1. PICK m \in Holders(u.code) : v = AtCarrier([u EXCEPT !.mno = m, !.at = epoch, !.exact = TRUE])
    BY <1>3 DEF Located
  <2>2. PICK w : w = [u EXCEPT !.mno = m, !.at = epoch, !.exact = TRUE]
    OBVIOUS
  <2>3. m \in Code /\ mnos[m] # Null /\ epoch \in Nat /\ m # Null
    BY Constants DEF Holders, Registered, TypeInv, DbTypeOK
  <2>4. w \in UploadRecord
    BY <2>2, <2>3, WithOperator
  <2>5. /\ w.file = u.file /\ w.names = u.names /\ w.rosterAt = u.rosterAt /\ w.at = epoch
        /\ w.roster = u.roster /\ w.mno = m /\ w.row = u.row /\ w.code = u.code
        /\ w.carriers = u.carriers
    BY <2>2 DEF UploadRecord
  <2>6. RowFits(w)
    BY <2>3, <2>5 DEF RowFits
  <2>7. QED BY <2>1, <2>2, <2>4, <2>6, AtCarrierFits
<1>4. QED BY <1>1, <1>2, <1>3

(* A step that only moves the upload.                                          *)
LEMMA UploadOnly ==
    ASSUME TypeInv, NEW r \in Upload, NEW u \in UploadRecord, UploadFits(u),
           up' = [up EXCEPT ![r] = u], UNCHANGED <<db, adm, edits, declared, taken, wiped, overtaken>>,
           uploads' \in Nat, lines' \in Nat, faults' \in Nat, alone' \in SUBSET Upload
    PROVE  TypeInv'
<1>1. DbTypeOK' /\ RefsExist'
  BY DEF db, TypeInv, DbTypeOK, RefsExist
<1>2. Onward
  BY DEF Onward, db, TypeInv, DbTypeOK
<1>3. UploadFits(u)'
  BY <1>1, <1>2, UploadFitsOnward DEF DbTypeOK
<1>4. QED BY <1>1, <1>2, <1>3, UploadMoves

LEMMA FrameOf ==
    ASSUME TypeInv, NEW r \in Upload
    PROVE  up[r] \in UploadRecord /\ UploadFits(up[r])
BY DEF TypeInv, UpTypeOK, UpFrames

LEMMA StartTypes ==
    ASSUME TypeInv, NEW r \in Upload, NEW u \in UploadRecord, UploadFits(u), Start(r, u)
    PROVE  TypeInv'
<1>1. UNCHANGED <<db, adm, edits, declared, taken, wiped, overtaken>> /\ up' = [up EXCEPT ![r] = u]
  BY DEF Start
<1>2. uploads' \in Nat /\ lines' \in Nat /\ faults' \in Nat
  BY DEF Start, TypeInv, DbTypeOK
<1>3. alone' \in SUBSET Upload
  BY DEF Start
<1>4. QED BY <1>1, <1>2, <1>3, UploadOnly

LEMMA OpeningTypes ==
    ASSUME TypeInv, NEW r \in Upload,
           \/ \E kind \in {"sheet", "matrix"}, replace \in BOOLEAN, f \in File :
                 StartUpload(r, kind, replace, f)
           \/ \E replace \in BOOLEAN : StartArchive(r, replace)
           \/ \E f \in File : NextFile(r, f)
    PROVE  TypeInv'
<1>1. ASSUME NEW kind \in {"sheet", "matrix"}, NEW replace \in BOOLEAN, NEW f \in File,
             StartUpload(r, kind, replace, f)
      PROVE  TypeInv'
  <2>1. PICK i : i = IdleUpload
    OBVIOUS
  <2>2. i \in UploadRecord /\ UploadFits(i)
    BY <2>1, IdleTypes, IdleFits DEF TypeInv
  <2>3. PICK w : w = [i EXCEPT !.kind = kind, !.replace = replace]
    OBVIOUS
  <2>4. w \in UploadRecord
    BY <2>2, <2>3 DEF UploadRecord
  <2>5. UploadFits(w)
    <3>1. i.pc = "idle" /\ i.exact = FALSE
      BY <2>1 DEF IdleUpload
    <3>2. /\ w.pc = "idle" /\ w.exact = FALSE /\ w.names = i.names /\ w.rosterAt = i.rosterAt
          /\ w.at = i.at /\ w.roster = i.roster /\ w.mno = i.mno
      BY <2>2, <2>3, <3>1 DEF UploadRecord
    <3>3. QED BY <2>2, <3>1, <3>2 DEF UploadFits, RowPhase, CarrierPhase
  <2>6. Start(r, Opened(w, f))
    BY <1>1, <2>1, <2>3 DEF StartUpload
  <2>7. w.pc = "idle"
    BY <2>1, <2>2, <2>3 DEF IdleUpload, UploadRecord
  <2>8. Opened(w, f) \in UploadRecord /\ UploadFits(Opened(w, f))
    BY <2>4, <2>5, <2>7, OpenedFits
  <2>9. QED BY <2>6, <2>8, StartTypes
<1>2. ASSUME NEW replace \in BOOLEAN, StartArchive(r, replace) PROVE TypeInv'
  <2>1. PICK i : i = IdleUpload
    OBVIOUS
  <2>2. i \in UploadRecord /\ UploadFits(i) /\ mnos \in Roster
    BY <2>1, IdleTypes, IdleFits DEF TypeInv, DbTypeOK
  <2>3. PICK w : w = [i EXCEPT !.pc = "batch", !.kind = "zip", !.replace = replace, !.batch = mnos]
    OBVIOUS
  <2>4. w \in UploadRecord
    BY <2>2, <2>3 DEF UploadRecord, UploadPhase
  <2>5. UploadFits(w)
    <3>1. i.pc = "idle" /\ i.exact = FALSE
      BY <2>1 DEF IdleUpload
    <3>2. /\ w.pc = "batch" /\ w.exact = FALSE /\ w.names = i.names /\ w.rosterAt = i.rosterAt
          /\ w.at = i.at /\ w.roster = i.roster /\ w.mno = i.mno
      BY <2>2, <2>3, <3>1 DEF UploadRecord
    <3>3. QED BY <2>2, <3>1, <3>2 DEF UploadFits, RowPhase, CarrierPhase
  <2>6. Start(r, w)
    BY <1>2, <2>1, <2>3 DEF StartArchive
  <2>7. QED BY <2>4, <2>5, <2>6, StartTypes
<1>3. ASSUME NEW f \in File, NextFile(r, f) PROVE TypeInv'
  <2>1. PICK w : w = Opened(up[r], f)
    OBVIOUS
  <2>2. w \in UploadRecord /\ UploadFits(w)
    BY <1>3, <2>1, FrameOf, OpenedFits DEF NextFile
  <2>3. up' = [up EXCEPT ![r] = w] /\ UNCHANGED <<db, adm, bounds, observers>>
    BY <1>3, <2>1 DEF NextFile
  <2>4. QED BY <2>2, <2>3, UploadOnly DEF TypeInv, DbTypeOK, bounds, observers
<1>4. QED BY <1>1, <1>2, <1>3

LEMMA ReadRosterTypes ==
    ASSUME TypeInv, NEW r \in Upload, ReadRoster(r)
    PROVE  TypeInv'
<1>1. PICK w : w = [up[r] EXCEPT !.pc = "rows", !.roster = mnos, !.rosterAt = epoch]
  OBVIOUS
<1>2. PICK u : u = up[r]
  OBVIOUS
<1>3. u \in UploadRecord /\ UploadFits(u) /\ u.pc = "roster" /\ mnos \in Roster /\ epoch \in Nat
  BY <1>2, FrameOf DEF ReadRoster, TypeInv, DbTypeOK
<1>4. w \in UploadRecord
  BY <1>1, <1>2, <1>3 DEF UploadRecord, UploadPhase
<1>5. /\ w.pc = "rows" /\ w.file = u.file /\ w.names = u.names /\ w.rosterAt = epoch
      /\ w.at = u.at /\ w.roster = mnos /\ w.mno = u.mno /\ w.exact = u.exact
  BY <1>1, <1>2, <1>3 DEF UploadRecord
<1>6. UploadFits(w)
  BY <1>3, <1>5 DEF UploadFits, RowPhase, CarrierPhase
<1>7. up' = [up EXCEPT ![r] = w] /\ UNCHANGED <<db, adm, bounds, observers>>
  BY <1>1, FrameOf DEF ReadRoster, UploadRecord
<1>8. QED BY <1>4, <1>6, <1>7, UploadOnly DEF TypeInv, DbTypeOK, bounds, observers

Taking(r, row) ==
    [up[r] EXCEPT !.row = row, !.rows = @ \cup {row},
                  !.code = CodeOf(r, row), !.carriers = row.carriers]

LEMMA RowTaken ==
    ASSUME TypeInv, NEW r \in Upload, NEW row \in Row, TakeRow(r, row),
           NEW u, u = Taking(r, row)
    PROVE  /\ u \in UploadRecord /\ u.mno = up[r].mno /\ u.exact = up[r].exact
           /\ u.row = row /\ u.code = CodeOf(r, row) /\ u.carriers = row.carriers
           /\ u.rows = up[r].rows \cup {row} /\ u.pc = "rows"
           /\ u.file = up[r].file /\ u.names = up[r].names /\ u.rosterAt = up[r].rosterAt
           /\ u.at = up[r].at /\ u.roster = up[r].roster
           /\ u.kind = up[r].kind /\ u.replace = up[r].replace /\ u.batch = up[r].batch
           /\ u.seen = up[r].seen /\ u.loaded = up[r].loaded
<1>1. PICK v : v = up[r]
  OBVIOUS
<1>2. v \in UploadRecord /\ v.pc = "rows"
  BY <1>1, FrameOf DEF TakeRow
<1>3. CodeOf(r, row) \in Code \cup {Null} /\ row.carriers \in Seq(Provider)
  BY CodeOfType, RowType
<1>4. PICK c : c = CodeOf(r, row)
  OBVIOUS
<1>5. u = [v EXCEPT !.row = row, !.rows = v.rows \cup {row}, !.code = c, !.carriers = row.carriers]
  BY <1>1, <1>2, <1>4 DEF UploadRecord, Taking
<1>6. u \in UploadRecord
  <2>1. v.rows \cup {row} \in SUBSET Row
    BY <1>2 DEF UploadRecord
  <2>2. QED BY <1>2, <1>3, <1>4, <1>5, <2>1 DEF UploadRecord
<1>7. QED BY <1>1, <1>2, <1>4, <1>5, <1>6 DEF UploadRecord

LEMMA TakeRowTypes ==
    ASSUME TypeInv, NEW r \in Upload, NEW row \in Row, TakeRow(r, row)
    PROVE  TypeInv'
<1>1. PICK u : u = Taking(r, row)
  OBVIOUS
<1>2. PICK w \in Located(u) : up' = [up EXCEPT ![r] = w]
  BY <1>1 DEF TakeRow, Taking
<1>3. RowFits(u)
  <2>1. up[r].file \in File /\ UploadFits(up[r])
    BY FrameOf DEF UploadFits, TakeRow
  <2>2. u.mno = up[r].mno /\ u.exact = up[r].exact /\ u.row = row /\ u.code = CodeOf(r, row)
        /\ u.carriers = row.carriers /\ u.file = up[r].file /\ u.names = up[r].names
        /\ u.rosterAt = up[r].rosterAt /\ u.at = up[r].at /\ u.roster = up[r].roster
    BY <1>1, RowTaken
  <2>3. QED BY <2>1, <2>2, CodeOfType, RowType DEF RowFits, UploadFits
<1>4. u \in UploadRecord /\ u.mno = Null
  <2>1. up[r].mno = Null
    BY FrameOf DEF UploadFits, TakeRow, CarrierPhase, RowPhase
  <2>2. QED BY <1>1, <2>1, RowTaken
<1>5. w \in UploadRecord /\ UploadFits(w)
  BY <1>3, <1>4, LocatedFits
<1>6. /\ UNCHANGED <<db, adm, edits, declared, taken, wiped, overtaken>>
      /\ uploads' \in Nat /\ lines' \in Nat /\ faults' \in Nat /\ alone' \in SUBSET Upload
  BY DEF TakeRow, observers, TypeInv, DbTypeOK
<1>7. QED BY <1>2, <1>5, <1>6, UploadOnly

LEMMA FindMnoTypes ==
    ASSUME TypeInv, NEW r \in Upload, FindMnoByName(r)
    PROVE  TypeInv'
<1>1. PICK u : u = up[r]
  OBVIOUS
<1>2. u \in UploadRecord /\ RowFits(u) /\ u.mno = Null
  BY <1>1, FrameOf, FitsInRow DEF FindMnoByName, UploadFits, RowPhase, CarrierPhase
<1>3. PICK m : m = IF u.rosterAt = epoch THEN ByName(u.roster, u.row.name) ELSE Null
  OBVIOUS
<1>4. m \in Code \cup {Null} /\ (m # Null => mnos[m] # Null) /\ epoch \in Nat
  <2>1. u.roster \in Roster /\ u.row.name \in Name
    BY <1>2, RowType DEF UploadRecord, RowFits
  <2>2. QED BY <1>2, <1>3, <2>1, ByNameType DEF RowFits, TypeInv, DbTypeOK
<1>5. PICK v : v = [u EXCEPT !.mno = m, !.at = epoch]
  OBVIOUS
<1>6. v \in UploadRecord
  BY <1>2, <1>4, <1>5 DEF UploadRecord
<1>7. /\ v.file = u.file /\ v.names = u.names /\ v.rosterAt = u.rosterAt /\ v.at = epoch
      /\ v.roster = u.roster /\ v.mno = m /\ v.row = u.row /\ v.code = u.code
      /\ v.carriers = u.carriers /\ v.exact = u.exact
  BY <1>2, <1>5 DEF UploadRecord
<1>8. RowFits(v)
  BY <1>2, <1>4, <1>7 DEF RowFits
<1>9. PICK w : w = AtCarrier(v)
  OBVIOUS
<1>10. w \in UploadRecord /\ UploadFits(w)
  BY <1>6, <1>8, <1>9, AtCarrierFits
<1>11. up' = [up EXCEPT ![r] = w] /\ UNCHANGED <<db, adm, bounds, observers>>
  BY <1>1, <1>3, <1>5, <1>9 DEF FindMnoByName
<1>12. QED BY <1>10, <1>11, UploadOnly DEF TypeInv, DbTypeOK, bounds, observers

LEMMA CreateProviderTypes ==
    ASSUME TypeInv, NEW r \in Upload, CreateProvider(r)
    PROVE  TypeInv'
<1>1. PICK u : u = up[r]
  OBVIOUS
<1>2. /\ u \in UploadRecord /\ UploadFits(u) /\ RowFits(u) /\ u.pc = "create"
      /\ Head(u.carriers) \in Provider
  BY <1>1, FrameOf, FitsInRow, EntryKeyType DEF CreateProvider, RowPhase
<1>3. PICK w : w = [u EXCEPT !.pc = "alias", !.names = u.names \cup {Head(u.carriers)}]
  OBVIOUS
<1>4. /\ w \in UploadRecord /\ w.pc = "alias" /\ w.names = u.names \cup {Head(u.carriers)}
      /\ w.file = u.file /\ w.rosterAt = u.rosterAt /\ w.at = u.at
      /\ w.roster = u.roster /\ w.mno = u.mno /\ w.row = u.row /\ w.code = u.code
      /\ w.carriers = u.carriers /\ w.exact = u.exact
  <2>1. u.names \cup {Head(u.carriers)} \in SUBSET Provider
    BY <1>2 DEF UploadRecord
  <2>2. QED BY <1>2, <1>3, <2>1 DEF UploadRecord, UploadPhase
<1>5. up' = [up EXCEPT ![r] = w]
  BY <1>1, <1>2, <1>3 DEF CreateProvider, Carrier, UploadRecord
<1>6. providers' = providers \cup {Head(u.carriers)}
      /\ UNCHANGED <<mnos, secondary, epoch, alias, reach, audit, erased, adm, bounds, observers>>
  BY <1>1 DEF CreateProvider, Carrier
<1>7. DbTypeOK' /\ RefsExist'
  BY <1>2, <1>6 DEF TypeInv, DbTypeOK, RefsExist, bounds, observers
<1>8. Onward
  BY <1>6 DEF Onward, TypeInv, DbTypeOK
<1>9. UploadFits(w)'
  BY <1>2, <1>4, <1>6 DEF RowFits, UploadFits, CarrierPhase, RowPhase
<1>10. QED BY <1>4, <1>5, <1>6, <1>7, <1>8, <1>9, UploadMoves

LEMMA RegisterAliasTypes ==
    ASSUME TypeInv, NEW r \in Upload, RegisterAlias(r)
    PROVE  TypeInv'
<1>1. PICK u : u = up[r]
  OBVIOUS
<1>2. /\ u \in UploadRecord /\ RowFits(u) /\ Head(u.carriers) \in providers
  BY <1>1, FrameOf, FitsInRow DEF RegisterAlias, UploadFits, RowPhase
<1>3. PICK w : w = AtCarrier(u)
  OBVIOUS
<1>4. w \in UploadRecord /\ UploadFits(w)
  BY <1>2, <1>3, AtCarrierFits
<1>5. /\ up' = [up EXCEPT ![r] = w] /\ alias' = alias \cup {Head(u.carriers)}
      /\ UNCHANGED <<mnos, secondary, epoch, providers, reach, audit, erased, adm, bounds,
                     observers>>
  BY <1>1, <1>3 DEF RegisterAlias, Carrier
<1>6. DbTypeOK' /\ RefsExist'
  BY <1>2, <1>5 DEF TypeInv, DbTypeOK, RefsExist, bounds, observers
<1>7. Onward
  BY <1>5 DEF Onward, TypeInv, DbTypeOK
<1>8. UploadFits(w)'
  BY <1>4, <1>6, <1>7, UploadFitsOnward DEF DbTypeOK
<1>9. QED BY <1>4, <1>5, <1>6, <1>7, <1>8, UploadMoves

LEMMA FindAuditTypes ==
    ASSUME TypeInv, NEW r \in Upload, FindAudit(r)
    PROVE  TypeInv'
<1>1. PICK u : u = up[r]
  OBVIOUS
<1>2. /\ u \in UploadRecord /\ UploadFits(u) /\ RowFits(u) /\ Head(u.carriers) \in providers
      /\ u.pc = "find"
  BY <1>1, FrameOf, FitsInRow DEF FindAudit, UploadFits, RowPhase
<1>3. AuditOf(r) = EntryKey(u) /\ AuditOf(r) \in AuditKey
  BY <1>1, <1>2, EntryKeyType DEF AuditOf, EntryKey, Carrier, RowPhase
<1>4. PICK e : e = audit[AuditOf(r)]
  OBVIOUS
<1>5. CASE AfterFind(e) = "skip"
  <2>1. PICK w : w = AfterAudit(u)
    OBVIOUS
  <2>2. w \in UploadRecord /\ UploadFits(w)
    BY <1>2, <2>1, AfterAuditFits
  <2>3. up' = [up EXCEPT ![r] = w] /\ UNCHANGED <<db, adm, bounds, observers>>
    BY <1>1, <1>4, <1>5, <2>1 DEF FindAudit
  <2>4. QED BY <2>2, <2>3, UploadOnly DEF TypeInv, DbTypeOK, bounds, observers
<1>6. CASE AfterFind(e) # "skip"
  <2>1. PICK w : w = [u EXCEPT !.pc = "audit", !.found = e]
    OBVIOUS
  <2>2. /\ e \in AuditRow \cup {Null}
        /\ e # Null => /\ e.files # <<>> /\ e.id <= erased
                       /\ e.mno # Null => mnos[e.mno] # Null
    BY <1>3, <1>4 DEF TypeInv, DbTypeOK, RefsExist
  <2>3. /\ w \in UploadRecord /\ w.pc = "audit" /\ w.found = e
        /\ w.file = u.file /\ w.names = u.names /\ w.rosterAt = u.rosterAt /\ w.at = u.at
        /\ w.roster = u.roster /\ w.mno = u.mno /\ w.row = u.row /\ w.code = u.code
        /\ w.carriers = u.carriers /\ w.exact = u.exact
    BY <1>2, <2>1, <2>2 DEF UploadRecord, UploadPhase
  <2>4. UploadFits(w)
    BY <1>2, <2>2, <2>3 DEF UploadFits, RowFits, RowPhase, CarrierPhase
  <2>5. up' = [up EXCEPT ![r] = w] /\ UNCHANGED <<db, adm, bounds, observers>>
    BY <1>1, <1>4, <1>6, <2>1 DEF FindAudit
  <2>6. QED BY <2>3, <2>4, <2>5, UploadOnly DEF TypeInv, DbTypeOK, bounds, observers
<1>7. QED BY <1>5, <1>6

LEMMA RecordedType ==
    ASSUME TypeInv, NEW r \in Upload, WriteAudit(r)
    PROVE  /\ Recorded(r) \in AuditRow /\ Recorded(r).files # <<>> /\ Recorded(r).id <= erased
           /\ Recorded(r).mno # Null => mnos[Recorded(r).mno] # Null
           /\ Recorded(r).status \in {"PENDING_REVIEW", "ALIAS_MATCHED"}
           /\ \/ Recorded(r).id = erased
              \/ audit[AuditOf(r)] # Null /\ Recorded(r).id = audit[AuditOf(r)].id
<1>1. PICK u : u = up[r]
  OBVIOUS
<1>2. /\ u \in UploadRecord /\ UploadFits(u) /\ RowFits(u) /\ u.pc = "audit"
      /\ u.row.services \subseteq Service /\ erased \in Nat /\ u.file \in File
      /\ u.mno \in Code \cup {Null} /\ u.found \in AuditRow \cup {Null}
  BY <1>1, FrameOf, FitsInRow, RowType DEF WriteAudit, UploadFits, RowFits, RowPhase,
     UploadRecord, TypeInv, DbTypeOK
<1>3. u.mno # Null => mnos[u.mno] # Null
  BY <1>1, <1>2 DEF WriteAudit, HasOperator, RowFits
<1>4. PICK status : status = IF u.mno = Null THEN "PENDING_REVIEW" ELSE "ALIAS_MATCHED"
  OBVIOUS
<1>5. status \in {"PENDING_REVIEW", "ALIAS_MATCHED"}
  BY <1>4
<1>6. CASE u.found = Null
  <2>1. Recorded(r) = [id |-> erased, status |-> status, services |-> u.row.services,
                       files |-> <<u.file>>, mno |-> u.mno]
    BY <1>1, <1>4, <1>6 DEF Recorded
  <2>2. <<u.file>> \in Seq(File) /\ <<u.file>> # <<>>
    BY <1>2
  <2>3. PICK e : e = Recorded(r)
    OBVIOUS
  <2>4. e \in AuditRow
    BY <1>2, <1>5, <2>1, <2>2, <2>3 DEF AuditRow, Status
  <2>5. e.files # <<>> /\ e.id = erased /\ e.mno = u.mno /\ e.status = status
    BY <2>1, <2>2, <2>3
  <2>6. QED BY <1>2, <1>3, <1>5, <2>3, <2>4, <2>5
<1>7. CASE u.found # Null
  <2>1. PICK was : was = u.found
    OBVIOUS
  <2>2. was \in AuditRow /\ was.files \in Seq(File) /\ was.files # <<>> /\ was.id <= erased
    BY <1>2, <1>7, <2>1 DEF UploadFits, AuditRow
  <2>3. PICK m : m = IF u.mno = Null THEN was.mno ELSE u.mno
    OBVIOUS
  <2>4. PICK files : files = Extend(was.files, u.file)
    OBVIOUS
  <2>5. files \in Seq(File) /\ files # <<>>
    BY <1>2, <2>2, <2>4, ExtendType
  <2>6. PICK services : services = was.services \cup u.row.services
    OBVIOUS
  <2>7. services \in SUBSET Service /\ m \in Code \cup {Null}
    BY <1>2, <2>2, <2>3, <2>6 DEF AuditRow
  <2>8. PICK e : e = Recorded(r)
    OBVIOUS
  <2>9. e = [was EXCEPT !.status = status, !.services = services, !.files = files, !.mno = m]
    BY <1>1, <1>4, <1>7, <2>1, <2>2, <2>3, <2>4, <2>6, <2>8 DEF Recorded, AuditRow
  <2>10. /\ e \in AuditRow /\ e.files = files /\ e.id = was.id /\ e.mno = m /\ e.status = status
    BY <1>5, <2>2, <2>5, <2>7, <2>9 DEF AuditRow, Status
  <2>11. Alive(AuditOf(r), was)
    BY <1>1, <1>7, <2>1 DEF WriteAudit, MayRecord
  <2>12. AuditOf(r) = EntryKey(u)
    BY <1>1 DEF AuditOf, EntryKey, Carrier
  <2>13. m # Null => mnos[m] # Null
    BY <1>2, <1>3, <1>7, <2>1, <2>3, <2>11, <2>12 DEF UploadFits
  <2>14. QED BY <1>5, <2>2, <2>5, <2>8, <2>10, <2>11, <2>13 DEF Alive
<1>8. QED BY <1>6, <1>7

LEMMA WriteAuditTypes ==
    ASSUME TypeInv, NEW r \in Upload, WriteAudit(r)
    PROVE  TypeInv'
<1>1. PICK u : u = up[r]
  OBVIOUS
<1>2. /\ u \in UploadRecord /\ UploadFits(u) /\ RowFits(u) /\ Head(u.carriers) \in providers
      /\ u.pc = "audit"
  BY <1>1, FrameOf, FitsInRow DEF WriteAudit, UploadFits, RowPhase
<1>3. AuditOf(r) = EntryKey(u) /\ AuditOf(r) \in AuditKey /\ AuditOf(r)[1] = Head(u.carriers)
  BY <1>1, <1>2, EntryKeyType DEF AuditOf, EntryKey, Carrier, RowPhase
<1>4. PICK w : w = AfterAudit(u)
  OBVIOUS
<1>5. w \in UploadRecord /\ UploadFits(w)
  BY <1>2, <1>4, AfterAuditFits
<1>6. PICK e : e = Recorded(r)
  OBVIOUS
<1>7. PICK k : k = AuditOf(r)
  OBVIOUS
<1>8. /\ up' = [up EXCEPT ![r] = w] /\ audit' = [audit EXCEPT ![k] = e]
      /\ overtaken' \subseteq overtaken \cup {k}
      /\ UNCHANGED <<mnos, secondary, epoch, providers, alias, reach, erased, adm,
                     bounds, alone, declared, taken, wiped>>
  BY <1>1, <1>4, <1>6, <1>7 DEF WriteAudit
<1>9. /\ e \in AuditRow /\ e.files # <<>> /\ e.id <= erased
      /\ e.mno # Null => mnos[e.mno] # Null
      /\ e.id = erased \/ (audit[k] # Null /\ e.id = audit[k].id)
  BY <1>6, <1>7, RecordedType
<1>10. k \in AuditKey /\ k[1] \in providers
  BY <1>2, <1>3, <1>7
<1>11. DbTypeOK' /\ RefsExist'
  <2>1. audit' \in [AuditKey -> AuditRow \cup {Null}] /\ overtaken' \subseteq AuditKey
    BY <1>8, <1>9, <1>10 DEF TypeInv, DbTypeOK
  <2>2. ASSUME NEW j \in AuditKey, audit'[j] # Null
        PROVE  /\ j[1] \in providers' /\ audit'[j].files # <<>> /\ audit'[j].id <= erased'
               /\ audit'[j].mno # Null => mnos'[audit'[j].mno] # Null
    <3>1. CASE j = k
      BY <1>8, <1>9, <1>10, <3>1 DEF TypeInv, DbTypeOK
    <3>2. CASE j # k
      BY <1>8, <2>2, <3>2 DEF TypeInv, DbTypeOK, RefsExist
    <3>3. QED BY <3>1, <3>2
  <2>3. DbTypeOK'
    BY <1>8, <2>1 DEF TypeInv, DbTypeOK, bounds
  <2>4. QED BY <1>8, <2>2, <2>3 DEF TypeInv, RefsExist
<1>12. Onward
  BY <1>8, <1>9, <1>10 DEF Onward, TypeInv, DbTypeOK
<1>13. UploadFits(w)'
  BY <1>5, <1>11, <1>12, UploadFitsOnward DEF DbTypeOK
<1>14. QED BY <1>5, <1>8, <1>11, <1>12, <1>13, UploadMoves

LEMMA NextServiceFits ==
    ASSUME TypeInv, NEW u \in UploadRecord, UploadFits(u), u.pc = "upsert", NEW s
    PROVE  NextService(u, s) \in UploadRecord /\ UploadFits(NextService(u, s))
<1>1. RowFits(u)
  BY FitsInRow DEF RowPhase
<1>2. CASE u.services \ {s} = {}
  BY <1>1, <1>2, NextCarrierFits DEF NextService
<1>3. CASE u.services \ {s} # {}
  <2>1. PICK rest : rest = u.services \ {s}
    OBVIOUS
  <2>2. PICK w : w = [u EXCEPT !.services = rest]
    OBVIOUS
  <2>3. rest \in SUBSET Service
    BY <2>1 DEF UploadRecord
  <2>4. /\ w \in UploadRecord /\ w.pc = "upsert"
        /\ w.file = u.file /\ w.names = u.names /\ w.rosterAt = u.rosterAt /\ w.at = u.at
        /\ w.roster = u.roster /\ w.mno = u.mno /\ w.row = u.row /\ w.code = u.code
        /\ w.carriers = u.carriers /\ w.exact = u.exact
    BY <2>2, <2>3 DEF UploadRecord
  <2>5. UploadFits(w)
    BY <1>1, <2>4 DEF UploadFits, RowFits, CarrierPhase, RowPhase
  <2>6. QED BY <1>3, <2>1, <2>2, <2>4, <2>5 DEF NextService
<1>4. QED BY <1>2, <1>3

LEMMA UpsertTypes ==
    ASSUME TypeInv, NEW r \in Upload, NEW s \in Service, UpsertRow(r, s)
    PROVE  TypeInv'
<1>1. PICK u : u = up[r]
  OBVIOUS
<1>2. /\ u \in UploadRecord /\ UploadFits(u) /\ RowFits(u) /\ Head(u.carriers) \in providers
      /\ u.pc = "upsert" /\ u.mno \in Code
  <2>1. u \in UploadRecord /\ UploadFits(u) /\ u.pc = "upsert"
    BY <1>1, FrameOf DEF UpsertRow
  <2>2. QED BY <2>1, FitsInRow DEF UploadFits, RowPhase, UploadRecord
<1>3. PICK k : k = <<u.mno, Head(u.carriers), s>>
  OBVIOUS
<1>4. k \in ReachKey /\ k[1] = u.mno /\ k[2] = Head(u.carriers)
  BY <1>2, <1>3 DEF ReachKey, TypeInv, DbTypeOK
<1>5. k = DedupeKey(r, s)
  BY <1>1, <1>3 DEF DedupeKey, Carrier
<1>6. UNCHANGED <<mnos, secondary, epoch, providers, alias, audit, erased, adm,
                  bounds, alone, overtaken>>
  BY DEF UpsertRow
<1>7. Onward
  BY <1>6 DEF Onward, TypeInv, DbTypeOK
<1>8. CASE k \in u.seen /\ up' = [up EXCEPT ![r] = NextService(up[r], s)]
           /\ UNCHANGED <<reach, declared, taken, wiped>>
  <2>1. PICK w : w = NextService(u, s)
    OBVIOUS
  <2>2. w \in UploadRecord /\ UploadFits(w)
    BY <1>2, <2>1, NextServiceFits
  <2>3. up' = [up EXCEPT ![r] = w]
    BY <1>1, <1>8, <2>1
  <2>4. QED BY <1>6, <1>8, <2>2, <2>3, UploadOnly DEF TypeInv, DbTypeOK, bounds, db
<1>9. CASE /\ k \notin u.seen /\ HasOperator(u) /\ PutRow(k, u.file)
           /\ declared' = [declared EXCEPT ![u.file] = @ \cup {k}]
           /\ up' = [up EXCEPT ![r] = NextService(
                        [up[r] EXCEPT !.seen = @ \cup {k}, !.loaded = @ + 1], s)]
  <2>1. PICK v : v = [u EXCEPT !.seen = u.seen \cup {k}, !.loaded = u.loaded + 1]
    OBVIOUS
  <2>2. /\ v \in UploadRecord /\ v.pc = "upsert"
        /\ v.file = u.file /\ v.names = u.names /\ v.rosterAt = u.rosterAt /\ v.at = u.at
        /\ v.roster = u.roster /\ v.mno = u.mno /\ v.row = u.row /\ v.code = u.code
        /\ v.carriers = u.carriers /\ v.exact = u.exact
    <3>1. u.seen \cup {k} \in SUBSET ReachKey /\ u.loaded + 1 \in Nat
      BY <1>2, <1>4 DEF UploadRecord
    <3>2. QED BY <1>2, <2>1, <3>1 DEF UploadRecord
  <2>3. UploadFits(v)
    BY <1>2, <2>2 DEF UploadFits, RowFits, CarrierPhase, RowPhase
  <2>4. PICK w : w = NextService(v, s)
    OBVIOUS
  <2>5. w \in UploadRecord /\ UploadFits(w)
    BY <2>2, <2>3, <2>4, NextServiceFits
  <2>6. up' = [up EXCEPT ![r] = w]
    BY <1>1, <1>2, <1>9, <2>1, <2>4 DEF UploadRecord
  <2>7. /\ reach' = [reach EXCEPT ![k] = u.file] /\ wiped' = wiped \ {k}
        /\ taken' \subseteq taken \cup {k}
    BY <1>9 DEF PutRow
  <2>8. mnos[k[1]] # Null /\ k[2] \in providers
    BY <1>2, <1>4, <1>9, Constants DEF HasOperator, RowFits
  <2>9. DbTypeOK'
    <3>1. u.file \in File
      BY <1>2 DEF RowFits
    <3>2. reach' \in [ReachKey -> File \cup {Null}] /\ declared' \in [File -> SUBSET ReachKey]
      BY <1>4, <1>9, <2>7, <3>1 DEF TypeInv, DbTypeOK
    <3>3. taken' \subseteq ReachKey /\ wiped' \subseteq ReachKey
      BY <1>4, <2>7 DEF TypeInv, DbTypeOK
    <3>4. QED BY <1>6, <3>2, <3>3 DEF TypeInv, DbTypeOK, bounds
  <2>10. RefsExist'
    <3>1. \A j \in ReachKey : reach'[j] # Null => mnos[j[1]] # Null /\ j[2] \in providers
      BY <1>4, <2>7, <2>8 DEF TypeInv, DbTypeOK, RefsExist
    <3>2. QED BY <1>6, <3>1 DEF TypeInv, RefsExist
  <2>11. UploadFits(w)'
    BY <1>7, <2>5, <2>9, UploadFitsOnward DEF DbTypeOK
  <2>12. QED BY <1>6, <1>7, <2>5, <2>6, <2>9, <2>10, <2>11, UploadMoves
<1>10. QED BY <1>1, <1>3, <1>5, <1>8, <1>9 DEF UpsertRow, Carrier

LEMMA DeleteTypes ==
    ASSUME TypeInv, NEW r \in Upload, DeleteOldRows(r)
    PROVE  TypeInv'
<1>1. PICK u : u = up[r]
  OBVIOUS
<1>2. u \in UploadRecord /\ UploadFits(u) /\ u.pc = "delete" /\ u.file \in File
  BY <1>1, FrameOf DEF DeleteOldRows, UploadFits
<1>3. PICK w : w = [u EXCEPT !.pc = "roster"]
  OBVIOUS
<1>4. /\ w \in UploadRecord /\ w.pc = "roster" /\ w.file = u.file /\ w.names = u.names
      /\ w.rosterAt = u.rosterAt /\ w.at = u.at /\ w.roster = u.roster /\ w.mno = u.mno
      /\ w.exact = u.exact
  BY <1>2, <1>3 DEF UploadRecord, UploadPhase
<1>5. UploadFits(w)
  BY <1>2, <1>4 DEF UploadFits, RowPhase, CarrierPhase
<1>6. /\ up' = [up EXCEPT ![r] = w] /\ declared' = [declared EXCEPT ![u.file] = {}]
      /\ reach' = [k \in ReachKey |-> IF k \in FileRows(u.file) THEN Null ELSE reach[k]]
      /\ wiped' = wiped \cup FileRows(u.file)
      /\ UNCHANGED <<mnos, secondary, epoch, providers, alias, audit, erased, adm,
                     bounds, alone, taken, overtaken>>
  BY <1>1, <1>3 DEF DeleteOldRows
<1>7. FileRows(u.file) \subseteq ReachKey
  BY DEF FileRows
<1>8. DbTypeOK'
  BY <1>2, <1>6, <1>7 DEF TypeInv, DbTypeOK, bounds
<1>9. RefsExist'
  BY <1>6 DEF TypeInv, RefsExist
<1>10. Onward
  BY <1>6 DEF Onward, TypeInv, DbTypeOK
<1>11. UploadFits(w)'
  BY <1>4, <1>5, <1>8, <1>10, UploadFitsOnward DEF DbTypeOK
<1>12. QED BY <1>4, <1>6, <1>8, <1>9, <1>10, <1>11, UploadMoves

LEMMA FinishTypes ==
    ASSUME TypeInv, NEW r \in Upload, FinishFile(r) \/ FinishArchive(r) \/ UploadFails(r)
    PROVE  TypeInv'
<1>1. PICK w : w = IF FinishFile(r) \/ UploadFails(r) THEN AfterFile(up[r]) ELSE IdleUpload
  OBVIOUS
<1>2. w \in UploadRecord /\ UploadFits(w)
  <2>1. up[r] \in UploadRecord
    BY FrameOf
  <2>2. AfterFile(up[r]) \in UploadRecord /\ UploadFits(AfterFile(up[r]))
    BY <2>1, AfterFileFits
  <2>3. IdleUpload \in UploadRecord /\ UploadFits(IdleUpload)
    BY IdleTypes, IdleFits DEF TypeInv
  <2>4. QED BY <1>1, <2>2, <2>3
<1>3. /\ up' = [up EXCEPT ![r] = w]
      /\ UNCHANGED <<db, adm, uploads, lines, edits, declared, taken, wiped, overtaken>>
      /\ alone' \in SUBSET Upload /\ faults' \in {faults, faults + 1}
  <2>1. CASE FinishFile(r)
    BY <1>1, <2>1 DEF FinishFile, bounds, TypeInv, DbTypeOK
  <2>2. CASE FinishArchive(r) /\ ~FinishFile(r) /\ ~UploadFails(r)
    BY <1>1, <2>2 DEF FinishArchive, bounds, TypeInv, DbTypeOK
  <2>3. CASE UploadFails(r)
    BY <1>1, <2>3 DEF UploadFails, TypeInv, DbTypeOK
  <2>4. QED BY <2>1, <2>2, <2>3
<1>4. uploads' \in Nat /\ lines' \in Nat /\ faults' \in Nat
  BY <1>3 DEF TypeInv, DbTypeOK
<1>5. QED BY <1>2, <1>3, <1>4, UploadOnly

LEMMA UploadTypes ==
    ASSUME TypeInv, NEW r \in Upload, UploadStep(r)
    PROVE  TypeInv'
BY OpeningTypes, ReadRosterTypes, TakeRowTypes, FindMnoTypes, CreateProviderTypes,
   RegisterAliasTypes, FindAuditTypes, WriteAuditTypes, UpsertTypes, FinishTypes,
   DeleteTypes DEF UploadStep

-----------------------------------------------------------------------------
(* An administrator's requests.                                                *)

LEMMA AdminOf ==
    ASSUME TypeInv, NEW a \in Admin
    PROVE  /\ adm[a] \in AdminRecord /\ AdminFits(adm[a])
           /\ DOMAIN adm[a].saw \subseteq AuditKey
           /\ \A k \in DOMAIN adm[a].saw : adm[a].saw[k] \in AuditRow
           /\ IdleAdmin \in AdminRecord /\ AdminFits(IdleAdmin)
<1>1. adm[a] \in AdminRecord /\ AdminFits(adm[a])
  BY DEF TypeInv, AdmTypeOK, AdmFrames
<1>2. adm[a].saw \in UNION {[K -> AuditRow] : K \in SUBSET AuditKey}
  BY <1>1 DEF AdminRecord
<1>3. QED BY <1>1, <1>2, IdleTypes, IdleFits DEF TypeInv

(* A step that only moves the request. *)
LEMMA AdminOnly ==
    ASSUME TypeInv, NEW a \in Admin, NEW f \in AdminRecord, AdminFits(f),
           adm' = [adm EXCEPT ![a] = f],
           UNCHANGED <<db, up, uploads, lines, declared, taken, wiped, overtaken>>,
           edits' \in Nat, faults' \in Nat, alone' \in SUBSET Upload
    PROVE  TypeInv'
<1>1. DbTypeOK' /\ RefsExist'
  BY DEF db, TypeInv, DbTypeOK, RefsExist
<1>2. Onward
  BY DEF Onward, db, TypeInv, DbTypeOK
<1>3. AdminFits(f)'
  BY <1>2, AdminFitsOnward
<1>4. QED BY <1>1, <1>2, <1>3, AdminMoves

LEMMA SeenType ==
    ASSUME TypeInv, NEW K \in SUBSET AuditKey, \A k \in K : audit[k] # Null
    PROVE  /\ Seen(K) \in UNION {[J -> AuditRow] : J \in SUBSET AuditKey}
           /\ DOMAIN Seen(K) = K /\ \A k \in K : Seen(K)[k] = audit[k]
           /\ \A k \in K : /\ k[1] \in providers /\ Seen(K)[k].files # <<>>
                           /\ Seen(K)[k].mno # Null => mnos[Seen(K)[k].mno] # Null
<1>1. Seen(K) \in [K -> AuditRow]
  BY DEF Seen, TypeInv, DbTypeOK
<1>2. QED BY <1>1 DEF Seen, TypeInv, RefsExist

LEMMA StartTypesOf ==
    ASSUME TypeInv, NEW a \in Admin, NEW f \in AdminRecord, AdminFits(f), StartEdit(a, f),
           UNCHANGED <<db, up, uploads, lines, faults, declared, taken, wiped, overtaken>>
    PROVE  TypeInv'
<1>1. edits' \in Nat /\ faults' \in Nat /\ alone' \in SUBSET Upload
  BY DEF StartEdit, TypeInv, DbTypeOK
<1>2. adm' = [adm EXCEPT ![a] = f]
  BY DEF StartEdit
<1>3. QED BY <1>1, <1>2, AdminOnly

LEMMA StartResolveTypes ==
    ASSUME TypeInv, NEW a \in Admin, NEW k \in AuditKey, NEW m \in Code, StartResolve(a, k, m)
    PROVE  TypeInv'
<1>1. PICK i : i = IdleAdmin
  OBVIOUS
<1>2. PICK saw : saw = Seen({k})
  OBVIOUS
<1>3. /\ saw \in UNION {[J -> AuditRow] : J \in SUBSET AuditKey} /\ DOMAIN saw = {k}
      /\ k[1] \in providers /\ saw[k].files # <<>>
      /\ saw[k].mno # Null => mnos[saw[k].mno] # Null
  BY <1>2, SeenType DEF StartResolve
<1>4. PICK todo : todo = audit[k].services
  OBVIOUS
<1>5. todo \in SUBSET Service /\ epoch \in Nat
  BY <1>4 DEF StartResolve, TypeInv, DbTypeOK, AuditRow
<1>6. PICK f : f = [i EXCEPT !.pc = "map", !.op = "resolve", !.saw = saw, !.to = m,
                             !.at = epoch, !.todo = todo]
  OBVIOUS
<1>7. f \in AdminRecord
  BY <1>1, <1>3, <1>5, <1>6, IdleTypes DEF AdminRecord
<1>8. f.pc = "map" /\ f.op = "resolve" /\ f.saw = saw /\ f.to = m /\ f.at = epoch
  BY <1>1, <1>6, IdleTypes DEF AdminRecord
<1>9. mnos[m] # Null
  BY DEF StartResolve, Registered
<1>10. AdminFits(f)
  BY <1>3, <1>5, <1>8, <1>9 DEF AdminFits
<1>11. StartEdit(a, f)
       /\ UNCHANGED <<db, up, uploads, lines, faults, declared, taken, wiped, overtaken>>
  BY <1>1, <1>2, <1>4, <1>6 DEF StartResolve
<1>12. QED BY <1>7, <1>10, <1>11, StartTypesOf

LEMMA StartBulkTypes ==
    ASSUME TypeInv, NEW a \in Admin,
           NEW op \in {"delete", "create", "group", "map", "accept", "ignore"},
           NEW K \in Selection, NEW m \in Code \cup {Null}, StartBulk(a, op, K, m)
    PROVE  TypeInv'
<1>1. PICK i : i = IdleAdmin
  OBVIOUS
<1>2. PICK saw : saw = Seen(K)
  OBVIOUS
<1>3. K \in SUBSET AuditKey /\ \A k \in K : audit[k] # Null
  BY ConstantsAssumption DEF StartBulk
<1>4. /\ saw \in UNION {[J -> AuditRow] : J \in SUBSET AuditKey} /\ DOMAIN saw = K
      /\ \A k \in K : /\ k[1] \in providers /\ saw[k].files # <<>>
                      /\ saw[k].mno # Null => mnos[saw[k].mno] # Null
  BY <1>2, <1>3, SeenType
<1>5. epoch \in Nat
  BY DEF TypeInv, DbTypeOK
<1>6. PICK f : f = [i EXCEPT !.pc = "commit", !.op = op, !.saw = saw, !.to = m, !.at = epoch]
  OBVIOUS
<1>7. f \in AdminRecord
  BY <1>1, <1>4, <1>5, <1>6, IdleTypes DEF AdminRecord
<1>8. f.pc = "commit" /\ f.op = op /\ f.saw = saw /\ f.to = m /\ f.at = epoch
  BY <1>1, <1>6, IdleTypes DEF AdminRecord
<1>9. op = "map" <=> m # Null
  BY DEF StartBulk
<1>10. m # Null => mnos[m] # Null
  BY DEF StartBulk, Registered
<1>11. AdminFits(f)
  BY <1>4, <1>5, <1>8, <1>9, <1>10 DEF AdminFits
<1>12. StartEdit(a, f)
       /\ UNCHANGED <<db, up, uploads, lines, faults, declared, taken, wiped, overtaken>>
  BY <1>1, <1>2, <1>6 DEF StartBulk
<1>13. QED BY <1>7, <1>11, <1>12, StartTypesOf

LEMMA StartSecondaryTypes ==
    ASSUME TypeInv, NEW a \in Admin, NEW m \in Code, NEW C \in SUBSET (Code \ Pool),
           StartSecondary(a, m, C)
    PROVE  TypeInv'
<1>1. PICK i : i = IdleAdmin
  OBVIOUS
<1>2. epoch \in Nat
  BY DEF TypeInv, DbTypeOK
<1>3. PICK f : f = [i EXCEPT !.pc = "secondary", !.op = "secondary", !.to = m, !.at = epoch,
                             !.codes = C]
  OBVIOUS
<1>4. f \in AdminRecord
  BY <1>1, <1>2, <1>3, IdleTypes DEF AdminRecord
<1>5. f.pc = "secondary" /\ f.op = "secondary" /\ f.saw = i.saw /\ f.to = m /\ f.at = epoch
  BY <1>1, <1>3, IdleTypes DEF AdminRecord
<1>6. i.saw = NothingSeen /\ DOMAIN i.saw = {}
  BY <1>1 DEF IdleAdmin, NothingSeen
<1>7. mnos[m] # Null
  BY DEF StartSecondary, Registered
<1>8. AdminFits(f)
  BY <1>2, <1>5, <1>6, <1>7 DEF AdminFits
<1>9. StartEdit(a, f)
      /\ UNCHANGED <<db, up, uploads, lines, faults, declared, taken, wiped, overtaken>>
  BY <1>1, <1>3 DEF StartSecondary
<1>10. QED BY <1>4, <1>8, <1>9, StartTypesOf

LEMMA TheKeyType ==
    ASSUME TypeInv, NEW a \in Admin, adm[a].pc = "map"
    PROVE  TheKey(a) \in DOMAIN adm[a].saw /\ TheKey(a) \in AuditKey
<1>1. DOMAIN adm[a].saw # {} /\ DOMAIN adm[a].saw \subseteq AuditKey
  BY AdminOf DEF AdminFits
<1>2. QED BY <1>1 DEF TheKey

LEMMA MapServiceTypes ==
    ASSUME TypeInv, NEW a \in Admin, NEW s \in Service, MapService(a, s)
    PROVE  TypeInv'
<1>1. PICK f : f = adm[a]
  OBVIOUS
<1>2. PICK k : k = TheKey(a)
  OBVIOUS
<1>3. /\ f \in AdminRecord /\ AdminFits(f) /\ f.pc = "map" /\ s \in f.todo /\ f.at = epoch
      /\ k \in DOMAIN f.saw /\ k \in AuditKey /\ f.saw[k] \in AuditRow
  BY <1>1, <1>2, AdminOf, TheKeyType DEF MapService
<1>4. PICK source : source = SourceOf(f.saw[k])
  OBVIOUS
<1>5. PICK x : x = <<f.to, k[1], s>>
  OBVIOUS
<1>6. /\ x \in ReachKey /\ source \in File /\ mnos[x[1]] # Null /\ x[2] \in providers
  <2>1. f.to \in Code /\ f.to # Null /\ k[1] \in providers /\ f.saw[k].files # <<>>
    BY <1>3, Constants DEF AdminFits
  <2>2. k[1] \in Provider
    BY <2>1 DEF TypeInv, DbTypeOK
  <2>3. QED BY <1>3, <1>4, <1>5, <2>1, <2>2, SourceType DEF AdminFits, ReachKey
<1>7. PICK g : g = [f EXCEPT !.todo = f.todo \ {s}]
  OBVIOUS
<1>8. /\ adm' = [adm EXCEPT ![a] = g]
      /\ reach' = [reach EXCEPT ![x] = source] /\ wiped' = wiped \ {x}
      /\ taken' \subseteq taken \cup {x}
      /\ UNCHANGED <<mnos, secondary, epoch, providers, alias, audit, erased, up,
                     bounds, alone, declared, overtaken>>
  BY <1>1, <1>2, <1>3, <1>4, <1>5, <1>7 DEF MapService, PutRow, AdminRecord
<1>9. /\ g \in AdminRecord /\ g.pc = "map" /\ g.op = f.op /\ g.saw = f.saw /\ g.to = f.to
      /\ g.at = f.at
  BY <1>3, <1>7 DEF AdminRecord
<1>10. AdminFits(g)
  BY <1>3, <1>9 DEF AdminFits
<1>11. Onward
  BY <1>8 DEF Onward, TypeInv, DbTypeOK
<1>12. AdminFits(g)'
  BY <1>9, <1>10, <1>11, AdminFitsOnward
<1>13. DbTypeOK'
  <2>1. reach' \in [ReachKey -> File \cup {Null}] /\ taken' \subseteq ReachKey /\ wiped' \subseteq ReachKey
    BY <1>6, <1>8 DEF TypeInv, DbTypeOK
  <2>2. QED BY <1>8, <2>1 DEF TypeInv, DbTypeOK, bounds
<1>14. RefsExist'
  BY <1>6, <1>8 DEF TypeInv, DbTypeOK, RefsExist
<1>15. QED BY <1>8, <1>9, <1>11, <1>12, <1>13, <1>14, AdminMoves

(* What changes what entries say, and leaves their ids and their files.         *)
EntriesChange(a) ==
    /\ adm' = [adm EXCEPT ![a] = IdleAdmin] /\ up' = up
    /\ audit' \in [AuditKey -> AuditRow \cup {Null}]
    /\ \A k \in AuditKey : audit'[k] # Null =>
            /\ audit[k] # Null /\ audit'[k].id = audit[k].id
            /\ audit'[k].files = audit[k].files
            /\ audit'[k].mno # Null => mnos'[audit'[k].mno] # Null
    /\ mnos' \in Roster /\ \A c \in Code : mnos[c] # Null => mnos'[c] # Null
    /\ secondary' \in [Code -> SUBSET Code]
    /\ reach' \in [ReachKey -> File \cup {Null}]
    /\ \A x \in ReachKey : reach'[x] # Null => mnos'[x[1]] # Null /\ x[2] \in providers
    /\ erased' \in Nat /\ erased <= erased'
    /\ taken' \subseteq ReachKey /\ wiped' \subseteq ReachKey
    /\ UNCHANGED <<epoch, providers, alias, bounds, alone, declared, overtaken>>

LEMMA EntryTypes ==
    ASSUME TypeInv, NEW a \in Admin, EntriesChange(a)
    PROVE  TypeInv'
<1> USE DEF EntriesChange
<1>1. DbTypeOK'
  BY DEF TypeInv, DbTypeOK, bounds
<1>2. ASSUME NEW k \in AuditKey, audit'[k] # Null
      PROVE  /\ k[1] \in providers' /\ audit'[k].files # <<>> /\ audit'[k].id <= erased'
             /\ audit'[k].mno # Null => mnos'[audit'[k].mno] # Null
  <2>1. audit[k].id \in Nat /\ erased \in Nat /\ audit[k].id <= erased
    BY <1>2 DEF TypeInv, DbTypeOK, AuditRow, RefsExist
  <2>2. QED BY <1>2, <2>1 DEF TypeInv, RefsExist
<1>3. RefsExist'
  BY <1>2 DEF RefsExist
<1>4. Onward
  BY DEF Onward
<1>5. AdminFits(IdleAdmin)'
  BY <1>1 DEF AdminFits, IdleAdmin, NothingSeen, DbTypeOK
<1>6. QED BY <1>1, <1>3, <1>4, <1>5, IdleTypes, AdminMoves

LEMMA OverriddenType ==
    ASSUME NEW row \in AuditRow, NEW m \in Code
    PROVE  /\ Overridden(row, m) \in AuditRow /\ Overridden(row, m).id = row.id
           /\ Overridden(row, m).files = row.files /\ Overridden(row, m).mno = m
           /\ Overridden(row, m).services = row.services
           /\ Overridden(row, m).status = "MANUALLY_OVERRIDDEN"
BY DEF Overridden, AuditRow, Status

LEMMA MarkTypes ==
    ASSUME TypeInv, NEW a \in Admin, MarkOverridden(a)
    PROVE  TypeInv'
<1>1. PICK k : k = TheKey(a)
  OBVIOUS
<1>2. k \in AuditKey /\ audit[k] \in AuditRow /\ audit[k] # Null
  BY <1>1, TheKeyType DEF MarkOverridden, Alive, TypeInv, DbTypeOK
<1>3. PICK m : m = adm[a].to
  OBVIOUS
<1>4. m \in Code /\ mnos[m] # Null
  BY <1>3, AdminOf, Constants DEF MarkOverridden, AdminFits
<1>5. PICK e : e = Overridden(audit[k], m)
  OBVIOUS
<1>6. /\ audit' = [audit EXCEPT ![k] = e] /\ adm' = [adm EXCEPT ![a] = IdleAdmin]
      /\ UNCHANGED <<mnos, secondary, epoch, providers, alias, reach, erased, up,
                     bounds, observers>>
  BY <1>1, <1>2, <1>3, <1>5 DEF MarkOverridden, TypeInv, DbTypeOK
<1>7. e \in AuditRow /\ e.id = audit[k].id /\ e.files = audit[k].files /\ e.mno = m
  BY <1>2, <1>4, <1>5, OverriddenType
<1>8. audit' \in [AuditKey -> AuditRow \cup {Null}]
  BY <1>2, <1>6, <1>7 DEF TypeInv, DbTypeOK
<1>9. ASSUME NEW j \in AuditKey
      PROVE  audit'[j] # Null =>
               /\ audit[j] # Null /\ audit'[j].id = audit[j].id
               /\ audit'[j].files = audit[j].files
               /\ audit'[j].mno # Null => mnos'[audit'[j].mno] # Null
  BY <1>2, <1>4, <1>6, <1>7 DEF TypeInv, DbTypeOK, RefsExist
<1>10. /\ mnos' \in Roster /\ \A c \in Code : mnos[c] # Null => mnos'[c] # Null
       /\ secondary' \in [Code -> SUBSET Code]
       /\ reach' \in [ReachKey -> File \cup {Null}]
       /\ \A x \in ReachKey : reach'[x] # Null => mnos'[x[1]] # Null /\ x[2] \in providers
       /\ erased' \in Nat /\ erased <= erased'
       /\ taken' \subseteq ReachKey /\ wiped' \subseteq ReachKey
       /\ UNCHANGED <<epoch, providers, alias, bounds, alone, declared, overtaken>>
       /\ up' = up
  BY <1>6 DEF TypeInv, DbTypeOK, RefsExist, observers
<1>11. adm' = [adm EXCEPT ![a] = IdleAdmin]
  BY <1>6
<1>12. EntriesChange(a)
  BY <1>8, <1>9, <1>10, <1>11 DEF EntriesChange
<1>13. QED BY <1>12, EntryTypes

LEMMA IgnoreTypes ==
    ASSUME TypeInv, NEW a \in Admin, CommitIgnore(a)
    PROVE  TypeInv'
<1>1. /\ adm' = [adm EXCEPT ![a] = IdleAdmin]
      /\ UNCHANGED <<mnos, secondary, epoch, providers, alias, reach, erased, up,
                     bounds, observers>>
      /\ \A k \in Open(a) : audit[k] # Null
      /\ audit' = [k \in AuditKey |->
            IF k \in Open(a) THEN [audit[k] EXCEPT !.status = "IGNORED"] ELSE audit[k]]
  BY DEF CommitIgnore, Alive
<1>2. ASSUME NEW row \in AuditRow
      PROVE  LET e == [row EXCEPT !.status = "IGNORED"]
             IN e \in AuditRow /\ e.id = row.id /\ e.files = row.files /\ e.mno = row.mno
  BY DEF AuditRow, Status
<1>3. \A k \in Open(a) \cap AuditKey : audit[k] \in AuditRow
  BY <1>1 DEF TypeInv, DbTypeOK
<1>4. audit' \in [AuditKey -> AuditRow \cup {Null}]
  BY <1>1, <1>2, <1>3 DEF TypeInv, DbTypeOK
<1>5. ASSUME NEW j \in AuditKey, audit'[j] # Null
      PROVE  /\ audit[j] # Null /\ audit'[j].id = audit[j].id
             /\ audit'[j].files = audit[j].files
             /\ audit'[j].mno # Null => mnos'[audit'[j].mno] # Null
  BY <1>1, <1>2, <1>3, <1>5 DEF TypeInv, RefsExist
<1>6. /\ mnos' \in Roster /\ \A c \in Code : mnos[c] # Null => mnos'[c] # Null
      /\ secondary' \in [Code -> SUBSET Code]
      /\ reach' \in [ReachKey -> File \cup {Null}]
      /\ \A x \in ReachKey : reach'[x] # Null => mnos'[x[1]] # Null /\ x[2] \in providers
      /\ erased' \in Nat /\ erased <= erased'
      /\ taken' \subseteq ReachKey /\ wiped' \subseteq ReachKey
      /\ UNCHANGED <<epoch, providers, alias, bounds, alone, declared, overtaken>>
      /\ up' = up
  BY <1>1 DEF TypeInv, DbTypeOK, RefsExist, observers
<1>7. EntriesChange(a)
  BY <1>1, <1>4, <1>5, <1>6 DEF EntriesChange
<1>8. QED BY <1>7, EntryTypes

LEMMA DeleteEntryTypes ==
    ASSUME TypeInv, NEW a \in Admin, CommitDelete(a)
    PROVE  TypeInv'
<1>1. /\ adm' = [adm EXCEPT ![a] = IdleAdmin] /\ erased' = erased + 1
      /\ UNCHANGED <<mnos, secondary, epoch, providers, alias, reach, up, bounds, observers>>
      /\ audit' = [k \in AuditKey |->
            IF k \in DOMAIN adm[a].saw /\ Alive(k, adm[a].saw[k]) THEN Null ELSE audit[k]]
  BY DEF CommitDelete
<1>2. audit' \in [AuditKey -> AuditRow \cup {Null}]
  BY <1>1 DEF TypeInv, DbTypeOK
<1>3. ASSUME NEW j \in AuditKey, audit'[j] # Null
      PROVE  /\ audit[j] # Null /\ audit'[j].id = audit[j].id
             /\ audit'[j].files = audit[j].files
             /\ audit'[j].mno # Null => mnos'[audit'[j].mno] # Null
  BY <1>1, <1>3 DEF TypeInv, RefsExist
<1>4. erased' \in Nat /\ erased <= erased'
  BY <1>1 DEF TypeInv, DbTypeOK
<1>5. EntriesChange(a)
  BY <1>1, <1>2, <1>3, <1>4 DEF EntriesChange, TypeInv, DbTypeOK, RefsExist, observers
<1>6. QED BY <1>5, EntryTypes

LEMMA SecondaryTypes ==
    ASSUME TypeInv, NEW a \in Admin, WriteSecondary(a)
    PROVE  TypeInv'
<1>1. /\ adm' = [adm EXCEPT ![a] = IdleAdmin]
      /\ secondary' = [secondary EXCEPT ![adm[a].to] = adm[a].codes]
      /\ UNCHANGED <<mnos, epoch, providers, alias, reach, audit, erased, up, bounds, observers>>
  BY DEF WriteSecondary
<1>2. adm[a].codes \in SUBSET Code
  BY AdminOf DEF AdminRecord
<1>3. secondary' \in [Code -> SUBSET Code]
  BY <1>1, <1>2 DEF TypeInv, DbTypeOK
<1>4. /\ mnos' \in Roster /\ \A c \in Code : mnos[c] # Null => mnos'[c] # Null
      /\ secondary' \in [Code -> SUBSET Code]
      /\ reach' \in [ReachKey -> File \cup {Null}]
      /\ \A x \in ReachKey : reach'[x] # Null => mnos'[x[1]] # Null /\ x[2] \in providers
      /\ erased' \in Nat /\ erased <= erased'
      /\ taken' \subseteq ReachKey /\ wiped' \subseteq ReachKey
      /\ UNCHANGED <<epoch, providers, alias, bounds, alone, declared, overtaken>>
      /\ up' = up
  BY <1>1, <1>3 DEF TypeInv, DbTypeOK, RefsExist, observers
<1>5. audit' \in [AuditKey -> AuditRow \cup {Null}]
      /\ \A k \in AuditKey : audit'[k] # Null =>
               /\ audit[k] # Null /\ audit'[k].id = audit[k].id
               /\ audit'[k].files = audit[k].files
               /\ audit'[k].mno # Null => mnos'[audit'[k].mno] # Null
  BY <1>1 DEF TypeInv, DbTypeOK, RefsExist
<1>6. EntriesChange(a)
  BY <1>1, <1>4, <1>5 DEF EntriesChange
<1>7. QED BY <1>6, EntryTypes

LEMMA EditFailsTypes ==
    ASSUME TypeInv, NEW a \in Admin, EditFails(a)
    PROVE  TypeInv'
<1>1. /\ adm' = [adm EXCEPT ![a] = IdleAdmin] /\ faults' \in {faults, faults + 1}
      /\ UNCHANGED <<db, up, uploads, lines, edits, observers>>
  BY DEF EditFails
<1>2. edits' \in Nat /\ faults' \in Nat /\ alone' \in SUBSET Upload
  BY <1>1 DEF TypeInv, DbTypeOK, observers
<1>3. QED BY <1>1, <1>2, AdminOf, AdminOnly DEF observers

(* What a committed mapping writes, of whatever it maps.                       *)
RowsOf(a, to, k) == {to[k]} \X {k[1]} \X adm[a].saw[k].services

LEMMA RowsOfType ==
    ASSUME TypeInv, NEW a \in Admin, NEW to, NEW k \in DOMAIN adm[a].saw, to[k] \in Code,
           NEW x \in RowsOf(a, to, k)
    PROVE  /\ x \in ReachKey /\ x[1] = to[k] /\ x[2] = k[1] /\ x[2] \in providers
           /\ SourceOf(adm[a].saw[k]) \in File
<1>1. PICK row : row = adm[a].saw[k]
  OBVIOUS
<1>2. row \in AuditRow /\ row.services \subseteq Service /\ row.files # <<>> /\ k[1] \in providers
  BY <1>1, AdminOf DEF AuditRow, AdminFits
<1>3. PICK s \in row.services : x = <<to[k], k[1], s>>
  BY <1>1 DEF RowsOf
<1>4. k[1] \in Provider
  BY <1>2 DEF TypeInv, DbTypeOK
<1>5. QED BY <1>1, <1>2, <1>3, <1>4, SourceType DEF ReachKey

LEMMA WriteMappingsTypes ==
    ASSUME TypeInv, NEW a \in Admin, NEW to, DOMAIN to \subseteq DOMAIN adm[a].saw,
           \A k \in DOMAIN to : to[k] \in Code /\ mnos'[to[k]] # Null,
           mnos' \in Roster, \A c \in Code : mnos[c] # Null => mnos'[c] # Null,
           WriteMappings(a, to),
           UNCHANGED <<secondary, epoch, providers, alias, erased, up, bounds,
                       alone, declared, overtaken>>
    PROVE  TypeInv'
<1> DEFINE rows == UNION {RowsOf(a, to, k) : k \in DOMAIN to}
           sources(x) == {SourceOf(adm[a].saw[k]) : k \in {j \in DOMAIN to : x \in RowsOf(a, to, j)}}
<1>1. rows = UNION {RowsOf(a, to, k) : k \in DOMAIN to}
  OBVIOUS
<1>2. PICK source \in [rows -> File] :
         /\ \A x \in rows : source[x] \in sources(x)
         /\ reach' = [x \in ReachKey |-> IF x \in rows THEN source[x] ELSE reach[x]]
         /\ taken' = taken \cup {x \in rows : reach[x] \notin {Null, source[x]}}
  BY Zenon DEF WriteMappings, RowsOf
<1>3. /\ wiped' = wiped \ rows /\ adm' = [adm EXCEPT ![a] = IdleAdmin]
      /\ \A k \in DOMAIN to : audit[k] # Null
      /\ audit' = [k \in AuditKey |->
            IF k \in DOMAIN to THEN Overridden(audit[k], to[k]) ELSE audit[k]]
  BY <1>1 DEF WriteMappings, RowsOf, Alive
<1> HIDE DEF rows, sources
<1>4. ASSUME NEW x \in rows PROVE x \in ReachKey /\ mnos'[x[1]] # Null /\ x[2] \in providers
  <2>1. PICK k \in DOMAIN to : x \in RowsOf(a, to, k)
    BY <1>1
  <2>2. QED BY <2>1, RowsOfType
<1>5. /\ reach' \in [ReachKey -> File \cup {Null}]
      /\ taken' \subseteq ReachKey /\ wiped' \subseteq ReachKey
  BY <1>2, <1>3, <1>4 DEF TypeInv, DbTypeOK
<1>6. ASSUME NEW x \in ReachKey, reach'[x] # Null PROVE mnos'[x[1]] # Null /\ x[2] \in providers
  <2>1. CASE x \in rows
    BY <1>4, <2>1
  <2>2. CASE x \notin rows
    <3>1. reach[x] # Null /\ x[1] \in Code
      BY <1>2, <1>6, <2>2 DEF ReachKey
    <3>2. QED BY <3>1 DEF TypeInv, RefsExist
  <2>3. QED BY <2>1, <2>2
<1>7. ASSUME NEW k \in AuditKey
      PROVE  /\ audit'[k] \in AuditRow \cup {Null}
             /\ audit'[k] # Null => /\ audit[k] # Null /\ audit'[k].id = audit[k].id
                                    /\ audit'[k].files = audit[k].files
                                    /\ audit'[k].mno # Null => mnos'[audit'[k].mno] # Null
  <2>1. CASE k \in DOMAIN to
    <3>1. audit[k] \in AuditRow /\ to[k] \in Code /\ mnos'[to[k]] # Null
      BY <1>3, <2>1 DEF TypeInv, DbTypeOK
    <3>2. audit'[k] = Overridden(audit[k], to[k])
      BY <1>3, <2>1
    <3>3. QED BY <1>3, <2>1, <3>1, <3>2, OverriddenType
  <2>2. CASE k \notin DOMAIN to
    <3>1. audit'[k] = audit[k]
      BY <1>3, <2>2
    <3>2. audit[k] # Null => audit[k].mno \in Code \cup {Null}
      BY DEF TypeInv, DbTypeOK, AuditRow
    <3>3. QED BY <3>1, <3>2 DEF TypeInv, DbTypeOK, RefsExist
  <2>3. QED BY <2>1, <2>2
<1>8. audit' \in [AuditKey -> AuditRow \cup {Null}]
  BY <1>3, <1>7
<1>9. secondary' \in [Code -> SUBSET Code] /\ erased' \in Nat /\ erased <= erased'
  BY DEF TypeInv, DbTypeOK
<1>10. EntriesChange(a)
  BY <1>3, <1>5, <1>6, <1>7, <1>8, <1>9 DEF EntriesChange
<1>11. QED BY <1>10, EntryTypes

LEMMA MappedType ==
    ASSUME TypeInv, NEW a \in Admin, CommitMapping(a)
    PROVE  /\ DOMAIN Mapped(a) \subseteq Open(a) /\ Open(a) \subseteq DOMAIN adm[a].saw
           /\ \A k \in DOMAIN Mapped(a) : Mapped(a)[k] \in Code /\ mnos[Mapped(a)[k]] # Null
<1>1. Open(a) \subseteq DOMAIN adm[a].saw
  BY DEF Open
<1>2. adm[a].op \in {"map", "accept"} /\ adm[a].at = epoch
  BY DEF CommitMapping
<1>3. CASE adm[a].op = "map"
  <2>1. Mapped(a) = [k \in Open(a) |-> adm[a].to]
    BY <1>3 DEF Mapped
  <2>2. adm[a].to \in Code /\ mnos[adm[a].to] # Null
    BY <1>2, <1>3, AdminOf, Constants DEF AdminFits
  <2>3. QED BY <1>1, <2>1, <2>2
<1>4. CASE adm[a].op = "accept"
  <2>1. Mapped(a) = [k \in {j \in Open(a) : adm[a].saw[j].status = "ALIAS_MATCHED"
                                    /\ adm[a].saw[j].mno # Null} |-> adm[a].saw[k].mno]
    BY <1>4 DEF Mapped
  <2>2. \A k \in DOMAIN adm[a].saw : adm[a].saw[k].mno # Null =>
            adm[a].saw[k].mno \in Code /\ mnos[adm[a].saw[k].mno] # Null
    BY <1>2, AdminOf DEF AdminFits, AuditRow
  <2>3. QED BY <1>1, <2>1, <2>2
<1>5. QED BY <1>2, <1>3, <1>4

LEMMA CommitMappingTypes ==
    ASSUME TypeInv, NEW a \in Admin, CommitMapping(a)
    PROVE  TypeInv'
<1>1. PICK to : to = Mapped(a)
  OBVIOUS
<1>2. /\ WriteMappings(a, to)
      /\ UNCHANGED <<mnos, secondary, epoch, providers, alias, erased, up, bounds,
                     alone, declared, overtaken>>
  BY <1>1 DEF CommitMapping
<1>3. /\ DOMAIN to \subseteq DOMAIN adm[a].saw
      /\ \A k \in DOMAIN to : to[k] \in Code /\ mnos'[to[k]] # Null
  BY <1>1, <1>2, MappedType
<1>4. mnos' \in Roster /\ \A c \in Code : mnos[c] # Null => mnos'[c] # Null
  BY <1>2 DEF TypeInv, DbTypeOK
<1>5. QED BY <1>2, <1>3, <1>4, WriteMappingsTypes

LEMMA GroupsType ==
    ASSUME NEW a \in Admin
    PROVE  \A g \in GroupsOf(a) : g \subseteq DOMAIN adm[a].saw
<1>1. CASE adm[a].op = "group"
  BY <1>1 DEF GroupsOf
<1>2. CASE adm[a].op # "group"
  BY <1>2 DEF GroupsOf, Open
<1>3. QED BY <1>1, <1>2

LEMMA CommitNewMnosTypes ==
    ASSUME TypeInv, NEW a \in Admin, CommitNewMnos(a)
    PROVE  TypeInv'
<1> DEFINE group(n, c) == {g \in GroupsOf(a) : n[g].code = c}
           nameOf(n, c) == n[CHOOSE g \in group(n, c) : TRUE].of[3]
           codeOf(n, k) == n[CHOOSE g \in GroupsOf(a) : k \in g].code
<1>1. PICK new \in NewCodes(a) :
         /\ mnos' = [c \in Code |-> IF group(new, c) = {} THEN mnos[c] ELSE nameOf(new, c)]
         /\ WriteMappings(a, [k \in UNION GroupsOf(a) |-> codeOf(new, k)])
  BY DEF CommitNewMnos
<1>2. PICK to : to = [k \in UNION GroupsOf(a) |-> codeOf(new, k)]
  OBVIOUS
<1>3. new \in [GroupsOf(a) -> [code : Code, of : DOMAIN adm[a].saw]]
  BY DEF NewCodes
<1>4. ASSUME NEW g \in GroupsOf(a)
      PROVE  new[g].code \in Code /\ new[g].of[3] \in Name
  <2>1. new[g].code \in Code /\ new[g].of \in DOMAIN adm[a].saw
    BY <1>3
  <2>2. new[g].of \in AuditKey
    BY <2>1, AdminOf
  <2>3. QED BY <2>1, <2>2, AuditKeyType
<1>5. ASSUME NEW c \in Code, group(new, c) # {} PROVE nameOf(new, c) \in Name
  <2>1. (CHOOSE g \in group(new, c) : TRUE) \in GroupsOf(a)
    BY <1>5
  <2>2. QED BY <1>4, <2>1
<1>6. mnos' \in Roster /\ \A c \in Code : mnos[c] # Null => mnos'[c] # Null
  <2> HIDE DEF group, nameOf
  <2>1. QED BY <1>1, <1>5, Constants DEF TypeInv, DbTypeOK, Roster
<1>7. DOMAIN to = UNION GroupsOf(a) /\ DOMAIN to \subseteq DOMAIN adm[a].saw
  BY <1>2, GroupsType
<1>8. ASSUME NEW k \in DOMAIN to PROVE to[k] \in Code /\ mnos'[to[k]] # Null
  <2>1. PICK g : g = CHOOSE h \in GroupsOf(a) : k \in h
    OBVIOUS
  <2>2. g \in GroupsOf(a)
    BY <1>7, <1>8, <2>1
  <2>3. to[k] = new[g].code /\ to[k] \in Code
    BY <1>2, <1>4, <1>7, <1>8, <2>1, <2>2
  <2>4. g \in group(new, to[k])
    BY <2>2, <2>3
  <2>5. group(new, to[k]) # {}
    BY <2>4
  <2>6. mnos'[to[k]] = nameOf(new, to[k]) /\ nameOf(new, to[k]) \in Name
    <3> HIDE DEF group, nameOf
    <3>1. QED BY <1>1, <1>5, <2>3, <2>5
  <2>7. QED BY <2>3, <2>6, Constants
<1>9. WriteMappings(a, to)
      /\ UNCHANGED <<secondary, epoch, providers, alias, erased, up, bounds, alone,
                     declared, overtaken>>
  BY <1>1, <1>2 DEF CommitNewMnos
<1>10. QED BY <1>6, <1>7, <1>8, <1>9, WriteMappingsTypes

LEMMA AdminTypes ==
    ASSUME TypeInv, NEW a \in Admin, AdminStep(a)
    PROVE  TypeInv'
<1>1. ASSUME NEW s \in Service, MapService(a, s) PROVE TypeInv'
  BY <1>1, MapServiceTypes
<1>2. QED
  BY <1>1, StartResolveTypes, MarkTypes, StartBulkTypes, CommitMappingTypes,
     CommitNewMnosTypes, IgnoreTypes, DeleteEntryTypes, StartSecondaryTypes, SecondaryTypes,
     EditFailsTypes DEF AdminStep

-----------------------------------------------------------------------------
(* Everything else, and the first theorem.                                     *)

(* A step that moves nobody. *)
LEMMA FramesStay ==
    ASSUME TypeInv, Onward, up' = up, adm' = adm, DbTypeOK', RefsExist'
    PROVE  TypeInv'
<1>1. UpTypeOK' /\ AdmTypeOK'
  BY DEF TypeInv, UpTypeOK, AdmTypeOK
<1>2. ASSUME NEW o \in Upload PROVE UploadFits(up[o])'
  <2>1. PICK v : v = up[o]
    OBVIOUS
  <2>2. v \in UploadRecord /\ UploadFits(v)
    BY <2>1 DEF TypeInv, UpTypeOK, UpFrames
  <2>3. UploadFits(v)'
    BY <2>2, UploadFitsOnward DEF DbTypeOK
  <2>4. QED BY <2>1, <2>3 DEF UploadFits, EntryKey, Alive
<1>3. ASSUME NEW a \in Admin PROVE AdminFits(adm[a])'
  <2>1. PICK f : f = adm[a]
    OBVIOUS
  <2>2. f \in AdminRecord /\ AdminFits(f)
    BY <2>1 DEF TypeInv, AdmTypeOK, AdmFrames
  <2>3. AdminFits(f)'
    BY <2>2, AdminFitsOnward
  <2>4. QED BY <2>1, <2>3 DEF AdminFits
<1>4. QED BY <1>1, <1>2, <1>3 DEF TypeInv, UpFrames, AdmFrames

LEMMA LoadIr21Types ==
    ASSUME TypeInv, NEW x \in Ir21, LoadIr21(x[1], x[2])
    PROVE  TypeInv'
<1>1. x[1] \in Code /\ x[2] \in Name /\ x[2] # Null
  BY ConstantsAssumption
<1>2. /\ mnos' = [mnos EXCEPT ![x[1]] = x[2]] /\ edits' = edits + 1 /\ alone' = {}
      /\ UNCHANGED <<secondary, epoch, providers, alias, reach, audit, erased, up, adm,
                     uploads, lines, faults, declared, taken, wiped, overtaken>>
  BY DEF LoadIr21
<1>3. mnos' \in Roster /\ \A c \in Code : mnos[c] # Null => mnos'[c] # Null
  BY <1>1, <1>2 DEF TypeInv, DbTypeOK, Roster
<1>4. DbTypeOK'
  BY <1>2, <1>3 DEF TypeInv, DbTypeOK
<1>5. RefsExist'
  <2>1. \A k \in ReachKey : k[1] \in Code
    BY DEF ReachKey
  <2>2. \A k \in AuditKey : audit[k] # Null => audit[k].mno \in Code \cup {Null}
    BY DEF TypeInv, DbTypeOK, AuditRow
  <2>3. QED BY <1>2, <1>3, <2>1, <2>2 DEF TypeInv, RefsExist
<1>6. Onward
  BY <1>2, <1>3 DEF Onward, TypeInv, DbTypeOK
<1>7. QED BY <1>2, <1>4, <1>5, <1>6, FramesStay

LEMMA PurgeTypes ==
    ASSUME TypeInv, PurgeReachlist
    PROVE  TypeInv'
<1>1. /\ reach' = [k \in ReachKey |-> Null] /\ edits' = edits + 1 /\ alone' = {}
      /\ declared' = [f \in File |-> {}]
      /\ wiped' = wiped \cup {k \in ReachKey : reach[k] # Null}
      /\ UNCHANGED <<mnos, secondary, epoch, providers, alias, audit, erased, up, adm,
                     uploads, lines, faults, taken, overtaken>>
  BY DEF PurgeReachlist
<1>2. DbTypeOK'
  BY <1>1 DEF TypeInv, DbTypeOK
<1>3. RefsExist'
  BY <1>1 DEF TypeInv, RefsExist
<1>4. Onward
  BY <1>1 DEF Onward, TypeInv, DbTypeOK
<1>5. QED BY <1>1, <1>2, <1>3, <1>4, FramesStay

(* What was looked up before a reset is of another epoch. *)
LEMMA ResetTypes ==
    ASSUME TypeInv, ResetDatabase
    PROVE  TypeInv'
<1>1. /\ mnos' = NoRoster /\ secondary' = [c \in Code |-> {}] /\ epoch' = epoch + 1
      /\ reach' = [k \in ReachKey |-> Null]
      /\ audit' = [k \in AuditKey |-> Null] /\ erased' = erased + 1
      /\ alone' = {} /\ declared' = [f \in File |-> {}] /\ uploads' = uploads + 1
      /\ taken' = {} /\ wiped' = {} /\ overtaken' = {}
      /\ UNCHANGED <<providers, alias, up, adm, lines, edits, faults>>
  BY DEF ResetDatabase
<1>2. epoch \in Nat /\ erased \in Nat /\ epoch' \in Nat /\ erased' \in Nat
      /\ epoch < epoch' /\ erased < erased'
  BY <1>1 DEF TypeInv, DbTypeOK
<1>3. DbTypeOK'
  BY <1>1, <1>2 DEF TypeInv, DbTypeOK, NoRoster, Roster
<1>4. RefsExist'
  BY <1>1 DEF RefsExist
<1>5. ASSUME NEW r \in Upload PROVE UploadFits(up[r])'
  <2>1. PICK u : u = up[r]
    OBVIOUS
  <2>2. u \in UploadRecord /\ UploadFits(u)
    BY <2>1, FrameOf
  <2>3. u.at \in Nat /\ u.rosterAt \in Nat /\ u.found \in AuditRow \cup {Null}
    BY <2>2 DEF UploadRecord
  <2>4. u.at < epoch' /\ u.rosterAt < epoch'
    BY <1>2, <2>2, <2>3 DEF UploadFits
  <2>5. ASSUME u.pc = "audit", u.found # Null
        PROVE  u.found.files # <<>> /\ u.found.id < erased' /\ u.found.id \in Nat
               /\ ~Alive(EntryKey(u), u.found)'
    <3>1. u.found.id \in Nat
      BY <2>3, <2>5 DEF AuditRow
    <3>2. u.found.files # <<>> /\ u.found.id <= erased
      BY <2>2, <2>5 DEF UploadFits
    <3>3. EntryKey(u) \in AuditKey /\ EntryKey(u)' = EntryKey(u)
      BY <2>2, <2>5, EntryKeyType DEF RowPhase, EntryKey
    <3>4. audit'[EntryKey(u)] = Null
      BY <1>1, <3>3
    <3>5. QED BY <1>2, <3>1, <3>2, <3>3, <3>4 DEF Alive
  <2>6. UploadFits(u)'
    BY <1>1, <2>2, <2>4, <2>5, <1>2, <2>3 DEF UploadFits
  <2>7. up'[r] = u
    BY <1>1, <2>1
  <2>8. QED BY <2>6, <2>7 DEF UploadFits, EntryKey, Alive
<1>6. ASSUME NEW a \in Admin PROVE AdminFits(adm[a])'
  <2>1. PICK f : f = adm[a]
    OBVIOUS
  <2>2. f \in AdminRecord /\ AdminFits(f)
    BY <2>1, AdminOf
  <2>3. f.at \in Nat /\ f.at < epoch'
    BY <1>2, <2>2 DEF AdminRecord, AdminFits
  <2>4. AdminFits(f)'
    BY <1>1, <1>2, <2>2, <2>3 DEF AdminFits
  <2>5. adm'[a] = f
    BY <1>1, <2>1
  <2>6. QED BY <2>4, <2>5 DEF AdminFits
<1>7. UpTypeOK' /\ AdmTypeOK'
  BY <1>1 DEF TypeInv, UpTypeOK, AdmTypeOK
<1>8. QED BY <1>3, <1>4, <1>5, <1>6, <1>7 DEF TypeInv, UpFrames, AdmFrames

LEMMA CrashTypes ==
    ASSUME TypeInv, Crash
    PROVE  TypeInv'
<1>1. /\ up' = [r \in Upload |-> IdleUpload] /\ adm' = [a \in Admin |-> IdleAdmin]
      /\ alone' = {} /\ faults' = faults + 1
      /\ UNCHANGED <<db, uploads, lines, edits, declared, taken, wiped, overtaken>>
  BY DEF Crash
<1>2. DbTypeOK' /\ RefsExist'
  BY <1>1 DEF TypeInv, DbTypeOK, RefsExist, db
<1>3. (UploadFits(IdleUpload) /\ AdminFits(IdleAdmin))'
  BY <1>2, IdleFits, PTL
<1>4. \A r \in Upload : UploadFits(up[r])'
  BY <1>1, <1>3 DEF UploadFits, EntryKey, Alive
<1>5. \A a \in Admin : AdminFits(adm[a])'
  BY <1>1, <1>3 DEF AdminFits
<1>6. UpTypeOK' /\ AdmTypeOK'
  BY <1>1, IdleTypes DEF UpTypeOK, AdmTypeOK
<1>7. QED BY <1>2, <1>4, <1>5, <1>6 DEF TypeInv, UpFrames, AdmFrames

LEMMA InitTypes == Init => TypeInv
<1> SUFFICES ASSUME Init PROVE TypeInv
  OBVIOUS
<1>1. DbTypeOK
  BY ConstantsAssumption DEF Init, DbTypeOK, Roster
<1>2. RefsExist
  BY DEF Init, RefsExist
<1>3. UpTypeOK /\ AdmTypeOK
  BY IdleTypes DEF Init, UpTypeOK, AdmTypeOK
<1>4. \A r \in Upload : up[r] = IdleUpload
  BY DEF Init
<1>5. \A a \in Admin : adm[a] = IdleAdmin
  BY DEF Init
<1>6. UpFrames /\ AdmFrames
  BY <1>1, <1>4, <1>5, IdleFits DEF UpFrames, AdmFrames
<1>7. QED BY <1>1, <1>2, <1>3, <1>6 DEF TypeInv

LEMMA StutterTypes ==
    ASSUME TypeInv, UNCHANGED vars
    PROVE  TypeInv'
<1>1. DbTypeOK' /\ RefsExist'
  BY DEF vars, db, bounds, observers, TypeInv, DbTypeOK, RefsExist
<1>2. Onward
  BY DEF vars, db, Onward, TypeInv, DbTypeOK
<1>3. QED BY <1>1, <1>2, FramesStay DEF vars

LEMMA TypeStep == TypeInv /\ [Next]_vars => TypeInv'
BY UploadTypes, AdminTypes, LoadIr21Types, PurgeTypes, ResetTypes, CrashTypes, StutterTypes
DEF Next

LEMMA TypeAlways == Spec => []TypeInv
BY InitTypes, TypeStep, PTL DEF Spec

(* Every table and every request in flight keeps its shape, whatever happens    *)
(* between two queries: no row of the reach table without its operator and its  *)
(* carrier, through resets, purges, stale rosters and failing writes            *)
(* (upload.service.ts:556-649, mno-normalization.service.ts:95-116, 185-354).   *)
THEOREM ReachTypeCorrect == Spec => []TypeOK
<1>1. TypeInv => TypeOK
  <2> SUFFICES ASSUME TypeInv PROVE TypeOK
    OBVIOUS
  <2>1. \A a \in Admin : DOMAIN adm[a].saw \subseteq AuditKey
    BY AdminOf
  <2>2. QED BY <2>1 DEF TypeInv, DbTypeOK, RefsExist, UpTypeOK, TypeOK
<1>2. QED BY <1>1, TypeAlways, PTL

-----------------------------------------------------------------------------
(* What each kind of step leaves alone.                                        *)

LEMMA UploadLeaves ==
    ASSUME NEW r \in Upload, UploadStep(r)
    PROVE  /\ UNCHANGED <<epoch, erased, mnos, secondary, adm>>
           /\ WriteAudit(r) \/ UNCHANGED <<audit, overtaken>>
           /\ \/ DeleteOldRows(r)
              \/ \E s \in Service : UpsertRow(r, s)
              \/ UNCHANGED <<reach, declared, taken, wiped>>
<1>1. ASSUME NEW kind, NEW replace, NEW f, StartUpload(r, kind, replace, f)
      PROVE  UNCHANGED <<epoch, erased, mnos, secondary, adm, audit, overtaken, reach, declared,
                         taken, wiped>>
  BY <1>1 DEF StartUpload, Start, db
<1>2. ASSUME NEW replace, StartArchive(r, replace)
      PROVE  UNCHANGED <<epoch, erased, mnos, secondary, adm, audit, overtaken, reach, declared,
                         taken, wiped>>
  BY <1>2 DEF StartArchive, Start, db
<1>3. ASSUME \/ \E f \in File : NextFile(r, f)
             \/ ReadRoster(r) \/ FindMnoByName(r) \/ FindAudit(r)
             \/ \E row \in Row : TakeRow(r, row)
             \/ FinishFile(r) \/ FinishArchive(r) \/ UploadFails(r)
      PROVE  UNCHANGED <<epoch, erased, mnos, secondary, adm, audit, overtaken, reach, declared,
                         taken, wiped>>
  BY <1>3 DEF NextFile, ReadRoster, FindMnoByName, FindAudit, TakeRow, FinishFile,
     FinishArchive, UploadFails, db, observers
<1>4. ASSUME CreateProvider(r) \/ RegisterAlias(r)
      PROVE  UNCHANGED <<epoch, erased, mnos, secondary, adm, audit, overtaken, reach, declared,
                         taken, wiped>>
  BY <1>4 DEF CreateProvider, RegisterAlias, observers
<1>5. DeleteOldRows(r) => UNCHANGED <<epoch, erased, mnos, secondary, adm, audit, overtaken>>
  BY DEF DeleteOldRows
<1>6. ASSUME NEW s, UpsertRow(r, s)
      PROVE  UNCHANGED <<epoch, erased, mnos, secondary, adm, audit, overtaken>>
  BY <1>6 DEF UpsertRow
<1>7. WriteAudit(r) => UNCHANGED <<epoch, erased, mnos, secondary, adm, reach, declared, taken, wiped>>
  BY DEF WriteAudit
<1>8. QED BY <1>1, <1>2, <1>3, <1>4, <1>5, <1>6, <1>7 DEF UploadStep

(* An administrator's step that writes nothing but its frame, or only entries.  *)
LEMMA AdminLeaves ==
    ASSUME NEW a \in Admin, AdminStep(a)
    PROVE  /\ UNCHANGED <<epoch, up, providers, declared, overtaken>>
           /\ \/ \E s \in Service : MapService(a, s)
              \/ CommitMapping(a) \/ CommitNewMnos(a)
              \/ UNCHANGED <<reach, taken, wiped>>
           /\ \/ CommitMapping(a) \/ CommitNewMnos(a) \/ MarkOverridden(a)
              \/ CommitIgnore(a) \/ CommitDelete(a)
              \/ UNCHANGED audit
<1>1. ASSUME NEW k, NEW m, StartResolve(a, k, m)
      PROVE  UNCHANGED <<epoch, up, providers, declared, overtaken, reach, taken, wiped, audit>>
  BY <1>1 DEF StartResolve, db
<1>2. ASSUME NEW op, NEW K, NEW m, StartBulk(a, op, K, m)
      PROVE  UNCHANGED <<epoch, up, providers, declared, overtaken, reach, taken, wiped, audit>>
  BY <1>2 DEF StartBulk, db
<1>3. ASSUME NEW m, NEW C, StartSecondary(a, m, C)
      PROVE  UNCHANGED <<epoch, up, providers, declared, overtaken, reach, taken, wiped, audit>>
  BY <1>3 DEF StartSecondary, db
<1>4. ASSUME WriteSecondary(a) \/ EditFails(a)
      PROVE  UNCHANGED <<epoch, up, providers, declared, overtaken, reach, taken, wiped, audit>>
  BY <1>4 DEF WriteSecondary, EditFails, db, observers
<1>5. ASSUME NEW s, MapService(a, s)
      PROVE  UNCHANGED <<epoch, up, providers, declared, overtaken, audit>>
  BY <1>5 DEF MapService
<1>6. ASSUME MarkOverridden(a) \/ CommitIgnore(a) \/ CommitDelete(a)
      PROVE  UNCHANGED <<epoch, up, providers, declared, overtaken, reach, taken, wiped>>
  BY <1>6 DEF MarkOverridden, CommitIgnore, CommitDelete, observers
<1>7. ASSUME CommitMapping(a) \/ CommitNewMnos(a)
      PROVE  UNCHANGED <<epoch, up, providers, declared, overtaken>>
  BY <1>7 DEF CommitMapping, CommitNewMnos
<1>8. QED BY <1>1, <1>2, <1>3, <1>4, <1>5, <1>6, <1>7 DEF AdminStep

(* What a transaction writes, for the entries it maps.                         *)
Mapping(a, to, rows) ==
    /\ DOMAIN to \subseteq DOMAIN adm[a].saw
    /\ \A k \in DOMAIN to : to[k] \in Code /\ Alive(k, adm[a].saw[k])
    /\ rows = UNION {RowsOf(a, to, k) : k \in DOMAIN to} /\ rows \subseteq ReachKey
    /\ \E source \in [rows -> File] :
         /\ reach' = [x \in ReachKey |-> IF x \in rows THEN source[x] ELSE reach[x]]
         /\ taken' = taken \cup {x \in rows : reach[x] \notin {Null, source[x]}}
    /\ wiped' = wiped \ rows
    /\ audit' = [k \in AuditKey |->
         IF k \in DOMAIN to THEN Overridden(audit[k], to[k]) ELSE audit[k]]
    /\ adm' = [adm EXCEPT ![a] = IdleAdmin]

LEMMA MappingRows ==
    ASSUME TypeInv, NEW a \in Admin, CommitMapping(a) \/ CommitNewMnos(a)
    PROVE  \E to, rows : Mapping(a, to, rows)
<1>1. ASSUME NEW to, WriteMappings(a, to), DOMAIN to \subseteq DOMAIN adm[a].saw,
             \A k \in DOMAIN to : to[k] \in Code
      PROVE  \E rows : Mapping(a, to, rows)
  <2> DEFINE rows == UNION {RowsOf(a, to, k) : k \in DOMAIN to}
             sources(x) == {SourceOf(adm[a].saw[k]) : k \in {j \in DOMAIN to : x \in RowsOf(a, to, j)}}
  <2>1. PICK source \in [rows -> File] :
         /\ \A x \in rows : source[x] \in sources(x)
         /\ reach' = [x \in ReachKey |-> IF x \in rows THEN source[x] ELSE reach[x]]
         /\ taken' = taken \cup {x \in rows : reach[x] \notin {Null, source[x]}}
    BY <1>1, Zenon DEF WriteMappings, RowsOf
  <2>2. ASSUME NEW x \in rows PROVE x \in ReachKey
    <3>1. PICK k \in DOMAIN to : x \in RowsOf(a, to, k)
      OBVIOUS
    <3>2. QED BY <1>1, <3>1, RowsOfType
  <2>3. /\ \A k \in DOMAIN to : Alive(k, adm[a].saw[k])
        /\ wiped' = wiped \ rows
        /\ audit' = [k \in AuditKey |->
             IF k \in DOMAIN to THEN Overridden(audit[k], to[k]) ELSE audit[k]]
        /\ adm' = [adm EXCEPT ![a] = IdleAdmin]
    BY <1>1 DEF WriteMappings, RowsOf
  <2>4. Mapping(a, to, rows)
    <3>1. rows = UNION {RowsOf(a, to, k) : k \in DOMAIN to}
      OBVIOUS
    <3> HIDE DEF rows, sources
    <3>2. QED BY <1>1, <2>1, <2>2, <2>3, <3>1 DEF Mapping
  <2>5. QED BY <2>4
<1>2. PICK to : /\ WriteMappings(a, to) /\ DOMAIN to \subseteq DOMAIN adm[a].saw
                /\ \A k \in DOMAIN to : to[k] \in Code
  <2>1. CASE CommitMapping(a)
    BY <2>1, MappedType DEF CommitMapping
  <2>2. CASE CommitNewMnos(a)
    <3> DEFINE codeOf(n, k) == n[CHOOSE g \in GroupsOf(a) : k \in g].code
    <3>1. PICK new \in NewCodes(a) : WriteMappings(a, [k \in UNION GroupsOf(a) |-> codeOf(new, k)])
      BY <2>2 DEF CommitNewMnos
    <3>2. new \in [GroupsOf(a) -> [code : Code, of : DOMAIN adm[a].saw]]
      BY DEF NewCodes
    <3>3. ASSUME NEW k \in UNION GroupsOf(a) PROVE codeOf(new, k) \in Code
      <4>1. (CHOOSE g \in GroupsOf(a) : k \in g) \in GroupsOf(a)
        OBVIOUS
      <4>2. QED BY <3>2, <4>1
    <3>4. UNION GroupsOf(a) \subseteq DOMAIN adm[a].saw
      BY GroupsType
    <3> HIDE DEF codeOf
    <3>5. PICK to : to = [k \in UNION GroupsOf(a) |-> codeOf(new, k)]
      OBVIOUS
    <3>6. WriteMappings(a, to) /\ DOMAIN to \subseteq DOMAIN adm[a].saw
          /\ \A k \in DOMAIN to : to[k] \in Code
      BY <3>1, <3>3, <3>4, <3>5
    <3>7. QED BY <3>6
  <2>3. QED BY <2>1, <2>2
<1>3. QED BY <1>1, <1>2

-----------------------------------------------------------------------------
(* Rows under their file's name.                                               *)

LEMMA PutRowKeepsNames ==
    ASSUME TypeInv, OtherFilesKeepTheirRows, NEW x \in ReachKey, NEW g \in File, PutRow(x, g),
           NEW f \in File, NEW k \in declared[f], k \notin taken'
    PROVE  reach'[k] = f
<1>1. k \notin taken /\ reach[k] = f /\ f # Null /\ k \in ReachKey
  BY Constants DEF PutRow, OtherFilesKeepTheirRows, TypeInv, DbTypeOK
<1>2. CASE k = x
  <2>1. reach[x] \in {Null, g}
    BY <1>1, <1>2 DEF PutRow
  <2>2. QED BY <1>1, <1>2, <2>1 DEF PutRow, TypeInv, DbTypeOK
<1>3. CASE k # x
  BY <1>1, <1>3 DEF PutRow, TypeInv, DbTypeOK
<1>4. QED BY <1>2, <1>3

LEMMA UpsertPuts ==
    ASSUME TypeInv, NEW r \in Upload, NEW s \in Service, UpsertRow(r, s)
    PROVE  \/ UNCHANGED <<reach, declared, taken, wiped>>
           \/ \E x \in ReachKey, f \in File :
                 PutRow(x, f) /\ declared' = [declared EXCEPT ![f] = @ \cup {x}]
<1>1. PICK u : u = up[r]
  OBVIOUS
<1>2. /\ u \in UploadRecord /\ RowFits(u) /\ u.mno \in Code /\ Head(u.carriers) \in Provider
  <2>1. u \in UploadRecord /\ UploadFits(u) /\ u.pc = "upsert"
    BY <1>1, FrameOf DEF UpsertRow
  <2>2. QED BY <2>1, FitsInRow, EntryKeyType DEF UploadFits, RowPhase, UploadRecord
<1>3. <<u.mno, Head(u.carriers), s>> \in ReachKey /\ u.file \in File
  BY <1>2 DEF ReachKey, RowFits
<1>4. QED BY <1>1, <1>3 DEF UpsertRow, Carrier

LEMMA MapPuts ==
    ASSUME TypeInv, NEW a \in Admin, NEW s \in Service, MapService(a, s)
    PROVE  \E f \in File : PutRow(<<adm[a].to, TheKey(a)[1], s>>, f)
           /\ <<adm[a].to, TheKey(a)[1], s>> \in ReachKey
<1>1. PICK k : k = TheKey(a)
  OBVIOUS
<1>2. PICK row : row = adm[a].saw[k]
  OBVIOUS
<1>3. adm[a].pc = "map" /\ k \in DOMAIN adm[a].saw
  BY <1>1, TheKeyType DEF MapService
<1>4. adm[a].to \in Code /\ k[1] \in providers /\ row \in AuditRow /\ row.files # <<>>
  BY <1>2, <1>3, AdminOf DEF AdminFits
<1>5. k[1] \in Provider /\ SourceOf(row) \in File
  BY <1>4, SourceType DEF TypeInv, DbTypeOK
<1>6. QED BY <1>1, <1>2, <1>4, <1>5 DEF MapService, ReachKey

LEMMA NamesStep == TypeInv /\ OtherFilesKeepTheirRows /\ [Next]_vars => OtherFilesKeepTheirRows'
<1> SUFFICES ASSUME TypeInv, OtherFilesKeepTheirRows, [Next]_vars
             PROVE  OtherFilesKeepTheirRows'
  OBVIOUS
<1>1. CASE UNCHANGED <<reach, declared, taken>>
  BY <1>1 DEF OtherFilesKeepTheirRows
<1>2. ASSUME NEW r \in Upload, DeleteOldRows(r) PROVE OtherFilesKeepTheirRows'
  <2>1. PICK f : f = up[r].file
    OBVIOUS
  <2>2. /\ reach' = [k \in ReachKey |-> IF k \in FileRows(f) THEN Null ELSE reach[k]]
        /\ declared' = [declared EXCEPT ![f] = {}] /\ taken' = taken
    BY <1>2, <2>1 DEF DeleteOldRows
  <2>3. ASSUME NEW g \in File, NEW k \in declared'[g], k \notin taken' PROVE reach'[k] = g
    <3>1. g # f /\ k \in declared[g] /\ k \in ReachKey
      BY <2>2, <2>3 DEF TypeInv, DbTypeOK
    <3>2. reach[k] = g
      BY <2>2, <2>3, <3>1 DEF OtherFilesKeepTheirRows
    <3>3. k \notin FileRows(f)
      BY <3>1, <3>2 DEF FileRows
    <3>4. QED BY <2>2, <3>1, <3>2, <3>3
  <2>4. QED BY <2>3 DEF OtherFilesKeepTheirRows
<1>3. ASSUME NEW r \in Upload, NEW s \in Service, UpsertRow(r, s) PROVE OtherFilesKeepTheirRows'
  <2>1. CASE UNCHANGED <<reach, declared, taken, wiped>>
    BY <2>1, <1>1
  <2>2. ASSUME NEW x \in ReachKey, NEW f \in File, PutRow(x, f),
               declared' = [declared EXCEPT ![f] = @ \cup {x}]
        PROVE  OtherFilesKeepTheirRows'
    <3>1. ASSUME NEW g \in File, NEW k \in declared'[g], k \notin taken' PROVE reach'[k] = g
      <4>1. CASE k \in declared[g]
        BY <2>2, <3>1, <4>1, PutRowKeepsNames
      <4>2. CASE k \notin declared[g]
        <5>1. k = x /\ g = f
          BY <2>2, <3>1, <4>2 DEF TypeInv, DbTypeOK
        <5>2. QED BY <2>2, <5>1 DEF PutRow, TypeInv, DbTypeOK
      <4>3. QED BY <4>1, <4>2
    <3>2. QED BY <3>1 DEF OtherFilesKeepTheirRows
  <2>3. QED BY <1>3, <2>1, <2>2, UpsertPuts
<1>4. ASSUME NEW a \in Admin, NEW s \in Service, MapService(a, s) PROVE OtherFilesKeepTheirRows'
  <2>1. PICK f \in File, x \in ReachKey : PutRow(x, f)
    BY <1>4, MapPuts
  <2>2. declared' = declared
    BY <1>4 DEF MapService
  <2>3. ASSUME NEW g \in File, NEW k \in declared'[g], k \notin taken' PROVE reach'[k] = g
    BY <2>1, <2>2, <2>3, PutRowKeepsNames
  <2>4. QED BY <2>3 DEF OtherFilesKeepTheirRows
<1>5. ASSUME NEW a \in Admin, CommitMapping(a) \/ CommitNewMnos(a) PROVE OtherFilesKeepTheirRows'
  <2>1. PICK to, rows : Mapping(a, to, rows)
    BY <1>5, MappingRows
  <2>2. PICK source \in [rows -> File] :
         /\ reach' = [x \in ReachKey |-> IF x \in rows THEN source[x] ELSE reach[x]]
         /\ taken' = taken \cup {x \in rows : reach[x] \notin {Null, source[x]}}
    BY <2>1 DEF Mapping
  <2>3. declared' = declared
    BY <1>5 DEF CommitMapping, CommitNewMnos
  <2>4. ASSUME NEW g \in File, NEW k \in declared'[g], k \notin taken' PROVE reach'[k] = g
    <3>1. reach[k] = g /\ g # Null /\ k \in ReachKey
      BY <2>2, <2>3, <2>4, Constants DEF OtherFilesKeepTheirRows, TypeInv, DbTypeOK
    <3>2. k \in rows => source[k] = g
      BY <2>2, <2>4, <3>1
    <3>3. QED BY <2>2, <3>1, <3>2
  <2>5. QED BY <2>4 DEF OtherFilesKeepTheirRows
<1>6. CASE PurgeReachlist \/ ResetDatabase
  BY <1>6 DEF PurgeReachlist, ResetDatabase, OtherFilesKeepTheirRows
<1>7. CASE (\E x \in Ir21 : LoadIr21(x[1], x[2])) \/ Crash \/ UNCHANGED vars
  <2>1. UNCHANGED <<reach, declared, taken>>
    BY <1>7 DEF LoadIr21, Crash, vars, db, observers
  <2>2. QED BY <1>1, <2>1
<1>8. ASSUME NEW r \in Upload, UploadStep(r) PROVE OtherFilesKeepTheirRows'
  BY <1>1, <1>2, <1>3, <1>8, UploadLeaves
<1>9. ASSUME NEW a \in Admin, AdminStep(a) PROVE OtherFilesKeepTheirRows'
  BY <1>1, <1>4, <1>5, <1>9, AdminLeaves
<1>10. QED BY <1>6, <1>7, <1>8, <1>9 DEF Next

(* A row that only one file declares stays under that file's name, whatever     *)
(* other uploads and resolutions run, until that file is replaced or the table  *)
(* purged (upload.service.ts:159-172, 247-250, 556-586).                        *)
THEOREM OtherFilesAreLeftAlone == Spec => []OtherFilesKeepTheirRows
<1>1. Init => OtherFilesKeepTheirRows
  BY DEF Init, OtherFilesKeepTheirRows
<1>2. QED BY <1>1, NamesStep, TypeAlways, PTL DEF Spec

-----------------------------------------------------------------------------
(* Decisions and their rows.                                                   *)

HasRow(x) == reach[x] # Null \/ x \in wiped

(* An entry is decided for an operator, and unless an upload came between, the  *)
(* operator has its rows.                                                      *)
DecidedInv ==
    \A k \in AuditKey : audit[k] # Null /\ audit[k].status = "MANUALLY_OVERRIDDEN" =>
        /\ audit[k].mno # Null
        /\ k \notin overtaken => \A s \in audit[k].services : HasRow(<<audit[k].mno, k[1], s>>)

RowsStay == \A x \in ReachKey : HasRow(x) => HasRow(x)'

LEMMA PutRowStays ==
    ASSUME TypeInv, NEW x \in ReachKey, NEW f \in File, PutRow(x, f)
    PROVE  RowsStay /\ HasRow(x)'
BY Constants DEF RowsStay, HasRow, PutRow, TypeInv, DbTypeOK

LEMMA MappingStays ==
    ASSUME TypeInv, NEW a \in Admin, NEW to, NEW rows, Mapping(a, to, rows)
    PROVE  RowsStay /\ \A x \in rows : HasRow(x)'
<1>1. PICK source \in [rows -> File] :
         reach' = [x \in ReachKey |-> IF x \in rows THEN source[x] ELSE reach[x]]
  BY DEF Mapping
<1>2. rows \subseteq ReachKey /\ wiped' = wiped \ rows
  BY DEF Mapping
<1>3. \A x \in rows : reach'[x] # Null
  BY <1>1, <1>2, Constants
<1>4. QED BY <1>1, <1>2, <1>3 DEF RowsStay, HasRow

LEMMA RowsStayOrReset == TypeInv /\ [Next]_vars => RowsStay \/ ResetDatabase
<1> SUFFICES ASSUME TypeInv, [Next]_vars, ~ResetDatabase PROVE RowsStay
  OBVIOUS
<1>1. CASE UNCHANGED <<reach, wiped>>
  BY <1>1 DEF RowsStay, HasRow
<1>2. ASSUME NEW r \in Upload, DeleteOldRows(r) PROVE RowsStay
  BY <1>2 DEF DeleteOldRows, RowsStay, HasRow
<1>3. ASSUME NEW r \in Upload, NEW s \in Service, UpsertRow(r, s) PROVE RowsStay
  BY <1>1, <1>3, UpsertPuts, PutRowStays
<1>4. ASSUME NEW a \in Admin, NEW s \in Service, MapService(a, s) PROVE RowsStay
  BY <1>4, MapPuts, PutRowStays
<1>5. ASSUME NEW a \in Admin, CommitMapping(a) \/ CommitNewMnos(a) PROVE RowsStay
  BY <1>5, MappingRows, MappingStays
<1>6. PurgeReachlist => RowsStay
  BY DEF PurgeReachlist, RowsStay, HasRow
<1>7. ASSUME (\E x \in Ir21 : LoadIr21(x[1], x[2])) \/ Crash \/ UNCHANGED vars PROVE RowsStay
  <2>1. UNCHANGED <<reach, wiped>>
    BY <1>7 DEF LoadIr21, Crash, vars, db, observers
  <2>2. QED BY <1>1, <2>1
<1>8. ASSUME NEW r \in Upload, UploadStep(r) PROVE RowsStay
  BY <1>1, <1>2, <1>3, <1>8, UploadLeaves
<1>9. ASSUME NEW a \in Admin, AdminStep(a) PROVE RowsStay
  BY <1>1, <1>4, <1>5, <1>9, AdminLeaves
<1>10. QED BY <1>6, <1>7, <1>8, <1>9 DEF Next

(* An entry that a request in flight has read changes by an upload, which the   *)
(* observer overtaken notes, or in its status and its operator only.           *)
EntriesKeep ==
    /\ overtaken \subseteq overtaken'
    /\ \A k \in AuditKey \ overtaken' :
          (\E a \in Admin : adm[a].pc # "idle" /\ k \in DOMAIN adm[a].saw) /\ audit'[k] # Null =>
              audit[k] # Null /\ audit'[k].id = audit[k].id /\ audit'[k].services = audit[k].services

LEMMA SawKept ==
    ASSUME TypeInv, SawInv, EntriesKeep,
           NEW a \in Admin, adm[a].pc # "idle", adm'[a].saw = adm[a].saw
    PROVE  \A k \in DOMAIN adm'[a].saw \ overtaken' : Alive(k, adm[a].saw[k])' =>
              audit'[k].services = adm'[a].saw[k].services
<1> SUFFICES ASSUME NEW k \in DOMAIN adm[a].saw \ overtaken', Alive(k, adm[a].saw[k])'
             PROVE  audit'[k].services = adm[a].saw[k].services
  OBVIOUS
<1>1. k \in AuditKey /\ k \notin overtaken
  BY AdminOf DEF EntriesKeep
<1>2. audit'[k] # Null /\ audit'[k].id = adm[a].saw[k].id
  BY DEF Alive
<1>3. audit[k] # Null /\ audit'[k].id = audit[k].id /\ audit'[k].services = audit[k].services
  BY <1>1, <1>2 DEF EntriesKeep
<1>4. Alive(k, adm[a].saw[k])
  BY <1>2, <1>3 DEF Alive
<1>5. QED BY <1>1, <1>3, <1>4 DEF SawInv

LEMMA UploadEntries ==
    ASSUME TypeInv, NEW r \in Upload, UploadStep(r)
    PROVE  EntriesKeep
<1>1. CASE UNCHANGED <<audit, overtaken>>
  BY <1>1 DEF EntriesKeep
<1>2. CASE WriteAudit(r)
  <2>1. PICK k : k = AuditOf(r)
    OBVIOUS
  <2>2. PICK e : e = Recorded(r)
    OBVIOUS
  <2>3. /\ audit' = [audit EXCEPT ![k] = e]
        /\ overtaken' = IF Resolving(k) THEN overtaken \cup {k} ELSE overtaken
    BY <1>2, <2>1, <2>2 DEF WriteAudit
  <2>4. QED BY <2>3 DEF EntriesKeep, Resolving, TypeInv, DbTypeOK
<1>3. QED BY <1>1, <1>2, UploadLeaves

LEMMA AdminEntries ==
    ASSUME TypeInv, NEW a \in Admin, AdminStep(a)
    PROVE  EntriesKeep
<1>1. overtaken' = overtaken
  BY AdminLeaves
<1>2. ASSUME NEW k \in AuditKey, audit'[k] # Null
      PROVE  /\ audit[k] # Null /\ audit'[k].id = audit[k].id
             /\ audit'[k].services = audit[k].services
  <2>1. CASE UNCHANGED audit
    BY <1>2, <2>1
  <2>2. CASE CommitMapping(a) \/ CommitNewMnos(a)
    <3>1. PICK to, rows : Mapping(a, to, rows)
      BY <2>2, MappingRows
    <3>2. audit'[k] = IF k \in DOMAIN to THEN Overridden(audit[k], to[k]) ELSE audit[k]
      BY <3>1 DEF Mapping
    <3>3. k \in DOMAIN to => audit[k] # Null /\ to[k] \in Code
      BY <3>1 DEF Mapping, Alive
    <3>4. audit[k] \in AuditRow \cup {Null}
      BY DEF TypeInv, DbTypeOK
    <3>5. QED BY <1>2, <3>2, <3>3, <3>4, OverriddenType
  <2>3. CASE MarkOverridden(a)
    <3>1. PICK j : j = TheKey(a)
      OBVIOUS
    <3>2. j \in AuditKey /\ audit[j] \in AuditRow /\ audit[j] # Null /\ adm[a].to \in Code
      BY <2>3, <3>1, TheKeyType, AdminOf DEF MarkOverridden, Alive, TypeInv, DbTypeOK, AdminFits
    <3>3. audit' = [audit EXCEPT ![j] = Overridden(audit[j], adm[a].to)]
      BY <2>3, <3>1, <3>2 DEF MarkOverridden, TypeInv, DbTypeOK
    <3>4. QED BY <1>2, <3>2, <3>3, OverriddenType DEF TypeInv, DbTypeOK
  <2>4. CASE CommitIgnore(a)
    <3>1. /\ \A j \in Open(a) : audit[j] # Null
          /\ audit'[k] = IF k \in Open(a) THEN [audit[k] EXCEPT !.status = "IGNORED"] ELSE audit[k]
      BY <2>4 DEF CommitIgnore, Alive
    <3>2. audit[k] \in AuditRow \cup {Null}
      BY DEF TypeInv, DbTypeOK
    <3>3. QED BY <1>2, <3>1, <3>2 DEF AuditRow
  <2>5. CASE CommitDelete(a)
    BY <1>2, <2>5 DEF CommitDelete
  <2>6. QED BY <2>1, <2>2, <2>3, <2>4, <2>5, AdminLeaves
<1>3. QED BY <1>1, <1>2 DEF EntriesKeep

(* A request starts, maps one more service, or ends. *)
LEMMA AdminFrame ==
    ASSUME TypeInv, NEW a \in Admin, AdminStep(a)
    PROVE  /\ \A b \in Admin \ {a} : adm'[b] = adm[b]
           /\ \/ adm'[a].pc = "idle"
              \/ \E s \in Service : MapService(a, s)
              \/ /\ adm[a].pc = "idle" /\ adm'[a].pc = "map"
                 /\ \E k \in AuditKey : /\ adm'[a].saw = Seen({k}) /\ audit[k] # Null
                                        /\ adm'[a].todo = audit[k].services
              \/ /\ adm[a].pc = "idle" /\ adm'[a].pc = "commit"
                 /\ \E K \in SUBSET AuditKey : adm'[a].saw = Seen(K) /\ \A k \in K : audit[k] # Null
              \/ adm[a].pc = "idle" /\ adm'[a].pc = "secondary" /\ adm'[a].saw = NothingSeen
<1>0. adm \in [Admin -> AdminRecord]
  BY DEF TypeInv, AdmTypeOK
<1>1. ASSUME NEW f, StartEdit(a, f)
      PROVE  adm[a].pc = "idle" /\ adm'[a] = f /\ \A b \in Admin \ {a} : adm'[b] = adm[b]
  BY <1>0, <1>1 DEF StartEdit
<1>2. PICK i : i = IdleAdmin
  OBVIOUS
<1>3. i \in AdminRecord /\ i.pc = "idle" /\ i.saw = NothingSeen
  BY <1>2, IdleTypes DEF IdleAdmin
<1>4. ASSUME adm' = [adm EXCEPT ![a] = IdleAdmin]
      PROVE  adm'[a].pc = "idle" /\ \A b \in Admin \ {a} : adm'[b] = adm[b]
  BY <1>0, <1>2, <1>3, <1>4
<1>5. ASSUME NEW k \in AuditKey, NEW m \in Code, StartResolve(a, k, m)
      PROVE  /\ \A b \in Admin \ {a} : adm'[b] = adm[b]
             /\ adm[a].pc = "idle" /\ adm'[a].pc = "map" /\ adm'[a].saw = Seen({k})
             /\ audit[k] # Null /\ adm'[a].todo = audit[k].services
  <2>1. PICK f : f = [i EXCEPT !.pc = "map", !.op = "resolve", !.saw = Seen({k}), !.to = m,
                               !.at = epoch, !.todo = audit[k].services]
    OBVIOUS
  <2>2. StartEdit(a, f) /\ audit[k] # Null
    BY <1>2, <1>5, <2>1 DEF StartResolve
  <2>3. f.pc = "map" /\ f.saw = Seen({k}) /\ f.todo = audit[k].services
    BY <1>3, <2>1 DEF AdminRecord
  <2>4. QED BY <1>1, <2>2, <2>3
<1>6. ASSUME NEW op, NEW K \in Selection, NEW m, StartBulk(a, op, K, m)
      PROVE  /\ \A b \in Admin \ {a} : adm'[b] = adm[b]
             /\ adm[a].pc = "idle" /\ adm'[a].pc = "commit" /\ adm'[a].saw = Seen(K)
             /\ K \in SUBSET AuditKey /\ \A k \in K : audit[k] # Null
  <2>1. PICK f : f = [i EXCEPT !.pc = "commit", !.op = op, !.saw = Seen(K), !.to = m, !.at = epoch]
    OBVIOUS
  <2>2. StartEdit(a, f) /\ \A k \in K : audit[k] # Null
    BY <1>2, <1>6, <2>1 DEF StartBulk
  <2>3. f.pc = "commit" /\ f.saw = Seen(K)
    BY <1>3, <2>1 DEF AdminRecord
  <2>4. QED BY <1>1, <2>2, <2>3, ConstantsAssumption
<1>7. ASSUME NEW m, NEW C, StartSecondary(a, m, C)
      PROVE  /\ \A b \in Admin \ {a} : adm'[b] = adm[b]
             /\ adm[a].pc = "idle" /\ adm'[a].pc = "secondary" /\ adm'[a].saw = NothingSeen
  <2>1. PICK f : f = [i EXCEPT !.pc = "secondary", !.op = "secondary", !.to = m, !.at = epoch,
                               !.codes = C]
    OBVIOUS
  <2>2. StartEdit(a, f)
    BY <1>2, <1>7, <2>1 DEF StartSecondary
  <2>3. f.pc = "secondary" /\ f.saw = NothingSeen
    BY <1>3, <2>1 DEF AdminRecord
  <2>4. QED BY <1>1, <2>2, <2>3
<1>8. ASSUME NEW s \in Service, MapService(a, s)
      PROVE  \A b \in Admin \ {a} : adm'[b] = adm[b]
  BY <1>0, <1>8 DEF MapService
<1>9. ASSUME CommitMapping(a) \/ CommitNewMnos(a)
      PROVE  adm' = [adm EXCEPT ![a] = IdleAdmin]
  BY <1>9, MappingRows DEF Mapping
<1>10. ASSUME \/ MarkOverridden(a) \/ CommitIgnore(a) \/ CommitDelete(a)
              \/ WriteSecondary(a) \/ EditFails(a)
       PROVE  adm' = [adm EXCEPT ![a] = IdleAdmin]
  BY <1>10 DEF MarkOverridden, CommitIgnore, CommitDelete, WriteSecondary, EditFails
<1>11. QED
  BY <1>4, <1>5, <1>6, <1>7, <1>8, <1>9, <1>10 DEF AdminStep

LEMMA MapServiceFrame ==
    ASSUME TypeInv, NEW a \in Admin, NEW s \in Service, MapService(a, s)
    PROVE  /\ adm[a].pc = "map" /\ adm'[a].pc = "map" /\ adm'[a].saw = adm[a].saw
           /\ adm'[a].to = adm[a].to /\ adm'[a].at = adm[a].at
           /\ adm'[a].todo = adm[a].todo \ {s} /\ TheKey(a)' = TheKey(a)
<1>1. PICK f : f = adm[a]
  OBVIOUS
<1>2. f \in AdminRecord /\ f.pc = "map"
  BY <1>1, AdminOf DEF MapService
<1>3. adm' = [adm EXCEPT ![a] = [f EXCEPT !.todo = f.todo \ {s}]]
  BY <1>1, <1>2 DEF MapService, AdminRecord
<1>4. adm'[a] = [f EXCEPT !.todo = f.todo \ {s}]
  BY <1>3 DEF TypeInv, AdmTypeOK
<1>5. QED BY <1>1, <1>2, <1>4 DEF AdminRecord, TheKey

LEMMA SawStep == TypeInv /\ SawInv /\ [Next]_vars => SawInv'
<1> SUFFICES ASSUME TypeInv, SawInv, [Next]_vars PROVE SawInv'
  OBVIOUS
<1> DEFINE Kept(a) ==
      adm'[a].pc # "idle" => \A k \in DOMAIN adm'[a].saw \ overtaken' :
          Alive(k, adm[a].saw[k])' => audit'[k].services = adm'[a].saw[k].services
<1>1. ASSUME EntriesKeep, NEW a \in Admin, adm'[a] = adm[a] PROVE Kept(a)
  BY <1>1, SawKept
<1>2. ASSUME EntriesKeep, adm' = adm PROVE SawInv'
  BY <1>1, <1>2 DEF SawInv
<1>3. ASSUME NEW a \in Admin, AdminStep(a) PROVE SawInv'
  <2>1. EntriesKeep
    BY <1>3, AdminEntries
  <2>2. Kept(a)
    <3>1. CASE adm'[a].pc = "idle"
      BY <3>1
    <3>2. ASSUME NEW s \in Service, MapService(a, s) PROVE Kept(a)
      BY <2>1, <3>2, MapServiceFrame, SawKept
    <3>3. ASSUME NEW K \in SUBSET AuditKey, adm'[a].saw = Seen(K), \A k \in K : audit[k] # Null,
                 UNCHANGED audit
          PROVE  Kept(a)
      BY <3>3, SeenType
    <3>4. CASE adm'[a].saw = NothingSeen
      BY <3>4 DEF NothingSeen
    <3>5. adm[a].pc = "idle" => adm'[a].pc = "idle" \/ UNCHANGED audit
      <4>1. CommitMapping(a) \/ CommitNewMnos(a) \/ MarkOverridden(a) \/ CommitIgnore(a)
              \/ CommitDelete(a) => adm[a].pc # "idle"
        BY DEF CommitMapping, CommitNewMnos, MarkOverridden, CommitIgnore, CommitDelete
      <4>2. QED BY <1>3, <4>1, AdminLeaves
    <3> HIDE DEF Kept
    <3>6. ASSUME NEW k \in AuditKey, adm'[a].saw = Seen({k}), audit[k] # Null, UNCHANGED audit
          PROVE  Kept(a)
      BY <3>3, <3>6
    <3>7. QED BY <1>3, <3>1, <3>2, <3>3, <3>4, <3>5, <3>6, AdminFrame
  <2>3. ASSUME NEW b \in Admin \ {a} PROVE Kept(b)
    BY <1>1, <1>3, <2>1, AdminFrame
  <2>4. QED BY <2>2, <2>3 DEF SawInv
<1>4. ASSUME NEW r \in Upload, UploadStep(r) PROVE SawInv'
  BY <1>2, <1>4, UploadEntries, UploadLeaves
<1>5. CASE (\E x \in Ir21 : LoadIr21(x[1], x[2])) \/ PurgeReachlist \/ UNCHANGED vars
  <2>1. UNCHANGED <<adm, audit, overtaken>>
    BY <1>5 DEF LoadIr21, PurgeReachlist, vars, db, observers
  <2>2. QED BY <1>2, <2>1 DEF EntriesKeep
<1>6. CASE ResetDatabase
  <2>1. adm' = adm /\ audit' = [k \in AuditKey |-> Null]
    BY <1>6 DEF ResetDatabase
  <2>2. \A a \in Admin : DOMAIN adm'[a].saw \subseteq AuditKey
    BY <2>1, AdminOf
  <2>3. QED BY <2>1, <2>2 DEF SawInv, Alive
<1>7. CASE Crash
  BY <1>7 DEF Crash, SawInv, IdleAdmin
<1>8. QED BY <1>3, <1>4, <1>5, <1>6, <1>7 DEF Next

LEMMA MapKeyType ==
    ASSUME TypeInv, NEW a \in Admin, adm[a].pc = "map",
           NEW s \in adm[a].saw[TheKey(a)].services
    PROVE  <<adm[a].to, TheKey(a)[1], s>> \in ReachKey
<1>1. TheKey(a) \in DOMAIN adm[a].saw
  BY TheKeyType
<1>2. adm[a].to \in Code /\ TheKey(a)[1] \in providers /\ adm[a].saw[TheKey(a)] \in AuditRow
  BY <1>1, AdminOf DEF AdminFits
<1>3. QED BY <1>2 DEF ReachKey, AuditRow, TypeInv, DbTypeOK

LEMMA MapStep == TypeInv /\ MapInv /\ [Next]_vars => MapInv'
<1> SUFFICES ASSUME TypeInv, MapInv, [Next]_vars PROVE MapInv'
  OBVIOUS
<1> DEFINE Done(a) ==
      adm'[a].pc = "map" /\ adm'[a].at = epoch' =>
        \A s \in adm'[a].saw[TheKey(a)'].services \ adm'[a].todo :
            HasRow(<<adm[a].to, TheKey(a)[1], s>>)'
<1>1. ASSUME RowsStay, epoch' = epoch, NEW a \in Admin, adm'[a] = adm[a] PROVE Done(a)
  <2> SUFFICES ASSUME adm[a].pc = "map", adm[a].at = epoch,
                      NEW s \in adm[a].saw[TheKey(a)].services \ adm[a].todo
               PROVE  HasRow(<<adm[a].to, TheKey(a)[1], s>>)'
    BY <1>1 DEF TheKey
  <2>1. HasRow(<<adm[a].to, TheKey(a)[1], s>>)
    BY DEF MapInv, HasRow
  <2>2. <<adm[a].to, TheKey(a)[1], s>> \in ReachKey
    BY MapKeyType
  <2>3. TheKey(a)' = TheKey(a)
    BY <1>1 DEF TheKey
  <2>4. QED BY <1>1, <2>1, <2>2, <2>3 DEF RowsStay, HasRow
<1>2. ASSUME NEW a \in Admin, AdminStep(a) PROVE MapInv'
  <2>1. epoch' = epoch
    BY <1>2, AdminLeaves
  <2>2. RowsStay
    BY <2>1, RowsStayOrReset DEF ResetDatabase, TypeInv, DbTypeOK
  <2>3. ASSUME NEW s \in Service, MapService(a, s) PROVE Done(a)
    <3> SUFFICES ASSUME adm[a].at = epoch,
                        NEW t \in adm[a].saw[TheKey(a)].services \ (adm[a].todo \ {s})
                 PROVE  HasRow(<<adm[a].to, TheKey(a)[1], t>>)'
      BY <2>1, <2>3, MapServiceFrame
    <3>1. adm[a].pc = "map" /\ TheKey(a)' = TheKey(a) /\ adm'[a].to = adm[a].to
      BY <2>3, MapServiceFrame
    <3>2. CASE t = s
      <4>1. HasRow(<<adm[a].to, TheKey(a)[1], s>>)'
        <5>1. PICK x \in ReachKey, f \in File : x = <<adm[a].to, TheKey(a)[1], s>> /\ PutRow(x, f)
          BY <2>3, MapPuts
        <5>2. reach'[x] # Null
          BY <5>1, Constants DEF PutRow, TypeInv, DbTypeOK
        <5>3. QED BY <3>1, <5>1, <5>2 DEF HasRow
      <4>2. QED BY <3>2, <4>1
    <3>3. CASE t # s
      <4>1. HasRow(<<adm[a].to, TheKey(a)[1], t>>)
        BY <3>1, <3>3 DEF MapInv, HasRow
      <4>2. <<adm[a].to, TheKey(a)[1], t>> \in ReachKey
        BY <3>1, MapKeyType
      <4>3. QED BY <2>2, <3>1, <4>1, <4>2 DEF RowsStay, HasRow
    <3>4. QED BY <3>2, <3>3
  <2>4. ASSUME NEW k \in AuditKey, adm'[a].saw = Seen({k}), audit[k] # Null,
               adm'[a].todo = audit[k].services
        PROVE  Done(a)
    <3>1. DOMAIN adm'[a].saw = {k} /\ adm'[a].saw[k] = audit[k]
      BY <2>4, SeenType
    <3>2. TheKey(a)' = k
      BY <3>1 DEF TheKey
    <3>3. QED BY <2>4, <3>1, <3>2
  <2>5. Done(a)
    <3>1. adm'[a].pc # "map" => Done(a)
      OBVIOUS
    <3> HIDE DEF Done
    <3>2. QED BY <1>2, <2>3, <2>4, <3>1, AdminFrame
  <2>6. ASSUME NEW b \in Admin \ {a} PROVE Done(b)
    BY <1>1, <1>2, <2>1, <2>2, AdminFrame
  <2>7. QED BY <2>5, <2>6 DEF MapInv, HasRow
<1>3. ASSUME RowsStay, UNCHANGED <<adm, epoch>> PROVE MapInv'
  BY <1>1, <1>3 DEF MapInv, HasRow
<1>4. CASE ResetDatabase
  <2>1. \A a \in Admin : adm[a].at \in Nat /\ adm[a].at <= epoch
    BY AdminOf DEF AdminRecord, AdminFits
  <2>2. adm' = adm /\ epoch' = epoch + 1 /\ epoch \in Nat
    BY <1>4 DEF ResetDatabase, TypeInv, DbTypeOK
  <2>3. \A a \in Admin : adm'[a].at # epoch'
    BY <2>1, <2>2
  <2>4. QED BY <2>3 DEF MapInv
<1>5. CASE Crash
  BY <1>5 DEF Crash, MapInv, IdleAdmin
<1>6. ASSUME (\E r \in Upload : UploadStep(r)) \/ (\E x \in Ir21 : LoadIr21(x[1], x[2]))
               \/ PurgeReachlist \/ UNCHANGED vars
      PROVE  MapInv'
  <2>1. UNCHANGED <<adm, epoch>>
    BY <1>6, UploadLeaves DEF LoadIr21, PurgeReachlist, vars, db
  <2>2. RowsStay
    BY <2>1, RowsStayOrReset DEF ResetDatabase, TypeInv, DbTypeOK
  <2>3. QED BY <1>3, <2>1, <2>2
<1>7. QED BY <1>2, <1>4, <1>5, <1>6 DEF Next

(* The mark comes last, on rows that are all there. *)
LEMMA DecidedStep == TypeInv /\ SawInv /\ MapInv /\ DecidedInv /\ [Next]_vars => DecidedInv'
<1> SUFFICES ASSUME TypeInv, SawInv, MapInv, DecidedInv, [Next]_vars PROVE DecidedInv'
  OBVIOUS
<1>1. CASE ResetDatabase
  BY <1>1 DEF ResetDatabase, DecidedInv
<1>2. CASE ~ResetDatabase
  <2>1. RowsStay /\ TypeInv'
    BY <1>2, RowsStayOrReset, TypeStep
  <2> DEFINE Then(x) == reach'[x] # Null \/ x \in wiped'
  <2> DEFINE Right(k) ==
        audit'[k] # Null /\ audit'[k].status = "MANUALLY_OVERRIDDEN" =>
            /\ audit'[k].mno # Null
            /\ k \notin overtaken' =>
                 \A s \in audit'[k].services : Then(<<audit'[k].mno, k[1], s>>)
  <2>2. ASSUME NEW k \in AuditKey, audit'[k] = audit[k], overtaken \subseteq overtaken' PROVE Right(k)
    <3> SUFFICES ASSUME audit[k] # Null, audit[k].status = "MANUALLY_OVERRIDDEN"
                 PROVE  /\ audit[k].mno # Null
                        /\ k \notin overtaken' =>
                             \A s \in audit[k].services : Then(<<audit[k].mno, k[1], s>>)
      BY <2>2
    <3>1. audit[k].mno # Null /\ (k \notin overtaken' =>
             \A s \in audit[k].services : HasRow(<<audit[k].mno, k[1], s>>))
      BY <2>2 DEF DecidedInv
    <3>2. audit[k] \in AuditRow
      BY DEF TypeInv, DbTypeOK
    <3>3. \A s \in audit[k].services : <<audit[k].mno, k[1], s>> \in ReachKey
      BY <3>1, <3>2, AuditKeyType DEF AuditRow, ReachKey
    <3>4. ASSUME NEW s \in audit[k].services, HasRow(<<audit[k].mno, k[1], s>>)
          PROVE  Then(<<audit[k].mno, k[1], s>>)
      <4>1. PICK x \in ReachKey : x = <<audit[k].mno, k[1], s>>
        BY <3>3
      <4>2. Then(x)
        BY <2>1, <3>4, <4>1 DEF RowsStay, HasRow
      <4>3. QED BY <2>2, <4>1, <4>2 DEF HasRow
    <3>5. QED BY <3>1, <3>4
  <2> HIDE DEF Right
  <2>3. ASSUME UNCHANGED <<audit, overtaken>> PROVE DecidedInv'
    <3>1. \A k \in AuditKey : Right(k)
      BY <2>2, <2>3
    <3>2. QED BY <3>1, Zenon DEF DecidedInv, Right, HasRow
  <2>4. ASSUME NEW r \in Upload, WriteAudit(r) PROVE DecidedInv'
    <3>1. PICK j : j = AuditOf(r)
      OBVIOUS
    <3>2. PICK e : e = Recorded(r)
      OBVIOUS
    <3>3. audit' = [audit EXCEPT ![j] = e] /\ overtaken \subseteq overtaken'
          /\ e.status \in {"PENDING_REVIEW", "ALIAS_MATCHED"}
      BY <2>4, <3>1, <3>2, RecordedType DEF WriteAudit
    <3>4. ASSUME NEW k \in AuditKey PROVE Right(k)
      <4>1. CASE k = j
        BY <3>3, <4>1 DEF Right, TypeInv, DbTypeOK
      <4>2. CASE k # j
        BY <2>2, <3>3, <4>2 DEF TypeInv, DbTypeOK
      <4>3. QED BY <4>1, <4>2
    <3>5. QED BY <3>4, Zenon DEF DecidedInv, Right, HasRow
  <2>5. ASSUME NEW a \in Admin, AdminStep(a) PROVE DecidedInv'
    <3>1. overtaken' = overtaken
      BY <2>5, AdminLeaves
    <3>2. ASSUME NEW k \in AuditKey, CommitMapping(a) \/ CommitNewMnos(a) PROVE Right(k)
      <4>1. PICK to, rows : Mapping(a, to, rows)
        BY <3>2, MappingRows
      <4>2. audit'[k] = IF k \in DOMAIN to THEN Overridden(audit[k], to[k]) ELSE audit[k]
        BY <4>1 DEF Mapping
      <4>3. CASE k \in DOMAIN to
        <5>1. /\ to[k] \in Code /\ k \in DOMAIN adm[a].saw /\ Alive(k, adm[a].saw[k])
              /\ audit[k] \in AuditRow
          BY <4>1, <4>3 DEF Mapping, Alive, TypeInv, DbTypeOK
        <5>2. /\ audit'[k].mno = to[k] /\ audit'[k].services = audit[k].services /\ to[k] # Null
          BY <4>2, <4>3, <5>1, OverriddenType, Constants
        <5>3. adm[a].pc # "idle"
          BY <3>2 DEF CommitMapping, CommitNewMnos
        <5>4. k \notin overtaken => audit[k].services = adm[a].saw[k].services
          BY <5>1, <5>3 DEF SawInv
        <5>5. ASSUME k \notin overtaken, NEW s \in audit[k].services
              PROVE  Then(<<to[k], k[1], s>>)
          <6>1. PICK x : x = <<to[k], k[1], s>>
            OBVIOUS
          <6>2. x \in RowsOf(a, to, k)
            BY <5>4, <5>5, <6>1 DEF RowsOf
          <6>3. x \in rows
            BY <4>1, <4>3, <6>2 DEF Mapping
          <6>4. Then(x)
            BY <4>1, <6>3, MappingStays DEF HasRow
          <6>5. QED BY <6>1, <6>4 DEF HasRow
        <5>6. QED BY <3>1, <5>2, <5>5 DEF Right, HasRow
      <4>4. CASE k \notin DOMAIN to
        BY <2>2, <3>1, <4>2, <4>4
      <4>5. QED BY <4>3, <4>4
    <3>3. ASSUME NEW k \in AuditKey, MarkOverridden(a) PROVE Right(k)
      <4>1. PICK j : j = TheKey(a)
        OBVIOUS
      <4>2. /\ j \in AuditKey /\ j \in DOMAIN adm[a].saw /\ audit[j] \in AuditRow
            /\ adm[a].to \in Code /\ adm[a].pc = "map" /\ adm[a].at = epoch /\ adm[a].todo = {}
            /\ Alive(j, adm[a].saw[j])
        BY <3>3, <4>1, TheKeyType, AdminOf
           DEF MarkOverridden, MayMark, Alive, TypeInv, DbTypeOK, AdminFits
      <4>3. audit' = [audit EXCEPT ![j] = Overridden(audit[j], adm[a].to)]
        BY <3>3, <4>1, <4>2 DEF MarkOverridden, TypeInv, DbTypeOK
      <4>4. CASE k # j
        BY <2>2, <3>1, <4>3, <4>4 DEF TypeInv, DbTypeOK
      <4>5. CASE k = j
        <5>1. /\ audit'[j].mno = adm[a].to /\ audit'[j].services = audit[j].services
              /\ adm[a].to # Null
          BY <4>2, <4>3, OverriddenType, Constants DEF TypeInv, DbTypeOK
        <5>2. j \notin overtaken => audit[j].services = adm[a].saw[j].services
          BY <4>2 DEF SawInv
        <5>3. ASSUME j \notin overtaken, NEW s \in audit[j].services
              PROVE  Then(<<audit'[j].mno, j[1], s>>)
          <6>1. PICK x : x = <<adm[a].to, j[1], s>>
            OBVIOUS
          <6>2. s \in adm[a].saw[TheKey(a)].services \ adm[a].todo
            BY <4>1, <4>2, <5>2, <5>3
          <6>3. HasRow(x) /\ x \in ReachKey
            BY <4>1, <4>2, <6>1, <6>2, MapKeyType DEF MapInv, HasRow
          <6>4. Then(x)
            BY <2>1, <6>3 DEF RowsStay, HasRow
          <6>5. QED BY <5>1, <6>1, <6>4 DEF HasRow
        <5>4. QED BY <3>1, <4>5, <5>1, <5>3 DEF Right
      <4>6. QED BY <4>4, <4>5
    <3>4. ASSUME NEW k \in AuditKey, CommitIgnore(a) PROVE Right(k)
      <4>1. audit'[k] = IF k \in Open(a) THEN [audit[k] EXCEPT !.status = "IGNORED"] ELSE audit[k]
        BY <3>4 DEF CommitIgnore
      <4>2. CASE k \in Open(a)
        <5>1. audit[k] \in AuditRow
          BY <3>4, <4>2 DEF CommitIgnore, Alive, TypeInv, DbTypeOK
        <5>2. audit'[k].status = "IGNORED"
          BY <4>1, <4>2, <5>1 DEF AuditRow
        <5>3. QED BY <5>2 DEF Right
      <4>3. CASE k \notin Open(a)
        BY <2>2, <3>1, <4>1, <4>3
      <4>4. QED BY <4>2, <4>3
    <3>5. ASSUME NEW k \in AuditKey, CommitDelete(a) PROVE Right(k)
      <4>1. audit'[k] = Null \/ audit'[k] = audit[k]
        BY <3>5 DEF CommitDelete
      <4>2. audit'[k] = Null => Right(k)
        BY DEF Right
      <4>3. QED BY <2>2, <3>1, <4>1, <4>2
    <3>6. ASSUME NEW k \in AuditKey PROVE Right(k)
      BY <2>2, <2>5, <3>1, <3>2, <3>3, <3>4, <3>5, AdminLeaves
    <3>7. QED BY <3>6, Zenon DEF DecidedInv, Right, HasRow
  <2>6. ASSUME NEW r \in Upload, UploadStep(r) PROVE DecidedInv'
    BY <2>3, <2>4, <2>6, UploadLeaves
  <2>7. ASSUME (\E x \in Ir21 : LoadIr21(x[1], x[2])) \/ PurgeReachlist \/ Crash \/ UNCHANGED vars
        PROVE  DecidedInv'
    <3>1. UNCHANGED <<audit, overtaken>>
      BY <2>7 DEF LoadIr21, PurgeReachlist, Crash, vars, db, observers
    <3>2. QED BY <2>3, <3>1
  <2>8. QED BY <1>2, <2>5, <2>6, <2>7 DEF Next
<1>3. QED BY <1>1, <1>2

(* An entry marked resolved has its rows: whatever fails, dies or runs beside   *)
(* it, the mark comes last.  But for rows a replacement or a purge deleted      *)
(* since, and for entries an upload added to while they were being resolved     *)
(* (mno-normalization.service.ts:76-119, 185-201, 249-268).                     *)
THEOREM OverriddenAreApplied == Spec => []OverriddenIsApplied
<1> DEFINE Inv == TypeInv /\ SawInv /\ MapInv /\ DecidedInv
<1>1. Init => Inv
  <2>1. Init => SawInv /\ MapInv
    BY DEF Init, SawInv, MapInv, IdleAdmin
  <2>2. Init => DecidedInv
    BY DEF Init, DecidedInv
  <2>3. QED BY <2>1, <2>2, InitTypes
<1>2. Inv /\ [Next]_vars => Inv'
  BY TypeStep, SawStep, MapStep, DecidedStep
<1>3. Inv => OverriddenIsApplied
  BY DEF DecidedInv, OverriddenIsApplied, HasRow
<1> HIDE DEF Inv
<1>4. QED BY <1>1, <1>2, <1>3, PTL DEF Spec

-----------------------------------------------------------------------------
(* An upload that nothing runs beside.                                         *)

(* Its own steps, but for its first and its last. *)
AloneStep(r) ==
    \/ \E f \in File : NextFile(r, f)
    \/ DeleteOldRows(r) \/ ReadRoster(r)
    \/ \E row \in Row : TakeRow(r, row)
    \/ FindMnoByName(r) \/ CreateProvider(r) \/ RegisterAlias(r)
    \/ FindAudit(r) \/ WriteAudit(r)
    \/ \E s \in Service : UpsertRow(r, s)
    \/ FinishFile(r) /\ up[r].kind = "zip"

(* Its first one. *)
AloneStart(r) ==
    /\ Busy = {}
    /\ \/ \E kind \in {"sheet", "matrix"}, replace \in BOOLEAN, f \in File :
             StartUpload(r, kind, replace, f)
       \/ \E replace \in BOOLEAN : StartArchive(r, replace)

LEMMA StartedAlone ==
    ASSUME TypeInv, NEW r \in Upload, NEW u, Start(r, u)
    PROVE  /\ alone' = (IF Busy = {} THEN {r} ELSE {}) /\ up[r].pc = "idle" /\ up'[r] = u
           /\ \A o \in Upload \ {r} : up'[o] = up[o]
BY DEF Start, TypeInv, UpTypeOK

(* Others that run do not leave it alone. *)
LEMMA AloneCases ==
    ASSUME TypeInv, AloneInv, [Next]_vars, NEW r \in alone'
    PROVE  /\ r \in Upload
           /\ AloneStart(r) \/ (r \in alone /\ (AloneStep(r) \/ UNCHANGED vars))
<1>1. ASSUME NEW o \in Upload, NEW kind \in {"sheet", "matrix"}, NEW replace \in BOOLEAN,
             NEW f \in File, StartUpload(o, kind, replace, f)
      PROVE  r = o /\ AloneStart(r)
  <2>1. alone' = (IF Busy = {} THEN {o} ELSE {})
    BY <1>1, StartedAlone DEF StartUpload
  <2>2. QED BY <1>1, <2>1 DEF AloneStart
<1>2. ASSUME NEW o \in Upload, NEW replace \in BOOLEAN, StartArchive(o, replace)
      PROVE  r = o /\ AloneStart(r)
  <2>1. alone' = (IF Busy = {} THEN {o} ELSE {})
    BY <1>2, StartedAlone DEF StartArchive
  <2>2. QED BY <1>2, <2>1 DEF AloneStart
<1>3. ASSUME NEW o \in Upload,
             \/ \E f \in File : NextFile(o, f)
             \/ DeleteOldRows(o) \/ ReadRoster(o)
             \/ \E row \in Row : TakeRow(o, row)
             \/ FindMnoByName(o) \/ CreateProvider(o) \/ RegisterAlias(o)
             \/ FindAudit(o) \/ WriteAudit(o)
             \/ \E s \in Service : UpsertRow(o, s)
      PROVE  alone' = alone /\ up[o].pc # "idle"
  BY <1>3 DEF NextFile, DeleteOldRows, ReadRoster, TakeRow, FindMnoByName, CreateProvider,
     RegisterAlias, FindAudit, WriteAudit, UpsertRow, observers
<1>4. ASSUME NEW o \in Upload, FinishFile(o)
      PROVE  /\ up[o].pc # "idle"
             /\ alone' = IF up[o].kind = "zip" THEN alone ELSE alone \ {o}
  BY <1>4 DEF FinishFile
<1>5. ASSUME NEW o \in Upload, FinishArchive(o) \/ UploadFails(o)
      PROVE  up[o].pc # "idle" /\ alone' = alone \ {o}
  BY <1>5 DEF FinishArchive, UploadFails
<1>6. ASSUME NEW o \in Upload, up[o].pc # "idle", r \in alone PROVE o = r
  BY <1>6 DEF AloneInv
<1>7. ASSUME NEW o \in Upload, UploadStep(o)
      PROVE  r = o /\ (AloneStart(r) \/ (r \in alone /\ AloneStep(r)))
  BY <1>1, <1>2, <1>3, <1>4, <1>5, <1>6, <1>7 DEF UploadStep, AloneStep
<1>8. ASSUME NEW a \in Admin, AdminStep(a) PROVE FALSE
  <2>1. ASSUME NEW f, StartEdit(a, f) PROVE alone' = {}
    BY <2>1 DEF StartEdit
  <2>2. ASSUME adm[a].pc # "idle", alone' = alone PROVE FALSE
    BY <2>2 DEF AloneInv
  <2>3. ASSUME \/ \E k \in AuditKey, m \in Code : StartResolve(a, k, m)
               \/ \E op \in {"delete", "create", "group", "map", "accept", "ignore"},
                     K \in Selection, m \in Code \cup {Null} : StartBulk(a, op, K, m)
               \/ \E m \in Code, C \in SUBSET (Code \ Pool) : StartSecondary(a, m, C)
        PROVE  alone' = {}
    BY <2>1, <2>3 DEF StartResolve, StartBulk, StartSecondary
  <2>4. ASSUME \/ \E s \in Service : MapService(a, s)
               \/ MarkOverridden(a) \/ CommitMapping(a) \/ CommitNewMnos(a)
               \/ CommitIgnore(a) \/ CommitDelete(a) \/ WriteSecondary(a) \/ EditFails(a)
        PROVE  adm[a].pc # "idle" /\ alone' = alone
    BY <2>4 DEF MapService, MarkOverridden, CommitMapping, CommitNewMnos, CommitIgnore,
       CommitDelete, WriteSecondary, EditFails, observers
  <2>5. QED BY <1>8, <2>2, <2>3, <2>4 DEF AdminStep
<1>9. ASSUME (\E x \in Ir21 : LoadIr21(x[1], x[2])) \/ PurgeReachlist \/ ResetDatabase \/ Crash
      PROVE  alone' = {}
  BY <1>9 DEF LoadIr21, PurgeReachlist, ResetDatabase, Crash
<1>10. UNCHANGED vars => r \in alone /\ r \in Upload
  BY DEF vars, observers, TypeInv, DbTypeOK
<1>11. QED BY <1>7, <1>8, <1>9, <1>10 DEF Next

SameFile(u, v) ==
    /\ v.kind = u.kind /\ v.replace = u.replace /\ v.file = u.file /\ v.batch = u.batch
    /\ v.roster = u.roster /\ v.rosterAt = u.rosterAt /\ v.rows = u.rows
    /\ v.seen = u.seen /\ v.loaded = u.loaded

SameRow(u, v) == v.row = u.row /\ v.code = u.code /\ v.mno = u.mno

LEMMA AtCarrierMoves ==
    ASSUME NEW u \in UploadRecord, RowFits(u), NEW v, v = AtCarrier(u)
    PROVE  /\ v \in UploadRecord /\ SameFile(u, v) /\ SameRow(u, v) /\ v.carriers = u.carriers
           /\ v.services = u.row.services /\ v.pc \in {"create", "upsert", "find"}
<1>1. u.row.services \subseteq Service
  BY RowType DEF RowFits
<1>2. PICK c : c = v.pc
  OBVIOUS
<1>3. v = [u EXCEPT !.services = u.row.services, !.pc = c] /\ c \in {"create", "upsert", "find"}
  <2>1. CASE ~Known(u, Head(u.carriers))
    BY <1>1, <1>2, <2>1 DEF AtCarrier, UploadRecord
  <2>2. CASE Known(u, Head(u.carriers)) /\ u.exact
    BY <1>1, <1>2, <2>2 DEF AtCarrier, UploadRecord
  <2>3. CASE Known(u, Head(u.carriers)) /\ ~u.exact
    BY <1>1, <1>2, <2>3 DEF AtCarrier, UploadRecord
  <2>4. QED BY <2>1, <2>2, <2>3
<1>4. v \in UploadRecord
  BY <1>1, <1>3 DEF UploadRecord, UploadPhase
<1>5. SameFile(u, v)
  BY <1>3 DEF UploadRecord, SameFile
<1>6. SameRow(u, v) /\ v.carriers = u.carriers /\ v.services = u.row.services
  BY <1>3 DEF UploadRecord, SameRow
<1>7. QED BY <1>2, <1>3, <1>4, <1>5, <1>6

LEMMA NextCarrierMoves ==
    ASSUME NEW u \in UploadRecord, RowFits(u), NEW v, v = NextCarrier(u)
    PROVE  /\ SameFile(u, v)
           /\ \/ /\ Tail(u.carriers) # <<>> /\ SameRow(u, v) /\ v.carriers = Tail(u.carriers)
                 /\ v.services = u.row.services /\ v.pc \in {"create", "upsert", "find"}
              \/ /\ Tail(u.carriers) = <<>> /\ v.pc = "rows" /\ v.carriers = <<>>
<1>1. u.carriers \in Seq(Provider) /\ u.carriers # <<>>
  BY DEF RowFits, UploadRecord
<1>2. Len(u.carriers) > 1 <=> Tail(u.carriers) # <<>>
  BY <1>1, SequenceFacts
<1>3. CASE Len(u.carriers) > 1
  <2>1. PICK w : w = [u EXCEPT !.carriers = Tail(u.carriers), !.found = Null]
    OBVIOUS
  <2>2. Tail(u.carriers) \in Seq(Provider) /\ Tail(u.carriers) # <<>>
        /\ Elems(Tail(u.carriers)) \subseteq Elems(u.carriers)
    BY <1>1, <1>3, SequenceFacts
  <2>3. w \in UploadRecord
    BY <2>1, <2>2 DEF UploadRecord
  <2>4. RowFits(w)
    BY <2>1, <2>2 DEF RowFits, UploadRecord
  <2>5. v = AtCarrier(w)
    BY <1>3, <2>1 DEF NextCarrier
  <2>6. SameFile(u, w) /\ SameRow(u, w) /\ w.carriers = Tail(u.carriers)
    BY <2>1 DEF SameFile, SameRow, UploadRecord
  <2>7. SameFile(w, v) /\ SameRow(w, v) /\ v.carriers = w.carriers
        /\ v.services = w.row.services /\ v.pc \in {"create", "upsert", "find"}
    BY <2>3, <2>4, <2>5, AtCarrierMoves
  <2>8. QED BY <1>2, <1>3, <2>6, <2>7 DEF SameFile, SameRow
<1>4. CASE ~(Len(u.carriers) > 1)
  <2>1. v = [u EXCEPT !.pc = "rows", !.row = Null, !.code = Null, !.mno = Null, !.at = 0,
                   !.exact = FALSE, !.carriers = <<>>, !.services = {}, !.found = Null]
    BY <1>4 DEF NextCarrier
  <2>2. SameFile(u, v) /\ v.pc = "rows" /\ v.carriers = <<>>
    BY <2>1 DEF SameFile, UploadRecord
  <2>3. QED BY <1>2, <1>4, <2>2
<1>5. QED BY <1>3, <1>4

(* A row that has its place. *)
Placed(u) ==
    /\ u.kind = "zip" => u.batch = mnos
    /\ u.roster = mnos /\ u.rosterAt = epoch
    /\ u.row \in u.rows /\ u.code = CodeNow(u.kind, u.row)
    /\ IF u.mno = Null THEN PlaceNow(u.kind, u.row) = {} ELSE u.mno \in PlaceNow(u.kind, u.row)

LEMMA SteadyIsPlaced ==
    ASSUME NEW u, Steady(u), u.pc \in CarrierPhase
    PROVE  Placed(u)
BY DEF Steady, Placed, CarrierPhase, RowPhase

LEMMA AtCarrierSteady ==
    ASSUME NEW u \in UploadRecord, RowFits(u), Placed(u), NEW v, v = AtCarrier(u)
    PROVE  Steady(v) /\ FoundFits(v)
<1>1. /\ SameFile(u, v) /\ SameRow(u, v) /\ v.services = u.row.services
      /\ v.pc \in {"create", "upsert", "find"}
  BY AtCarrierMoves
<1>2. Steady(v)
  BY <1>1 DEF SameFile, SameRow, Placed, Steady, RowPhase, CarrierPhase
<1>3. QED BY <1>1, <1>2 DEF FoundFits

LEMMA NextCarrierSteady ==
    ASSUME NEW u \in UploadRecord, RowFits(u), Placed(u), NEW v, v = NextCarrier(u)
    PROVE  Steady(v) /\ FoundFits(v)
<1>1. CASE Tail(u.carriers) # <<>>
  <2>1. /\ SameFile(u, v) /\ SameRow(u, v) /\ v.services = u.row.services
        /\ v.pc \in {"create", "upsert", "find"}
    BY <1>1, NextCarrierMoves
  <2>2. Steady(v)
    BY <2>1 DEF SameFile, SameRow, Placed, Steady, RowPhase, CarrierPhase
  <2>3. QED BY <2>1, <2>2 DEF FoundFits
<1>2. CASE Tail(u.carriers) = <<>>
  <2>1. SameFile(u, v) /\ v.pc = "rows" /\ v.carriers = <<>>
    BY <1>2, NextCarrierMoves
  <2>2. Steady(v)
    BY <2>1 DEF SameFile, Placed, Steady, RowPhase, CarrierPhase
  <2>3. QED BY <2>1, <2>2 DEF FoundFits
<1>3. QED BY <1>1, <1>2

(* What goes on in unchanged tables goes on fitting. *)
LEMMA PlaceStays ==
    ASSUME UNCHANGED <<mnos, secondary>>, NEW kind, NEW row
    PROVE  /\ CodeNow(kind, row)' = CodeNow(kind, row)
           /\ PlaceNow(kind, row)' = PlaceNow(kind, row)
<1>1. ASSUME NEW n PROVE ByName(mnos, n)' = ByName(mnos, n)
  BY DEF ByName
<1>2. ASSUME NEW c PROVE Holders(c)' = Holders(c)
  BY DEF Holders, Registered
<1>3. CodeNow(kind, row)' = CodeNow(kind, row)
  BY <1>1 DEF CodeNow
<1>4. QED BY <1>1, <1>2, <1>3 DEF PlaceNow

LEMMA SteadyStays ==
    ASSUME UNCHANGED <<mnos, secondary, epoch>>, NEW u, Steady(u)
    PROVE  Steady(u)'
<1>1. ASSUME NEW c PROVE Holders(c)' = Holders(c)
  BY DEF Holders, Registered
<1>2. QED BY <1>1, PlaceStays DEF Steady

LEMMA QueueStays ==
    ASSUME UNCHANGED <<mnos, secondary, audit>>, NEW u, QueueFits(u)
    PROVE  QueueFits(u)'
BY PlaceStays DEF QueueFits, Queued

LEMMA LoadStays ==
    ASSUME UNCHANGED <<mnos, secondary, reach>>, NEW u, LoadFits(u)
    PROVE  LoadFits(u)'
<1>1. FileRows(u.file)' = FileRows(u.file)
  BY DEF FileRows
<1>2. ASSUME NEW p, NEW s PROVE Outstanding(u, p, s)' = Outstanding(u, p, s)
  BY DEF Outstanding
<1>3. QED BY <1>1, <1>2, PlaceStays DEF LoadFits, Outstanding

LEMMA AtCarrierAgain ==
    ASSUME TypeInv, NEW u \in UploadRecord, UploadFits(u), u.pc = "upsert", Steady(u), NEW s,
           NEW v, v = NextService(u, s)
    PROVE  Steady(v) /\ FoundFits(v)
<1>1. RowFits(u) /\ Placed(u)
  BY FitsInRow, SteadyIsPlaced DEF RowPhase, CarrierPhase
<1>2. CASE u.services \ {s} = {}
  BY <1>1, <1>2, NextCarrierSteady DEF NextService
<1>3. CASE u.services \ {s} # {}
  <2>1. PICK rest : rest = u.services \ {s}
    OBVIOUS
  <2>2. v = [u EXCEPT !.services = rest]
    BY <1>3, <2>1 DEF NextService
  <2>3. SameFile(u, v) /\ SameRow(u, v) /\ v.services = rest /\ v.pc = "upsert"
    BY <2>2 DEF SameFile, SameRow, UploadRecord
  <2>4. rest \subseteq u.row.services
    BY <2>1 DEF Steady, CarrierPhase, RowPhase
  <2>5. Steady(v)
    BY <1>1, <2>3, <2>4 DEF SameFile, SameRow, Placed, Steady, RowPhase, CarrierPhase
  <2>6. QED BY <2>3, <2>5 DEF FoundFits
<1>4. QED BY <1>2, <1>3

LEMMA AfterAuditMoves ==
    ASSUME NEW u \in UploadRecord, RowFits(u), NEW v, v = AfterAudit(u)
    PROVE  \/ u.mno = Null /\ v = NextCarrier(u)
           \/ /\ u.mno # Null /\ SameFile(u, v) /\ SameRow(u, v) /\ v.carriers = u.carriers
              /\ v.services = u.services /\ v.pc = "upsert"
<1>1. CASE u.mno = Null
  BY <1>1 DEF AfterAudit
<1>2. CASE u.mno # Null
  <2>1. v = [u EXCEPT !.pc = "upsert"]
    BY <1>2 DEF AfterAudit
  <2>2. QED BY <1>2, <2>1 DEF SameFile, SameRow, UploadRecord
<1>3. QED BY <1>1, <1>2

LEMMA AfterAuditSteady ==
    ASSUME NEW u \in UploadRecord, RowFits(u), u.pc \in CarrierPhase, Steady(u),
           NEW v, v = AfterAudit(u)
    PROVE  Steady(v) /\ FoundFits(v)
<1>1. Placed(u) /\ u.services \subseteq u.row.services
  BY SteadyIsPlaced DEF Steady
<1>2. CASE v = NextCarrier(u)
  BY <1>1, <1>2, NextCarrierSteady
<1>3. CASE SameFile(u, v) /\ SameRow(u, v) /\ v.services = u.services /\ v.pc = "upsert"
  <2>1. Steady(v)
    BY <1>1, <1>3 DEF SameFile, SameRow, Placed, Steady, RowPhase, CarrierPhase
  <2>2. QED BY <1>3, <2>1 DEF FoundFits
<1>4. QED BY <1>2, <1>3, AfterAuditMoves

(* A file is opened, or an archive begun. *)
Fresh(u) ==
    /\ u.pc \in {"batch", "delete", "roster"} /\ (u.replace => u.pc # "roster")
    /\ u.rows = {} /\ u.seen = {} /\ u.loaded = 0 /\ u.carriers = <<>>
    /\ u.kind = "zip" => u.batch = mnos

LEMMA FreshFits ==
    ASSUME NEW u, Fresh(u)
    PROVE  Steady(u) /\ FoundFits(u) /\ QueueFits(u) /\ LoadFits(u)
<1>1. Steady(u) /\ FoundFits(u)
  BY DEF Fresh, Steady, FoundFits, RowPhase, CarrierPhase
<1>2. QueueFits(u)
  BY DEF Fresh, QueueFits
<1>3. LoadFits(u)
  BY DEF Fresh, LoadFits, RowPhase
<1>4. QED BY <1>1, <1>2, <1>3

LEMMA OpenedFresh ==
    ASSUME NEW u \in UploadRecord, NEW f, u.rows = {}, u.seen = {}, u.loaded = 0,
           u.carriers = <<>>, u.kind = "zip" => u.batch = mnos
    PROVE  Fresh(Opened(u, f))
<1>1. PICK p : p = IF u.replace THEN "delete" ELSE "roster"
  OBVIOUS
<1>2. PICK v : v = Opened(u, f)
  OBVIOUS
<1>3. v = [u EXCEPT !.pc = p, !.file = f, !.files = u.files + 1, !.names = providers]
  BY <1>1, <1>2 DEF Opened
<1>4. /\ v.pc = p /\ v.rows = u.rows /\ v.seen = u.seen /\ v.loaded = u.loaded
      /\ v.carriers = u.carriers /\ v.kind = u.kind /\ v.batch = u.batch /\ v.replace = u.replace
  BY <1>3 DEF UploadRecord
<1>5. QED BY <1>1, <1>2, <1>4 DEF Fresh

LEMMA StartFresh ==
    ASSUME TypeInv, NEW r \in Upload, AloneStart(r), NEW v, v = up'[r]
    PROVE  /\ Fresh(v) /\ UNCHANGED <<mnos, secondary, epoch, audit, reach>>
           /\ \A o \in Upload \ {r} : up'[o] = up[o] /\ up[o].pc = "idle"
           /\ adm' = adm /\ \A a \in Admin : adm[a].pc = "idle"
           /\ alone' = {r}
<1>1. PICK u : Start(r, u)
  BY DEF AloneStart, StartUpload, StartArchive
<1>2. /\ UNCHANGED <<mnos, secondary, epoch, audit, reach>> /\ adm' = adm /\ alone' = {r}
      /\ \A o \in Upload \ {r} : up'[o] = up[o] /\ up[o].pc = "idle"
      /\ \A a \in Admin : adm[a].pc = "idle"
  BY <1>1, StartedAlone DEF AloneStart, Start, Busy, db
<1>3. PICK i : i = IdleUpload
  OBVIOUS
<1>4. /\ i \in UploadRecord /\ i.rows = {} /\ i.seen = {} /\ i.loaded = 0 /\ i.carriers = <<>>
      /\ i.kind = "sheet"
  BY <1>3, IdleTypes DEF IdleUpload
<1>5. ASSUME NEW kind \in {"sheet", "matrix"}, NEW replace \in BOOLEAN, NEW f \in File,
             StartUpload(r, kind, replace, f)
      PROVE  Fresh(v)
  <2>1. PICK w : w = [i EXCEPT !.kind = kind, !.replace = replace]
    OBVIOUS
  <2>2. /\ w \in UploadRecord /\ w.rows = {} /\ w.seen = {} /\ w.loaded = 0 /\ w.carriers = <<>>
        /\ w.kind = kind
    BY <1>4, <2>1 DEF UploadRecord
  <2>3. v = Opened(w, f)
    BY <1>3, <1>5, <2>1, StartedAlone DEF StartUpload
  <2>4. QED BY <2>2, <2>3, OpenedFresh
<1>6. ASSUME NEW replace \in BOOLEAN, StartArchive(r, replace) PROVE Fresh(v)
  <2>1. v = [i EXCEPT !.pc = "batch", !.kind = "zip", !.replace = replace, !.batch = mnos]
    BY <1>3, <1>6, StartedAlone DEF StartArchive
  <2>2. QED BY <1>4, <2>1 DEF Fresh, UploadRecord
<1>7. QED BY <1>2, <1>5, <1>6 DEF AloneStart

LEMMA AloneLeaves ==
    ASSUME TypeInv, NEW r \in Upload, AloneStep(r)
    PROVE  /\ UNCHANGED <<mnos, secondary, epoch, adm, alone>>
           /\ \A o \in Upload \ {r} : up'[o] = up[o]
           /\ UploadStep(r)
<1>1. UploadStep(r)
  BY DEF AloneStep, UploadStep
<1>2. UNCHANGED <<mnos, secondary, epoch, adm>>
  BY <1>1, UploadLeaves
<1>3. alone' = alone
  BY DEF AloneStep, NextFile, DeleteOldRows, ReadRoster, TakeRow, FindMnoByName, CreateProvider,
     RegisterAlias, FindAudit, WriteAudit, UpsertRow, FinishFile, observers
<1>4. ASSUME NEW o \in Upload \ {r} PROVE up'[o] = up[o]
  <2>1. up \in [Upload -> UploadRecord]
    BY DEF TypeInv, UpTypeOK
  <2>2. ASSUME \E w : up' = [up EXCEPT ![r] = w] PROVE up'[o] = up[o]
    BY <2>1, <2>2
  <2>3. CASE (\E f \in File : NextFile(r, f)) \/ ReadRoster(r) \/ FindMnoByName(r)
              \/ RegisterAlias(r) \/ FindAudit(r) \/ WriteAudit(r) \/ FinishFile(r)
    BY <2>1, <2>3 DEF NextFile, ReadRoster, FindMnoByName, RegisterAlias, FindAudit, WriteAudit,
       FinishFile
  <2>4. CASE DeleteOldRows(r) \/ CreateProvider(r)
    BY <2>1, <2>4 DEF DeleteOldRows, CreateProvider
  <2>5. CASE \E row \in Row : TakeRow(r, row)
    BY <2>1, <2>5 DEF TakeRow
  <2>6. CASE \E s \in Service : UpsertRow(r, s)
    BY <2>1, <2>6 DEF UpsertRow
  <2>7. QED BY <2>3, <2>4, <2>5, <2>6 DEF AloneStep
<1>5. QED BY <1>1, <1>2, <1>3, <1>4

LEMMA LocatedSteady ==
    ASSUME TypeInv, NEW u \in UploadRecord, RowFits(u), u.mno = Null,
           u.kind = "zip" => u.batch = mnos, u.roster = mnos, u.rosterAt = epoch,
           u.row \in u.rows, u.code = CodeNow(u.kind, u.row), NEW v \in Located(u)
    PROVE  Steady(v) /\ FoundFits(v)
<1>1. CASE u.code = Null
  <2>1. v = AtCarrier(u)
    BY <1>1 DEF Located
  <2>2. PlaceNow(u.kind, u.row) = {}
    BY <1>1 DEF PlaceNow
  <2>3. Placed(u)
    BY <2>2 DEF Placed
  <2>4. QED BY <2>1, <2>3, AtCarrierSteady
<1>2. CASE u.code # Null /\ Holders(u.code) = {}
  <2>1. v = [u EXCEPT !.pc = "name"]
    BY <1>2 DEF Located
  <2>2. SameFile(u, v) /\ SameRow(u, v) /\ v.pc = "name"
    BY <2>1 DEF UploadRecord, SameFile, SameRow
  <2>3. Steady(v)
    BY <1>2, <2>2 DEF SameFile, SameRow, Steady, RowPhase, CarrierPhase
  <2>4. QED BY <2>2, <2>3 DEF FoundFits
<1>3. CASE u.code # Null /\ Holders(u.code) # {}
  <2>1. PICK m \in Holders(u.code) : v = AtCarrier([u EXCEPT !.mno = m, !.at = epoch, !.exact = TRUE])
    BY <1>3 DEF Located
  <2>2. PICK w : w = [u EXCEPT !.mno = m, !.at = epoch, !.exact = TRUE]
    OBVIOUS
  <2>3. m \in Code /\ mnos[m] # Null /\ epoch \in Nat /\ m # Null
    BY Constants DEF Holders, Registered, TypeInv, DbTypeOK
  <2>4. w \in UploadRecord
    BY <2>2, <2>3, WithOperator
  <2>5. /\ SameFile(u, w) /\ w.names = u.names /\ w.at = epoch /\ w.mno = m
        /\ w.row = u.row /\ w.code = u.code /\ w.carriers = u.carriers
    BY <2>2 DEF UploadRecord, SameFile
  <2>6. RowFits(w)
    BY <2>3, <2>5 DEF RowFits, SameFile
  <2>7. m \in PlaceNow(u.kind, u.row)
    BY <1>3 DEF PlaceNow
  <2>8. Placed(w)
    BY <2>3, <2>5, <2>7 DEF Placed, SameFile
  <2>9. QED BY <2>1, <2>2, <2>4, <2>6, <2>8, AtCarrierSteady
<1>4. QED BY <1>1, <1>2, <1>3

(* The code an upload that sees the operators of now finds. *)
LEMMA CodeOfNow ==
    ASSUME NEW r, NEW row, up[r].kind \in {"sheet", "matrix", "zip"},
           up[r].kind = "zip" => up[r].batch = mnos, up[r].roster = mnos
    PROVE  CodeOf(r, row) = CodeNow(up[r].kind, row)
BY DEF CodeOf, CodeNow

LEMMA TakeRowSteady ==
    ASSUME TypeInv, NEW r \in Upload, Steady(up[r]), NEW row \in Row, TakeRow(r, row),
           NEW v, v = up'[r]
    PROVE  /\ Steady(v) /\ FoundFits(v)
           /\ \E u : u = Taking(r, row) /\ v \in Located(u) /\ u \in UploadRecord /\ RowFits(u)
                     /\ u.mno = Null
<1>1. PICK u : u = Taking(r, row)
  OBVIOUS
<1>2. v \in Located(u)
  BY <1>1 DEF TakeRow, Taking, TypeInv, UpTypeOK
<1>3. /\ up[r].file \in File /\ UploadFits(up[r]) /\ up[r].pc = "rows" /\ up[r].mno = Null
      /\ up[r].kind \in {"sheet", "matrix", "zip"}
  BY FrameOf DEF UploadFits, TakeRow, CarrierPhase, RowPhase, UploadRecord
<1>4. /\ u \in UploadRecord /\ u.mno = up[r].mno /\ u.exact = up[r].exact
      /\ u.row = row /\ u.code = CodeOf(r, row) /\ u.carriers = row.carriers
      /\ u.rows = up[r].rows \cup {row}
      /\ u.file = up[r].file /\ u.names = up[r].names /\ u.rosterAt = up[r].rosterAt
      /\ u.at = up[r].at /\ u.roster = up[r].roster
      /\ u.kind = up[r].kind /\ u.batch = up[r].batch
  BY <1>1, RowTaken
<1>5. RowFits(u)
  BY <1>3, <1>4, CodeOfType, RowType DEF RowFits, UploadFits
<1>6. /\ up[r].kind = "zip" => up[r].batch = mnos
      /\ up[r].roster = mnos /\ up[r].rosterAt = epoch
  BY <1>3 DEF Steady
<1>7. u.code = CodeNow(u.kind, u.row)
  BY <1>3, <1>4, <1>6, CodeOfNow
<1>8. Steady(v) /\ FoundFits(v)
  BY <1>2, <1>3, <1>4, <1>5, <1>6, <1>7, LocatedSteady
<1>9. QED BY <1>1, <1>2, <1>3, <1>4, <1>5, <1>8

LEMMA FindMnoSteady ==
    ASSUME TypeInv, NEW r \in Upload, Steady(up[r]), FindMnoByName(r), NEW v, v = up'[r]
    PROVE  /\ Steady(v) /\ FoundFits(v)
           /\ SameFile(up[r], v) /\ v.row = up[r].row /\ v.code = up[r].code
           /\ v.carriers = up[r].carriers /\ v.services = up[r].row.services
           /\ v.pc \in {"create", "upsert", "find"}
<1>1. PICK u : u = up[r]
  OBVIOUS
<1>2. u \in UploadRecord /\ RowFits(u) /\ u.mno = Null /\ u.pc = "name" /\ Steady(u)
  BY <1>1, FrameOf, FitsInRow DEF FindMnoByName, UploadFits, RowPhase, CarrierPhase
<1>3. /\ u.rosterAt = epoch /\ u.roster = mnos /\ u.code # Null /\ Holders(u.code) = {}
      /\ u.row \in u.rows /\ u.code = CodeNow(u.kind, u.row)
      /\ u.kind = "zip" => u.batch = mnos
  BY <1>2 DEF Steady, RowPhase
<1>4. PICK m : m = ByName(mnos, u.row.name)
  OBVIOUS
<1>5. m \in Code \cup {Null} /\ (m # Null => mnos[m] # Null) /\ epoch \in Nat
  BY <1>2, <1>4, ByNameType, RowType DEF RowFits, TypeInv, DbTypeOK
<1>6. PICK w : w = [u EXCEPT !.mno = m, !.at = epoch]
  OBVIOUS
<1>7. w \in UploadRecord
  BY <1>2, <1>5, <1>6 DEF UploadRecord
<1>8. /\ SameFile(u, w) /\ w.names = u.names /\ w.at = epoch /\ w.mno = m /\ w.row = u.row
      /\ w.code = u.code /\ w.carriers = u.carriers /\ w.exact = u.exact
  BY <1>2, <1>6 DEF UploadRecord, SameFile
<1>9. RowFits(w)
  BY <1>2, <1>5, <1>8 DEF RowFits, SameFile
<1>10. PlaceNow(u.kind, u.row) = {m} \ {Null}
  BY <1>3, <1>4 DEF PlaceNow
<1>11. Placed(w)
  BY <1>3, <1>8, <1>10 DEF Placed, SameFile
<1>12. v = AtCarrier(w)
  BY <1>1, <1>2, <1>3, <1>4, <1>6 DEF FindMnoByName, TypeInv, UpTypeOK
<1>13. Steady(v) /\ FoundFits(v)
  BY <1>7, <1>9, <1>11, <1>12, AtCarrierSteady
<1>14. /\ SameFile(w, v) /\ SameRow(w, v) /\ v.carriers = w.carriers
       /\ v.services = w.row.services /\ v.pc \in {"create", "upsert", "find"}
  BY <1>7, <1>9, <1>12, AtCarrierMoves
<1>15. QED BY <1>1, <1>8, <1>13, <1>14 DEF SameFile, SameRow

(* Creating a provider and registering it come before the row goes on. *)
LEMMA CreateProviderMoves ==
    ASSUME TypeInv, NEW r \in Upload, CreateProvider(r), NEW v, v = up'[r]
    PROVE  /\ SameFile(up[r], v) /\ SameRow(up[r], v) /\ v.carriers = up[r].carriers
           /\ v.services = up[r].services /\ up[r].pc = "create" /\ v.pc = "alias"
<1>1. PICK u : u = up[r]
  OBVIOUS
<1>2. u \in UploadRecord /\ u.pc = "create"
  BY <1>1, FrameOf DEF CreateProvider
<1>3. PICK names : names = u.names \cup {Head(u.carriers)}
  OBVIOUS
<1>4. v = [u EXCEPT !.pc = "alias", !.names = names]
  BY <1>1, <1>2, <1>3 DEF CreateProvider, Carrier, UploadRecord, TypeInv, UpTypeOK
<1>5. QED BY <1>1, <1>2, <1>4 DEF UploadRecord, SameFile, SameRow

LEMMA RegisterAliasMoves ==
    ASSUME TypeInv, NEW r \in Upload, RegisterAlias(r), NEW v, v = up'[r]
    PROVE  v = AtCarrier(up[r]) /\ up[r].pc = "alias"
BY DEF RegisterAlias, TypeInv, UpTypeOK

LEMMA DeleteMoves ==
    ASSUME TypeInv, NEW r \in Upload, Steady(up[r]), DeleteOldRows(r), NEW v, v = up'[r]
    PROVE  /\ SameFile(up[r], v) /\ v.pc = "roster" /\ v.rows = {} /\ v.seen = {} /\ v.loaded = 0
           /\ Steady(v) /\ FoundFits(v)
<1>1. PICK u : u = up[r]
  OBVIOUS
<1>2. u \in UploadRecord /\ u.pc = "delete" /\ v = [u EXCEPT !.pc = "roster"]
  BY <1>1, FrameOf DEF DeleteOldRows, TypeInv, UpTypeOK
<1>3. SameFile(u, v) /\ v.pc = "roster" /\ v.carriers = u.carriers
  BY <1>2 DEF SameFile, UploadRecord
<1>4. /\ u.rows = {} /\ u.seen = {} /\ u.loaded = 0 /\ u.carriers = <<>>
      /\ u.kind = "zip" => u.batch = mnos
  BY <1>1, <1>2 DEF Steady, RowPhase, CarrierPhase
<1>5. Steady(v)
  BY <1>3, <1>4 DEF Steady, SameFile, RowPhase, CarrierPhase
<1>6. QED BY <1>1, <1>3, <1>4, <1>5 DEF SameFile, FoundFits

LEMMA ReadRosterMoves ==
    ASSUME TypeInv, NEW r \in Upload, Steady(up[r]), ReadRoster(r), NEW v, v = up'[r]
    PROVE  /\ v.kind = up[r].kind /\ v.replace = up[r].replace /\ v.file = up[r].file
           /\ v.rows = {} /\ v.seen = {} /\ v.loaded = 0 /\ up[r].seen = {} /\ up[r].loaded = 0
           /\ up[r].pc = "roster" /\ v.pc = "rows" /\ Steady(v) /\ FoundFits(v)
<1>1. PICK u : u = up[r]
  OBVIOUS
<1>2. /\ u \in UploadRecord /\ u.pc = "roster"
      /\ v = [u EXCEPT !.pc = "rows", !.roster = mnos, !.rosterAt = epoch]
  BY <1>1, FrameOf DEF ReadRoster, TypeInv, UpTypeOK
<1>3. /\ v.kind = u.kind /\ v.replace = u.replace /\ v.file = u.file /\ v.batch = u.batch
      /\ v.rows = u.rows /\ v.seen = u.seen /\ v.loaded = u.loaded /\ v.carriers = u.carriers
      /\ v.pc = "rows" /\ v.roster = mnos /\ v.rosterAt = epoch
  BY <1>2 DEF UploadRecord
<1>4. /\ u.rows = {} /\ u.seen = {} /\ u.loaded = 0 /\ u.carriers = <<>>
      /\ u.kind = "zip" => u.batch = mnos
  BY <1>1, <1>2 DEF Steady, RowPhase, CarrierPhase
<1>5. Steady(v)
  BY <1>3, <1>4 DEF Steady, RowPhase, CarrierPhase
<1>6. QED BY <1>1, <1>2, <1>3, <1>4, <1>5 DEF FoundFits

LEMMA NextFileFresh ==
    ASSUME TypeInv, NEW r \in Upload, Steady(up[r]), NEW f \in File, NextFile(r, f),
           NEW v, v = up'[r]
    PROVE  Fresh(v)
<1>1. PICK u : u = up[r]
  OBVIOUS
<1>2. u \in UploadRecord /\ u.pc = "batch" /\ v = Opened(u, f)
  BY <1>1, FrameOf DEF NextFile, TypeInv, UpTypeOK
<1>3. /\ u.rows = {} /\ u.seen = {} /\ u.loaded = 0 /\ u.carriers = <<>>
      /\ u.kind = "zip" => u.batch = mnos
  BY <1>1, <1>2 DEF Steady, RowPhase, CarrierPhase
<1>4. QED BY <1>2, <1>3, OpenedFresh

LEMMA NextOfArchiveFresh ==
    ASSUME TypeInv, NEW r \in Upload, Steady(up[r]), FinishFile(r), up[r].kind = "zip",
           NEW v, v = up'[r]
    PROVE  Fresh(v)
<1>1. PICK u : u = up[r]
  OBVIOUS
<1>2. u \in UploadRecord /\ u.kind = "zip" /\ v = AfterFile(u) /\ u.batch = mnos
  BY <1>1, FrameOf DEF FinishFile, TypeInv, UpTypeOK, Steady
<1>3. PICK i : i = IdleUpload
  OBVIOUS
<1>4. i \in UploadRecord /\ i.rows = {} /\ i.seen = {} /\ i.loaded = 0 /\ i.carriers = <<>>
  BY <1>3, IdleTypes DEF IdleUpload
<1>5. v = [i EXCEPT !.pc = "batch", !.kind = "zip", !.replace = u.replace,
                    !.batch = u.batch, !.files = u.files]
  BY <1>2, <1>3 DEF AfterFile
<1>6. /\ v.pc = "batch" /\ v.rows = {} /\ v.seen = {} /\ v.loaded = 0 /\ v.carriers = <<>>
      /\ v.batch = u.batch
  BY <1>4, <1>5 DEF UploadRecord
<1>7. QED BY <1>2, <1>6 DEF Fresh

LEMMA FindAuditMoves ==
    ASSUME TypeInv, NEW r \in Upload, FindAudit(r), NEW v, v = up'[r]
    PROVE  /\ up[r].pc = "find" /\ up[r] \in UploadRecord /\ UploadFits(up[r]) /\ RowFits(up[r])
           /\ \/ /\ v = AfterAudit(up[r]) /\ audit[EntryKey(up[r])] # Null
                 /\ audit[EntryKey(up[r])].status = "MANUALLY_OVERRIDDEN"
              \/ /\ SameFile(up[r], v) /\ SameRow(up[r], v) /\ v.carriers = up[r].carriers
                 /\ v.services = up[r].services /\ v.pc = "audit"
                 /\ v.found = audit[EntryKey(up[r])]
                 /\ v.found # Null => v.found.status # "MANUALLY_OVERRIDDEN"
<1>1. PICK u : u = up[r]
  OBVIOUS
<1>2. /\ u \in UploadRecord /\ UploadFits(u) /\ RowFits(u) /\ u.pc = "find"
  BY <1>1, FrameOf, FitsInRow DEF FindAudit, RowPhase, CarrierPhase
<1>3. AuditOf(r) = EntryKey(u) /\ AuditOf(r) \in AuditKey
  BY <1>1, <1>2, EntryKeyType DEF AuditOf, EntryKey, Carrier, RowPhase, CarrierPhase
<1>4. PICK e : e = audit[AuditOf(r)]
  OBVIOUS
<1>5. CASE AfterFind(e) = "skip"
  <2>1. v = AfterAudit(u)
    BY <1>1, <1>4, <1>5 DEF FindAudit, TypeInv, UpTypeOK
  <2>2. QED BY <1>1, <1>2, <1>3, <1>4, <1>5, <2>1 DEF AfterFind
<1>6. CASE AfterFind(e) # "skip"
  <2>1. v = [u EXCEPT !.pc = "audit", !.found = e]
    BY <1>1, <1>4, <1>6 DEF FindAudit, TypeInv, UpTypeOK
  <2>2. /\ SameFile(u, v) /\ SameRow(u, v) /\ v.carriers = u.carriers
        /\ v.services = u.services /\ v.pc = "audit" /\ v.found = e
    BY <1>2, <2>1 DEF UploadRecord, SameFile, SameRow
  <2>3. QED BY <1>1, <1>2, <1>3, <1>4, <1>6, <2>2 DEF AfterFind
<1>7. QED BY <1>5, <1>6

LEMMA FindAuditSteady ==
    ASSUME TypeInv, NEW r \in Upload, Steady(up[r]), FindAudit(r), NEW v, v = up'[r]
    PROVE  Steady(v) /\ FoundFits(v)
<1>1. PICK u : u = up[r]
  OBVIOUS
<1>2. /\ u \in UploadRecord /\ UploadFits(u) /\ RowFits(u) /\ u.pc = "find" /\ Steady(u)
  BY <1>1, FindAuditMoves
<1>3. CASE v = AfterAudit(u)
  BY <1>2, <1>3, AfterAuditSteady DEF CarrierPhase, RowPhase
<1>4. CASE /\ SameFile(u, v) /\ SameRow(u, v) /\ v.carriers = u.carriers
           /\ v.services = u.services /\ v.pc = "audit"
           /\ v.found = audit[EntryKey(u)]
           /\ v.found # Null => v.found.status # "MANUALLY_OVERRIDDEN"
  <2>1. Placed(u) /\ u.services \subseteq u.row.services
    BY <1>2, SteadyIsPlaced DEF Steady, CarrierPhase, RowPhase
  <2>2. Steady(v)
    BY <1>4, <2>1 DEF Placed, Steady, SameFile, SameRow, CarrierPhase, RowPhase
  <2>3. EntryKey(v) = EntryKey(u)
    BY <1>4 DEF EntryKey, SameRow
  <2>4. QED BY <1>4, <2>2, <2>3 DEF FoundFits
<1>5. QED BY <1>1, <1>3, <1>4, FindAuditMoves

(* A row's service is upserted, or was already. *)
LEMMA UpsertMoves ==
    ASSUME TypeInv, NEW r \in Upload, NEW s \in Service, UpsertRow(r, s), NEW u, u = up[r],
           NEW k, k = <<u.mno, Head(u.carriers), s>>, NEW v, v = up'[r]
    PROVE  /\ u \in UploadRecord /\ UploadFits(u) /\ RowFits(u) /\ u.pc = "upsert"
           /\ u.mno # Null /\ s \in u.services /\ k \in ReachKey
           /\ \E w : /\ w \in UploadRecord /\ UploadFits(w) /\ w.pc = "upsert"
                     /\ SameRow(u, w) /\ w.carriers = u.carriers /\ w.services = u.services
                     /\ w.kind = u.kind /\ w.replace = u.replace /\ w.file = u.file
                     /\ w.batch = u.batch /\ w.roster = u.roster /\ w.rosterAt = u.rosterAt
                     /\ w.rows = u.rows /\ v = NextService(w, s)
                     /\ w.seen = u.seen \cup {k}
                     /\ \/ k \in u.seen /\ w.loaded = u.loaded /\ reach' = reach
                        \/ /\ k \notin u.seen /\ w.loaded = u.loaded + 1
                           /\ reach' = [reach EXCEPT ![k] = u.file]
<1>1. /\ u \in UploadRecord /\ UploadFits(u) /\ RowFits(u) /\ u.pc = "upsert"
      /\ u.mno \in Code /\ u.mno # Null /\ s \in u.services /\ Head(u.carriers) \in providers
  <2>1. u \in UploadRecord /\ UploadFits(u) /\ u.pc = "upsert"
    BY FrameOf DEF UpsertRow
  <2>2. QED BY <2>1, FitsInRow DEF UploadFits, RowPhase, CarrierPhase, UploadRecord, UpsertRow
<1>2. k \in ReachKey /\ k = DedupeKey(r, s)
  BY <1>1 DEF ReachKey, TypeInv, DbTypeOK, DedupeKey, Carrier
<1>3. CASE k \in u.seen /\ up' = [up EXCEPT ![r] = NextService(up[r], s)]
           /\ UNCHANGED <<reach, declared, taken, wiped>>
  <2>1. v = NextService(u, s) /\ u.seen = u.seen \cup {k}
    BY <1>3 DEF TypeInv, UpTypeOK
  <2>2. SameRow(u, u)
    BY DEF SameRow
  <2>3. QED BY <1>1, <1>2, <1>3, <2>1, <2>2
<1>4. CASE /\ k \notin u.seen /\ PutRow(k, u.file)
           /\ up' = [up EXCEPT ![r] = NextService(
                        [up[r] EXCEPT !.seen = @ \cup {k}, !.loaded = @ + 1], s)]
  <2>1. PICK w : w = [u EXCEPT !.seen = u.seen \cup {k}, !.loaded = u.loaded + 1]
    OBVIOUS
  <2>2. v = NextService(w, s)
    BY <1>1, <1>4, <2>1 DEF UploadRecord, TypeInv, UpTypeOK
  <2>3. w \in UploadRecord
    <3>1. u.seen \cup {k} \in SUBSET ReachKey /\ u.loaded + 1 \in Nat
      BY <1>1, <1>2 DEF UploadRecord
    <3>2. QED BY <1>1, <2>1, <3>1 DEF UploadRecord
  <2>4. /\ SameRow(u, w) /\ w.carriers = u.carriers /\ w.services = u.services
        /\ w.kind = u.kind /\ w.replace = u.replace /\ w.file = u.file /\ w.pc = u.pc
        /\ w.batch = u.batch /\ w.roster = u.roster /\ w.rosterAt = u.rosterAt
        /\ w.rows = u.rows /\ w.seen = u.seen \cup {k} /\ w.loaded = u.loaded + 1
        /\ w.names = u.names /\ w.at = u.at /\ w.exact = u.exact /\ w.found = u.found
    BY <1>1, <2>1 DEF UploadRecord, SameRow
  <2>5. UploadFits(w)
    BY <1>1, <2>4 DEF UploadFits, RowFits, SameRow, CarrierPhase, RowPhase
  <2>6. reach' = [reach EXCEPT ![k] = u.file]
    BY <1>4 DEF PutRow
  <2>7. QED BY <1>1, <1>2, <1>4, <2>2, <2>3, <2>4, <2>5, <2>6
<1>5. QED BY <1>2, <1>3, <1>4 DEF UpsertRow, Carrier

LEMMA UpsertSteady ==
    ASSUME TypeInv, NEW r \in Upload, Steady(up[r]), NEW s \in Service, UpsertRow(r, s),
           NEW v, v = up'[r]
    PROVE  Steady(v) /\ FoundFits(v)
<1>1. PICK u : u = up[r]
  OBVIOUS
<1>2. PICK k : k = <<u.mno, Head(u.carriers), s>>
  OBVIOUS
<1>3. u.pc = "upsert" /\ u \in UploadRecord /\ UploadFits(u)
  BY <1>1, <1>2, UpsertMoves
<1>4. PICK w : /\ w \in UploadRecord /\ UploadFits(w) /\ w.pc = "upsert"
               /\ SameRow(u, w) /\ w.carriers = u.carriers /\ w.services = u.services
               /\ w.kind = u.kind /\ w.replace = u.replace /\ w.file = u.file
               /\ w.batch = u.batch /\ w.roster = u.roster /\ w.rosterAt = u.rosterAt
               /\ w.rows = u.rows /\ v = NextService(w, s)
  BY <1>1, <1>2, UpsertMoves
<1>5. Steady(w)
  BY <1>1, <1>3, <1>4 DEF Steady, SameRow, RowPhase, CarrierPhase
<1>6. QED BY <1>4, <1>5, AtCarrierAgain

(* Its steps keep it steady, and what it has just read is as it is. *)
LEMMA SteadyMoves ==
    ASSUME TypeInv, NEW r \in Upload, Steady(up[r]), FoundFits(up[r]), AloneStep(r),
           NEW v, v = up'[r]
    PROVE  Steady(v) /\ FoundFits(v)
<1>1. PICK u : u = up[r]
  OBVIOUS
<1>2. u \in UploadRecord /\ UploadFits(u) /\ Steady(u)
  BY <1>1, FrameOf
<1>3. Steady(v) /\ FoundFits(v)
  <2>1. CASE (\E f \in File : NextFile(r, f)) \/ (FinishFile(r) /\ up[r].kind = "zip")
    BY <2>1, NextFileFresh, NextOfArchiveFresh, FreshFits
  <2>2. CASE DeleteOldRows(r) \/ ReadRoster(r)
    BY <2>2, DeleteMoves, ReadRosterMoves
  <2>3. CASE \E row \in Row : TakeRow(r, row)
    BY <2>3, TakeRowSteady
  <2>4. CASE FindMnoByName(r)
    BY <2>4, FindMnoSteady
  <2>5. CASE CreateProvider(r)
    <3>1. /\ SameFile(u, v) /\ SameRow(u, v) /\ v.services = u.services
          /\ u.pc = "create" /\ v.pc = "alias"
      BY <1>1, <2>5, CreateProviderMoves
    <3>2. Steady(v)
      BY <1>2, <3>1 DEF Steady, SameFile, SameRow, RowPhase, CarrierPhase
    <3>3. QED BY <3>1, <3>2 DEF FoundFits
  <2>6. CASE RegisterAlias(r)
    <3>1. v = AtCarrier(u) /\ u.pc = "alias"
      BY <1>1, <2>6, RegisterAliasMoves
    <3>2. RowFits(u) /\ Placed(u)
      BY <1>2, <3>1, FitsInRow, SteadyIsPlaced DEF RowPhase, CarrierPhase
    <3>3. QED BY <1>2, <3>1, <3>2, AtCarrierSteady
  <2>7. CASE FindAudit(r)
    BY <2>7, FindAuditSteady
  <2>8. CASE WriteAudit(r)
    <3>1. v = AfterAudit(u) /\ u.pc = "audit"
      BY <1>1, <2>8 DEF WriteAudit, TypeInv, UpTypeOK
    <3>2. RowFits(u)
      BY <1>2, <3>1, FitsInRow DEF RowPhase, CarrierPhase
    <3>3. QED BY <1>2, <3>1, <3>2, AfterAuditSteady DEF RowPhase, CarrierPhase
  <2>9. CASE \E s \in Service : UpsertRow(r, s)
    BY <2>9, UpsertSteady
  <2>10. QED BY <2>1, <2>2, <2>3, <2>4, <2>5, <2>6, <2>7, <2>8, <2>9 DEF AloneStep
<1>4. QED BY <1>3

LEMMA SteadyStep ==
    ASSUME TypeInv, AloneInv, SteadyInv, [Next]_vars
    PROVE  AloneInv' /\ SteadyInv'
<1>1. SUFFICES ASSUME NEW r \in alone'
               PROVE  /\ alone' = {r} /\ Steady(up[r])' /\ FoundFits(up[r])'
                      /\ \A o \in Upload \ {r} : up'[o].pc = "idle"
                      /\ \A a \in Admin : adm'[a].pc = "idle"
  BY DEF AloneInv, SteadyInv
<1>2. r \in Upload /\ (AloneStart(r) \/ (r \in alone /\ (AloneStep(r) \/ UNCHANGED vars)))
  BY AloneCases
<1>3. CASE AloneStart(r)
  <2>1. PICK v : v = up'[r]
    OBVIOUS
  <2>2. /\ Fresh(v) /\ UNCHANGED <<mnos, secondary, epoch, audit, reach>>
        /\ \A o \in Upload \ {r} : up'[o] = up[o] /\ up[o].pc = "idle"
        /\ adm' = adm /\ \A a \in Admin : adm[a].pc = "idle"
        /\ alone' = {r}
    BY <1>2, <1>3, <2>1, StartFresh
  <2>3. Steady(v)' /\ FoundFits(v)'
    <3>1. Steady(v) /\ v.pc # "audit"
      BY <2>2, FreshFits DEF Fresh
    <3>2. Steady(v)'
      BY <2>2, <3>1, SteadyStays
    <3>3. QED BY <3>1, <3>2 DEF FoundFits
  <2>4. QED BY <2>1, <2>2, <2>3
<1>4. CASE r \in alone /\ AloneStep(r)
  <2>1. PICK v : v = up'[r]
    OBVIOUS
  <2>2. /\ UNCHANGED <<mnos, secondary, epoch, adm, alone>>
        /\ \A o \in Upload \ {r} : up'[o] = up[o]
        /\ UploadStep(r)
    BY <1>2, <1>4, AloneLeaves
  <2>3. Steady(v) /\ FoundFits(v)
    BY <1>2, <1>4, <2>1, SteadyMoves DEF SteadyInv
  <2>4. Steady(v)'
    BY <2>2, <2>3, SteadyStays
  <2>5. FoundFits(v)'
    <3>1. CASE audit' = audit
      <4>1. EntryKey(v)' = EntryKey(v)
        BY DEF EntryKey
      <4>2. QED BY <2>3, <3>1, <4>1 DEF FoundFits
    <3>2. CASE WriteAudit(r)
      <4>1. up[r] \in UploadRecord /\ RowFits(up[r]) /\ v = AfterAudit(up[r])
        BY <1>2, <2>1, <3>2, FrameOf, FitsInRow
           DEF WriteAudit, RowPhase, CarrierPhase, TypeInv, UpTypeOK
      <4>2. v.pc # "audit"
        BY <4>1, AfterAuditMoves, NextCarrierMoves
      <4>3. QED BY <4>2 DEF FoundFits
    <3>3. QED BY <1>2, <2>2, <3>1, <3>2, UploadLeaves
  <2>6. QED BY <1>4, <2>1, <2>2, <2>4, <2>5 DEF AloneInv
<1>5. CASE r \in alone /\ UNCHANGED vars
  <2>1. UNCHANGED <<mnos, secondary, epoch, audit, up, adm, alone>>
    BY <1>5 DEF vars, db, observers
  <2>2. PICK u : u = up[r]
    OBVIOUS
  <2>3. Steady(u)'
    BY <1>5, <2>1, <2>2, SteadyStays DEF SteadyInv
  <2>4. FoundFits(u)'
    BY <1>5, <2>1, <2>2 DEF SteadyInv, FoundFits, EntryKey
  <2>5. QED BY <1>5, <2>1, <2>2, <2>3, <2>4 DEF AloneInv
<1>6. QED BY <1>2, <1>3, <1>4, <1>5

LEMMA AloneAlways == Spec => [](TypeInv /\ AloneInv /\ SteadyInv)
<1>1. Init => TypeInv /\ AloneInv /\ SteadyInv
  BY InitTypes DEF Init, AloneInv, SteadyInv
<1>2. TypeInv /\ AloneInv /\ SteadyInv /\ [Next]_vars => (TypeInv /\ AloneInv /\ SteadyInv)'
  BY TypeStep, SteadyStep
<1>3. QED BY <1>1, <1>2, PTL DEF Spec

-----------------------------------------------------------------------------
(* An entry that is written again keeps its identity and its services.          *)
LEMMA RecordedKeeps ==
    ASSUME NEW r \in Upload, NEW was, was = up[r].found, was \in AuditRow
    PROVE  Recorded(r).id = was.id /\ was.services \subseteq Recorded(r).services
<1>1. was # Null
  BY NoEntryAssumption
<1>2. PICK services : services = was.services \cup up[r].row.services
  OBVIOUS
<1>3. Recorded(r).services = services
  BY <1>1, <1>2 DEF Recorded, AuditRow
<1>4. Recorded(r).id = was.id
  BY <1>1 DEF Recorded, AuditRow
<1>5. QED BY <1>2, <1>3, <1>4

(* The entry it writes is one its file declares. *)
LEMMA WrittenIsDeclared ==
    ASSUME TypeInv, NEW r \in Upload, Steady(up[r]), WriteAudit(r)
    PROVE  Declares(r, AuditOf(r))
<1>1. PICK u : u = up[r]
  OBVIOUS
<1>2. u \in UploadRecord /\ UploadFits(u) /\ u.pc \in RowPhase /\ Steady(u)
  BY <1>1, FrameOf DEF WriteAudit, RowPhase, CarrierPhase
<1>3. /\ u.row \in u.rows /\ u.code = CodeNow(u.kind, u.row)
      /\ u.kind \in {"sheet", "matrix", "zip"} /\ u.roster = mnos
      /\ u.kind = "zip" => u.batch = mnos
  BY <1>2 DEF Steady, UploadRecord
<1>4. u.code = CodeOf(r, u.row)
  BY <1>1, <1>3, CodeOfNow
<1>5. Head(u.carriers) \in CarriersOf(u.row)
  <2>1. u.carriers \in Seq(Provider) /\ u.carriers # <<>>
    BY <1>2 DEF UploadRecord, UploadFits
  <2>2. QED BY <1>2, <2>1, SequenceFacts DEF UploadFits
<1>6. PICK k : k = AuditOf(r)
  OBVIOUS
<1>7. k[1] = Head(u.carriers) /\ k[2] = u.code /\ k[3] = u.row.name
  BY <1>1, <1>6 DEF AuditOf, Carrier
<1>8. QED BY <1>1, <1>3, <1>4, <1>5, <1>6, <1>7 DEF Declares

(* An upload that runs by itself leaves what it reads as resolved alone, nobody  *)
(* resolves between its read and its write, and it writes back what it read,     *)
(* with what its file declares added: an entry that is still open, or ignored,   *)
(* is reopened by being declared again and by nothing else                       *)
(* (upload.service.ts:600-649).                                                  *)
THEOREM DecisionsAreKept == Spec => DecisionsOutliveUploads
<1> DEFINE Kept == alone # {} /\ alone' = alone =>
        \A k \in AuditKey : audit[k] # Null /\ audit'[k] # audit[k] =>
            /\ audit[k].status # "MANUALLY_OVERRIDDEN"
            /\ \E r \in alone : Declares(r, k)
            /\ audit'[k] # Null /\ audit'[k].id = audit[k].id
            /\ audit[k].services \subseteq audit'[k].services
<1>1. TypeInv /\ AloneInv /\ SteadyInv /\ [Next]_vars => Kept
  <2>1. SUFFICES ASSUME TypeInv, AloneInv, SteadyInv, [Next]_vars, NEW r \in alone,
                        alone' = alone, NEW k \in AuditKey, audit[k] # Null,
                        audit'[k] # audit[k]
                 PROVE  /\ audit[k].status # "MANUALLY_OVERRIDDEN"
                        /\ Declares(r, k)
                        /\ audit'[k] # Null /\ audit'[k].id = audit[k].id
                        /\ audit[k].services \subseteq audit'[k].services
    BY DEF Kept
  <2>2. r \in Upload /\ (AloneStart(r) \/ AloneStep(r) \/ UNCHANGED vars)
    BY <2>1, AloneCases
  <2>3. CASE WriteAudit(r)
    <3>1. PICK u : u = up[r]
      OBVIOUS
    <3>2. u.pc = "audit" /\ FoundFits(u) /\ AuditOf(r) = EntryKey(u) /\ Steady(u)
      BY <2>1, <2>3, <3>1 DEF WriteAudit, SteadyInv, AuditOf, EntryKey, Carrier
    <3>3. PICK e : e = Recorded(r)
      OBVIOUS
    <3>4. audit' = [audit EXCEPT ![EntryKey(u)] = e]
      BY <2>3, <3>2, <3>3 DEF WriteAudit
    <3>5. k = EntryKey(u) /\ audit'[k] = e
      BY <2>1, <3>4 DEF TypeInv, DbTypeOK
    <3>6. u.found = audit[k] /\ audit[k].status # "MANUALLY_OVERRIDDEN"
      BY <2>1, <3>2, <3>5 DEF FoundFits
    <3>7. audit[k] \in AuditRow
      BY <2>1 DEF TypeInv, DbTypeOK
    <3>8. e.id = audit[k].id /\ audit[k].services \subseteq e.services
      BY <2>2, <3>1, <3>3, <3>6, <3>7, RecordedKeeps
    <3>9. e \in AuditRow
      BY <2>1, <2>2, <2>3, <3>3, RecordedType
    <3>10. Declares(r, k)
      BY <2>1, <2>2, <2>3, <3>1, <3>2, <3>5, WrittenIsDeclared
    <3>11. QED BY <3>5, <3>6, <3>8, <3>9, <3>10, NoEntryAssumption
  <2>4. CASE audit' = audit
    BY <2>1, <2>4
  <2>5. UNCHANGED vars => audit' = audit
    BY DEF vars, db
  <2>6. AloneStart(r) => audit' = audit
    BY <2>1, <2>2, StartFresh
  <2>7. AloneStep(r) => WriteAudit(r) \/ audit' = audit
    BY <2>1, <2>2, AloneLeaves, UploadLeaves
  <2>8. QED BY <2>2, <2>3, <2>4, <2>5, <2>6, <2>7
<1> HIDE DEF Kept
<1>2. Spec => [][Kept]_vars
  BY <1>1, AloneAlways, PTL DEF Spec
<1>3. QED BY <1>2 DEF Kept, DecisionsOutliveUploads

-----------------------------------------------------------------------------
(* What an upload by itself has passed is in the queue, or has its place.      *)

LEMMA LocatedMoves ==
    ASSUME TypeInv, NEW u \in UploadRecord, RowFits(u), NEW v \in Located(u)
    PROVE  /\ SameFile(u, v) /\ v.row = u.row /\ v.code = u.code /\ v.carriers = u.carriers
           /\ \/ v.pc = "name"
              \/ v.pc \in {"create", "upsert", "find"} /\ v.services = u.row.services
<1>1. CASE v = AtCarrier(u)
  BY <1>1, AtCarrierMoves DEF SameRow
<1>2. CASE v = [u EXCEPT !.pc = "name"]
  BY <1>2 DEF UploadRecord, SameFile
<1>3. ASSUME NEW m \in Holders(u.code),
             v = AtCarrier([u EXCEPT !.mno = m, !.at = epoch, !.exact = TRUE])
      PROVE  /\ SameFile(u, v) /\ v.row = u.row /\ v.code = u.code /\ v.carriers = u.carriers
             /\ v.pc \in {"create", "upsert", "find"} /\ v.services = u.row.services
  <2>1. PICK w : w = [u EXCEPT !.mno = m, !.at = epoch, !.exact = TRUE]
    OBVIOUS
  <2>2. m \in Code /\ mnos[m] # Null /\ epoch \in Nat /\ m # Null
    BY Constants DEF Holders, Registered, TypeInv, DbTypeOK
  <2>3. w \in UploadRecord
    BY <2>1, <2>2 DEF UploadRecord
  <2>4. /\ SameFile(u, w) /\ w.names = u.names /\ w.at = epoch /\ w.mno = m
        /\ w.row = u.row /\ w.code = u.code /\ w.carriers = u.carriers
    BY <2>1, <2>2 DEF UploadRecord, SameFile
  <2>5. RowFits(w)
    BY <2>2, <2>4 DEF RowFits, SameFile
  <2>6. /\ SameFile(w, v) /\ SameRow(w, v) /\ v.carriers = w.carriers
        /\ v.services = w.row.services /\ v.pc \in {"create", "upsert", "find"}
    BY <1>3, <2>1, <2>3, <2>5, AtCarrierMoves
  <2>7. QED BY <2>4, <2>6 DEF SameFile, SameRow
<1>4. QED BY <1>1, <1>2, <1>3 DEF Located

LEMMA CodeNowType ==
    ASSUME TypeInv, NEW kind, NEW row \in Row
    PROVE  CodeNow(kind, row) \in IF row.code = Null THEN Code \cup {Null} ELSE {row.code}
BY ByNameType, RowType DEF CodeNow, TypeInv, DbTypeOK

LEMMA QueueMoves ==
    ASSUME UNCHANGED <<mnos, secondary>>, NEW u, QueueFits(u), NEW v,
           v.kind = u.kind, v.rows = u.rows,
           \A row \in u.rows : \A p \in CarriersOf(row) :
              LET c == CodeNow(u.kind, row)
              IN Queued(audit, p, c, row) => Queued(audit', p, c, row),
           PlaceNow(u.kind, u.row) = {} => \A p \in Elems(u.carriers) :
              \/ v.row = u.row /\ p \in Elems(v.carriers)
              \/ Queued(audit', p, CodeNow(u.kind, u.row), u.row)
    PROVE  QueueFits(v)'
<1>1. SUFFICES ASSUME NEW row \in u.rows, PlaceNow(u.kind, row) = {}, NEW p \in CarriersOf(row)
               PROVE  \/ Queued(audit', p, CodeNow(u.kind, row), row)
                      \/ row = v.row /\ p \in Elems(v.carriers)
  BY PlaceStays DEF QueueFits
<1>2. CASE Queued(audit, p, CodeNow(u.kind, row), row)
  BY <1>2
<1>3. CASE row = u.row /\ p \in Elems(u.carriers)
  BY <1>1, <1>3
<1>4. QED BY <1>1, <1>2, <1>3 DEF QueueFits

(* The next carrier leaves the first behind. *)
LEMMA CarriersAhead ==
    ASSUME NEW u \in UploadRecord, RowFits(u), NEW v, v = NextCarrier(u),
           NEW p \in Elems(u.carriers)
    PROVE  p = Head(u.carriers) \/ (v.row = u.row /\ p \in Elems(v.carriers))
<1>1. u.carriers \in Seq(Provider) /\ u.carriers # <<>>
  BY DEF RowFits, UploadRecord
<1>2. p = Head(u.carriers) \/ p \in Elems(Tail(u.carriers))
  BY <1>1, SequenceFacts
<1>3. CASE Tail(u.carriers) = <<>>
  BY <1>2, <1>3, NoElems
<1>4. CASE Tail(u.carriers) # <<>>
  BY <1>2, <1>4, NextCarrierMoves DEF SameRow
<1>5. QED BY <1>3, <1>4

(* After an entry the row goes on, or its next carrier. *)
LEMMA AfterAuditAhead ==
    ASSUME NEW u \in UploadRecord, RowFits(u), NEW v, v = AfterAudit(u)
    PROVE  /\ v.kind = u.kind /\ v.rows = u.rows
           /\ \A p \in Elems(u.carriers) :
                 p = Head(u.carriers) \/ (v.row = u.row /\ p \in Elems(v.carriers))
<1>1. CASE v = NextCarrier(u)
  BY <1>1, CarriersAhead, NextCarrierMoves DEF SameFile
<1>2. CASE SameFile(u, v) /\ SameRow(u, v) /\ v.carriers = u.carriers
  BY <1>2 DEF SameFile, SameRow
<1>3. QED BY <1>1, <1>2, AfterAuditMoves

LEMMA RecordedServices ==
    ASSUME TypeInv, NEW r \in Upload, WriteAudit(r)
    PROVE  /\ up[r].row.services \subseteq Recorded(r).services
           /\ up[r].found # Null => up[r].found.services \subseteq Recorded(r).services
<1>1. PICK u : u = up[r]
  OBVIOUS
<1>2. u \in UploadRecord /\ u.found \in AuditRow \cup {Null}
  BY <1>1, FrameOf DEF UploadRecord
<1>3. CASE u.found = Null
  BY <1>1, <1>3 DEF Recorded
<1>4. CASE u.found # Null
  <2>1. PICK was : was = u.found
    OBVIOUS
  <2>2. PICK services : services = was.services \cup u.row.services
    OBVIOUS
  <2>3. was \in AuditRow
    BY <1>2, <1>4, <2>1
  <2>4. Recorded(r).services = services
    BY <1>1, <1>4, <2>1, <2>2, <2>3 DEF Recorded, AuditRow
  <2>5. QED BY <1>1, <2>1, <2>2, <2>4
<1>5. QED BY <1>3, <1>4

LEMMA WriteAuditQueues ==
    ASSUME TypeInv, NEW r \in Upload, WriteAudit(r), FoundFits(up[r]), QueueFits(up[r]),
           Steady(up[r]), NEW v, v = up'[r]
    PROVE  QueueFits(v)'
<1>1. PICK u : u = up[r]
  OBVIOUS
<1>2. /\ u \in UploadRecord /\ UploadFits(u) /\ RowFits(u) /\ u.pc = "audit"
      /\ u.rows \subseteq Row /\ u.row \in Row
  BY <1>1, FrameOf, FitsInRow DEF WriteAudit, RowPhase, CarrierPhase, UploadRecord, RowFits
<1>3. PICK k : k = EntryKey(u)
  OBVIOUS
<1>4. k = AuditOf(r) /\ k \in AuditKey
  BY <1>1, <1>2, <1>3, EntryKeyType DEF AuditOf, EntryKey, Carrier, RowPhase, CarrierPhase
<1>5. PICK e : e = Recorded(r)
  OBVIOUS
<1>6. /\ e # Null /\ e.status # "MANUALLY_OVERRIDDEN" /\ u.row.services \subseteq e.services
      /\ u.found # Null => u.found.services \subseteq e.services
  BY <1>1, <1>5, RecordedType, RecordedServices, Constants
<1>7. /\ u.found = audit[k] /\ (u.found # Null => u.found.status # "MANUALLY_OVERRIDDEN")
  BY <1>1, <1>2, <1>3 DEF FoundFits
<1>8. audit' = [audit EXCEPT ![k] = e] /\ v = AfterAudit(u) /\ UNCHANGED <<mnos, secondary>>
  BY <1>1, <1>4, <1>5 DEF WriteAudit, TypeInv, UpTypeOK
<1>9. audit'[k] = e
  BY <1>4, <1>8 DEF TypeInv, DbTypeOK
<1>10. ASSUME NEW row \in u.rows, NEW p \in CarriersOf(row), NEW c, c = CodeNow(u.kind, row),
              Queued(audit, p, c, row)
       PROVE  Queued(audit', p, c, row)
  <2>1. <<p, c, row.name>> \in AuditKey
    BY <1>2, <1>10, CodeNowType, AuditKeyOf
  <2>2. CASE <<p, c, row.name>> = k
    BY <1>6, <1>7, <1>9, <1>10, <2>2 DEF Queued
  <2>3. CASE <<p, c, row.name>> # k
    <3>1. audit'[<<p, c, row.name>>] = audit[<<p, c, row.name>>]
      BY <1>8, <2>1, <2>3 DEF TypeInv, DbTypeOK
    <3>2. QED BY <1>10, <3>1 DEF Queued
  <2>4. QED BY <2>2, <2>3
<1>11. Queued(audit', Head(u.carriers), CodeNow(u.kind, u.row), u.row)
  <2>1. u.code = CodeNow(u.kind, u.row)
    BY <1>1, <1>2 DEF Steady, RowPhase, CarrierPhase
  <2>2. QED BY <1>3, <1>6, <1>9, <2>1 DEF Queued, EntryKey
<1>12. /\ v.kind = u.kind /\ v.rows = u.rows
       /\ \A p \in Elems(u.carriers) :
            p = Head(u.carriers) \/ (v.row = u.row /\ p \in Elems(v.carriers))
  BY <1>2, <1>8, AfterAuditAhead
<1>13. QED BY <1>1, <1>8, <1>10, <1>11, <1>12, QueueMoves

LEMMA QueueGoesOn ==
    ASSUME UNCHANGED <<mnos, secondary, audit>>, NEW u, QueueFits(u), NEW v,
           v.kind = u.kind, v.rows = u.rows, v.row = u.row, v.carriers = u.carriers
    PROVE  QueueFits(v)'
BY QueueMoves

LEMMA TakeRowQueues ==
    ASSUME TypeInv, NEW r \in Upload, Steady(up[r]), QueueFits(up[r]),
           NEW row \in Row, TakeRow(r, row), NEW v, v = up'[r]
    PROVE  QueueFits(v)
<1>1. PICK u : u = Taking(r, row)
  OBVIOUS
<1>2. u \in UploadRecord /\ RowFits(u) /\ v \in Located(u)
  BY <1>1, TakeRowSteady
<1>3. /\ u.row = row /\ u.carriers = row.carriers /\ u.rows = up[r].rows \cup {row}
      /\ u.kind = up[r].kind
  BY <1>1, RowTaken
<1>4. /\ v.kind = u.kind /\ v.rows = u.rows /\ v.row = u.row /\ v.carriers = u.carriers
  BY <1>2, LocatedMoves DEF SameFile
<1>5. up[r].pc = "rows" /\ Elems(up[r].carriers) = {}
  BY NoElems DEF TakeRow, Steady, RowPhase, CarrierPhase
<1>6. CarriersOf(row) = Elems(row.carriers)
  BY RowType
<1>7. SUFFICES ASSUME NEW old \in v.rows, PlaceNow(v.kind, old) = {}, NEW p \in CarriersOf(old)
               PROVE  \/ Queued(audit, p, CodeNow(v.kind, old), old)
                      \/ old = v.row /\ p \in Elems(v.carriers)
  BY DEF QueueFits
<1>8. CASE old = row
  BY <1>3, <1>4, <1>6, <1>7, <1>8
<1>9. CASE old \in up[r].rows
  BY <1>3, <1>4, <1>5, <1>7, <1>9 DEF QueueFits
<1>10. QED BY <1>3, <1>4, <1>7, <1>8, <1>9

LEMMA UpsertQueues ==
    ASSUME TypeInv, NEW r \in Upload, Steady(up[r]), QueueFits(up[r]), NEW s \in Service,
           UpsertRow(r, s), NEW v, v = up'[r]
    PROVE  QueueFits(v)
<1>1. PICK u : u = up[r]
  OBVIOUS
<1>2. PICK k : k = <<u.mno, Head(u.carriers), s>>
  OBVIOUS
<1>3. u.pc = "upsert" /\ u.mno # Null
  BY <1>1, <1>2, UpsertMoves
<1>4. PICK w : /\ w \in UploadRecord /\ UploadFits(w) /\ w.pc = "upsert"
               /\ w.kind = u.kind /\ w.rows = u.rows /\ SameRow(u, w) /\ v = NextService(w, s)
  BY <1>1, <1>2, UpsertMoves
<1>5. PlaceNow(u.kind, u.row) # {}
  BY <1>1, <1>3 DEF Steady, RowPhase, CarrierPhase
<1>6. v.kind = u.kind /\ v.rows = u.rows
  <2>1. CASE v = NextCarrier(w)
    BY <1>4, <2>1, FitsInRow, NextCarrierMoves DEF SameFile, RowPhase, CarrierPhase
  <2>2. CASE v = [w EXCEPT !.services = w.services \ {s}]
    BY <1>4, <2>2 DEF UploadRecord
  <2>3. QED BY <1>4, <2>1, <2>2 DEF NextService
<1>7. QED BY <1>1, <1>5, <1>6 DEF QueueFits

LEMMA QueueStep ==
    ASSUME TypeInv, AloneInv, SteadyInv, QueueInv, [Next]_vars
    PROVE  QueueInv'
<1>1. SUFFICES ASSUME NEW r \in alone', NEW v, v = up'[r]
               PROVE  QueueFits(v)'
  BY DEF QueueInv
<1>2. r \in Upload /\ (AloneStart(r) \/ (r \in alone /\ (AloneStep(r) \/ UNCHANGED vars)))
  BY AloneCases
<1>3. CASE AloneStart(r)
  BY <1>1, <1>2, <1>3, StartFresh, FreshFits, QueueStays
<1>4. CASE r \in alone /\ UNCHANGED vars
  <2>1. UNCHANGED <<mnos, secondary, audit, up>>
    BY <1>4 DEF vars, db
  <2>2. QED BY <1>1, <1>4, <2>1, QueueStays DEF QueueInv
<1>5. CASE r \in alone /\ AloneStep(r)
  <2>1. PICK u : u = up[r]
    OBVIOUS
  <2>2. /\ UNCHANGED <<mnos, secondary>> /\ (WriteAudit(r) \/ audit' = audit)
        /\ Steady(u) /\ FoundFits(u) /\ QueueFits(u) /\ u \in UploadRecord /\ UploadFits(u)
    BY <1>2, <1>5, <2>1, AloneLeaves, UploadLeaves, FrameOf DEF SteadyInv, QueueInv
  <2>3. CASE WriteAudit(r)
    BY <1>1, <1>2, <2>1, <2>2, <2>3, WriteAuditQueues
  <2>4. ASSUME audit' = audit, QueueFits(v) PROVE QueueFits(v)'
    BY <2>2, <2>4, QueueStays
  <2>5. ASSUME audit' = audit, v.kind = u.kind, v.rows = u.rows, v.row = u.row,
               v.carriers = u.carriers
        PROVE  QueueFits(v)'
    BY <2>2, <2>5, QueueGoesOn
  <2>6. CASE audit' = audit /\ ((\E f \in File : NextFile(r, f))
                                 \/ (FinishFile(r) /\ up[r].kind = "zip"))
    BY <1>1, <1>2, <2>1, <2>2, <2>4, <2>6, NextFileFresh, NextOfArchiveFresh, FreshFits
  <2>7. CASE audit' = audit /\ (DeleteOldRows(r) \/ ReadRoster(r))
    <3>1. v.rows = {}
      BY <1>1, <1>2, <2>1, <2>2, <2>7, DeleteMoves, ReadRosterMoves
    <3>2. QED BY <2>4, <2>7, <3>1 DEF QueueFits
  <2>8. CASE audit' = audit /\ \E row \in Row : TakeRow(r, row)
    BY <1>1, <1>2, <2>1, <2>2, <2>4, <2>8, TakeRowQueues
  <2>9. CASE audit' = audit /\ (FindMnoByName(r) \/ CreateProvider(r))
    BY <1>1, <1>2, <2>1, <2>2, <2>5, <2>9, FindMnoSteady, CreateProviderMoves
       DEF SameFile, SameRow
  <2>10. CASE audit' = audit /\ RegisterAlias(r)
    <3>1. v = AtCarrier(u) /\ RowFits(u)
      BY <1>1, <1>2, <2>1, <2>2, <2>10, RegisterAliasMoves, FitsInRow DEF RowPhase, CarrierPhase
    <3>2. QED BY <2>2, <2>5, <2>10, <3>1, AtCarrierMoves DEF SameFile, SameRow
  <2>11. CASE audit' = audit /\ FindAudit(r)
    <3>1. CASE /\ v = AfterAudit(u) /\ audit[EntryKey(u)] # Null
               /\ audit[EntryKey(u)].status = "MANUALLY_OVERRIDDEN"
      <4>1. RowFits(u) /\ u.pc = "find"
        BY <1>2, <2>1, <2>11, FindAuditMoves
      <4>2. Queued(audit', Head(u.carriers), u.code, u.row) /\ u.code = CodeNow(u.kind, u.row)
        BY <2>2, <2>11, <3>1, <4>1 DEF Queued, EntryKey, Steady, RowPhase, CarrierPhase
      <4>3. /\ v.kind = u.kind /\ v.rows = u.rows
            /\ \A p \in Elems(u.carriers) :
                  p = Head(u.carriers) \/ (v.row = u.row /\ p \in Elems(v.carriers))
        BY <2>2, <3>1, <4>1, AfterAuditAhead
      <4>4. QED BY <2>2, <2>11, <4>2, <4>3, QueueMoves
    <3>2. CASE SameFile(u, v) /\ SameRow(u, v) /\ v.carriers = u.carriers
      BY <2>5, <2>11, <3>2 DEF SameFile, SameRow
    <3>3. QED BY <1>1, <1>2, <2>1, <2>11, <3>1, <3>2, FindAuditMoves
  <2>12. CASE audit' = audit /\ \E s \in Service : UpsertRow(r, s)
    BY <1>1, <1>2, <2>1, <2>2, <2>4, <2>12, UpsertQueues
  <2>13. QED BY <1>5, <2>2, <2>3, <2>6, <2>7, <2>8, <2>9, <2>10, <2>11, <2>12 DEF AloneStep
<1>6. QED BY <1>2, <1>3, <1>4, <1>5

(* Where the upload's own resolution puts a row is where the operators of now  *)
(* put it.                                                                     *)
LEMMA PlacementsNow ==
    ASSUME TypeInv, NEW r \in Upload, Steady(up[r]), up[r].pc = "rows", NEW row
    PROVE  CodeOf(r, row) = CodeNow(up[r].kind, row) /\ Placements(r, row) = PlaceNow(up[r].kind, row)
<1>1. /\ up[r].kind \in {"sheet", "matrix", "zip"} /\ up[r].roster = mnos
      /\ up[r].kind = "zip" => up[r].batch = mnos
  BY FrameOf DEF UploadRecord, Steady
<1>2. CodeOf(r, row) = CodeNow(up[r].kind, row)
  BY <1>1, CodeOfNow
<1>3. QED BY <1>2 DEF Placements, PlaceNow

(* When a file that nothing ran beside is through, each carrier of each row it *)
(* could not place has an entry with the row's services, or one an             *)
(* administrator had decided (upload.service.ts:345-396, 510-523, 600-649).    *)
THEOREM UnplacedAreQueued == Spec => NothingUnplacedVanishes
<1> DEFINE Done ==
        \A r \in alone : FinishFile(r) =>
            \A row \in up[r].rows : Placements(r, row) = {} =>
                \A p \in CarriersOf(row) :
                    LET entry == audit[<<p, CodeOf(r, row), row.name>>]
                    IN /\ entry # Null
                       /\ entry.status # "MANUALLY_OVERRIDDEN" =>
                            row.services \subseteq entry.services
<1>1. TypeInv /\ AloneInv /\ SteadyInv /\ QueueInv => Done
  <2>1. SUFFICES ASSUME TypeInv, AloneInv, SteadyInv, QueueInv, NEW r \in alone, FinishFile(r),
                        NEW row \in up[r].rows, Placements(r, row) = {}, NEW p \in CarriersOf(row)
                 PROVE  Queued(audit, p, CodeOf(r, row), row)
    BY DEF Done, Queued
  <2>2. r \in Upload /\ Steady(up[r]) /\ QueueFits(up[r]) /\ up[r].pc = "rows"
    BY <2>1 DEF TypeInv, DbTypeOK, SteadyInv, QueueInv, FinishFile
  <2>3. CodeOf(r, row) = CodeNow(up[r].kind, row) /\ PlaceNow(up[r].kind, row) = {}
    BY <2>1, <2>2, PlacementsNow
  <2>4. Elems(up[r].carriers) = {}
    BY <2>2, NoElems DEF Steady, RowPhase, CarrierPhase
  <2>5. QED BY <2>1, <2>2, <2>3, <2>4 DEF QueueFits
<1>2. Init => QueueInv
  BY DEF Init, QueueInv
<1>3. TypeInv /\ AloneInv /\ SteadyInv /\ QueueInv /\ [Next]_vars => QueueInv'
  BY QueueStep
<1> HIDE DEF Done
<1>4. Spec => [][Done]_vars
  BY <1>1, <1>2, <1>3, AloneAlways, PTL DEF Spec
<1>5. QED BY <1>4 DEF Done, NothingUnplacedVanishes

-----------------------------------------------------------------------------
(* What a replacing upload by itself has loaded is what its file has.          *)

(* All of the row's carriers and services, at the start of the row or of a     *)
(* carrier, are still to come.                                                 *)
LEMMA AllOutstanding ==
    ASSUME NEW v, v.carriers \in Seq(Provider), v.carriers # <<>>,
           v.pc = "name" \/ (v.pc \in CarrierPhase /\ v.services = v.row.services),
           NEW p \in Elems(v.carriers), NEW s \in v.row.services
    PROVE  Outstanding(v, p, s)
<1>1. p = Head(v.carriers) \/ p \in Elems(Tail(v.carriers))
  BY SequenceFacts
<1>2. QED BY <1>1 DEF Outstanding

LEMMA OutstandingCarriers ==
    ASSUME NEW u \in UploadRecord, u.carriers # <<>>, NEW p, NEW s, Outstanding(u, p, s)
    PROVE  p \in Elems(u.carriers)
<1>1. u.carriers \in Seq(Provider)
  BY DEF UploadRecord
<1>2. Elems(u.carriers) = {Head(u.carriers)} \cup Elems(Tail(u.carriers))
  BY <1>1, SequenceFacts
<1>3. QED BY <1>2 DEF Outstanding

(* What is still to come of the row stays so. *)
Ahead(u, v) ==
    \A p \in CarriersOf(u.row), s \in u.row.services :
        Outstanding(u, p, s) => v.row = u.row /\ Outstanding(v, p, s)

Loading(u) == u.pc \in {"roster", "rows"} \cup RowPhase

LEMMA LoadGoesOn ==
    ASSUME UNCHANGED <<mnos, secondary, reach>>, NEW u, LoadFits(u), Loading(u), NEW v,
           SameFile(u, v), PlaceNow(u.kind, u.row) # {} => Ahead(u, v)
    PROVE  LoadFits(v)'
<1>1. LoadFits(v)
  <2>1. SUFFICES ASSUME v.replace
                 PROVE  /\ FileRows(v.file) = v.seen /\ IsFiniteSet(v.seen)
                        /\ v.loaded = Cardinality(v.seen)
                        /\ \A k \in v.seen : \E row \in v.rows :
                              k \in PlaceNow(v.kind, row) \X CarriersOf(row) \X row.services
                        /\ \A row \in v.rows : PlaceNow(v.kind, row) # {} =>
                              \A p \in CarriersOf(row), s \in row.services :
                                 \/ \E m \in PlaceNow(v.kind, row) : <<m, p, s>> \in v.seen
                                 \/ row = v.row /\ Outstanding(v, p, s)
    BY DEF LoadFits
  <2>2. /\ FileRows(u.file) = u.seen /\ IsFiniteSet(u.seen) /\ u.loaded = Cardinality(u.seen)
        /\ \A k \in u.seen : \E row \in u.rows :
              k \in PlaceNow(u.kind, row) \X CarriersOf(row) \X row.services
        /\ \A row \in u.rows : PlaceNow(u.kind, row) # {} =>
              \A p \in CarriersOf(row), s \in row.services :
                 \/ \E m \in PlaceNow(u.kind, row) : <<m, p, s>> \in u.seen
                 \/ row = u.row /\ Outstanding(u, p, s)
    BY <2>1 DEF LoadFits, Loading, SameFile
  <2>3. /\ v.kind = u.kind /\ v.file = u.file /\ v.rows = u.rows
        /\ v.seen = u.seen /\ v.loaded = u.loaded
    BY DEF SameFile
  <2>4. ASSUME NEW row \in u.rows, PlaceNow(u.kind, row) # {}, NEW p \in CarriersOf(row),
               NEW s \in row.services, row = u.row, Outstanding(u, p, s)
        PROVE  row = v.row /\ Outstanding(v, p, s)
    BY <2>4 DEF Ahead
  <2>5. ASSUME NEW row \in v.rows, PlaceNow(v.kind, row) # {}, NEW p \in CarriersOf(row),
               NEW s \in row.services
        PROVE  \/ \E m \in PlaceNow(v.kind, row) : <<m, p, s>> \in v.seen
               \/ row = v.row /\ Outstanding(v, p, s)
    BY <2>2, <2>3, <2>4, <2>5
  <2>6. /\ FileRows(v.file) = v.seen /\ IsFiniteSet(v.seen)
        /\ v.loaded = Cardinality(v.seen)
        /\ \A k \in v.seen : \E row \in v.rows :
              k \in PlaceNow(v.kind, row) \X CarriersOf(row) \X row.services
    BY <2>2, <2>3
  <2>7. QED BY <2>5, <2>6
<1>2. QED BY <1>1, LoadStays

LEMMA AtCarrierAhead ==
    ASSUME NEW u \in UploadRecord, RowFits(u), NEW v, v = AtCarrier(u)
    PROVE  SameFile(u, v) /\ Ahead(u, v)
<1>1. /\ SameFile(u, v) /\ v.row = u.row /\ v.carriers = u.carriers
      /\ v.services = u.row.services /\ v.pc \in CarrierPhase
  BY AtCarrierMoves DEF SameRow, CarrierPhase, RowPhase
<1>2. u.carriers \in Seq(Provider) /\ u.carriers # <<>>
  BY DEF UploadRecord, RowFits
<1>3. QED BY <1>1, <1>2, AllOutstanding, OutstandingCarriers DEF Ahead

LEMMA SameAhead ==
    ASSUME NEW u, NEW v, v.row = u.row, v.carriers = u.carriers, v.services = u.services,
           u.pc \in CarrierPhase, v.pc \in CarrierPhase
    PROVE  Ahead(u, v)
BY DEF Ahead, Outstanding, CarrierPhase

LEMMA AfterAuditOutstanding ==
    ASSUME NEW u \in UploadRecord, RowFits(u), u.pc \in CarrierPhase, Steady(u),
           NEW v, v = AfterAudit(u)
    PROVE  SameFile(u, v) /\ (PlaceNow(u.kind, u.row) # {} => Ahead(u, v))
<1>1. CASE u.mno = Null /\ v = NextCarrier(u)
  BY <1>1, NextCarrierMoves DEF Steady
<1>2. CASE /\ SameFile(u, v) /\ SameRow(u, v) /\ v.carriers = u.carriers
           /\ v.services = u.services /\ v.pc = "upsert"
  BY <1>2, SameAhead DEF SameRow, CarrierPhase, RowPhase
<1>3. QED BY <1>1, <1>2, AfterAuditMoves

LEMMA TakeRowLoads ==
    ASSUME TypeInv, NEW r \in Upload, Steady(up[r]), LoadFits(up[r]),
           NEW row \in Row, TakeRow(r, row), NEW v, v = up'[r]
    PROVE  LoadFits(v)
<1>1. PICK t : t = up[r]
  OBVIOUS
<1>2. PICK u : u = Taking(r, row)
  OBVIOUS
<1>3. u \in UploadRecord /\ RowFits(u) /\ v \in Located(u)
  BY <1>2, TakeRowSteady
<1>4. /\ u.row = row /\ u.carriers = row.carriers /\ u.rows = t.rows \cup {row}
      /\ u.kind = t.kind /\ u.file = t.file /\ u.replace = t.replace
      /\ u.seen = t.seen /\ u.loaded = t.loaded
  BY <1>1, <1>2, RowTaken
<1>5. /\ SameFile(u, v) /\ v.row = u.row /\ v.carriers = u.carriers
      /\ v.pc = "name" \/ (v.pc \in CarrierPhase /\ v.services = v.row.services)
  BY <1>3, LocatedMoves DEF CarrierPhase, RowPhase
<1>6. t.pc = "rows"
  BY <1>1 DEF TakeRow
<1>7. CarriersOf(row) = Elems(row.carriers) /\ row.carriers \in Seq(Provider) /\ row.carriers # <<>>
  BY RowType
<1>8. /\ v.kind = t.kind /\ v.file = t.file /\ v.replace = t.replace /\ v.row = row
      /\ v.seen = t.seen /\ v.loaded = t.loaded /\ v.rows = t.rows \cup {row}
      /\ v.carriers = row.carriers
  BY <1>4, <1>5 DEF SameFile
<1>9. SUFFICES ASSUME v.replace
               PROVE  /\ FileRows(v.file) = v.seen /\ IsFiniteSet(v.seen)
                      /\ v.loaded = Cardinality(v.seen)
                      /\ \A k \in v.seen : \E old \in v.rows :
                            k \in PlaceNow(v.kind, old) \X CarriersOf(old) \X old.services
                      /\ \A old \in v.rows : PlaceNow(v.kind, old) # {} =>
                            \A p \in CarriersOf(old), s \in old.services :
                               \/ \E m \in PlaceNow(v.kind, old) : <<m, p, s>> \in v.seen
                               \/ old = v.row /\ Outstanding(v, p, s)
  BY DEF LoadFits
<1>10. /\ FileRows(t.file) = t.seen /\ IsFiniteSet(t.seen) /\ t.loaded = Cardinality(t.seen)
       /\ \A k \in t.seen : \E old \in t.rows :
             k \in PlaceNow(t.kind, old) \X CarriersOf(old) \X old.services
       /\ \A old \in t.rows : PlaceNow(t.kind, old) # {} =>
             \A p \in CarriersOf(old), s \in old.services :
                \/ \E m \in PlaceNow(t.kind, old) : <<m, p, s>> \in t.seen
                \/ old = t.row /\ Outstanding(t, p, s)
  BY <1>1, <1>6, <1>8, <1>9 DEF LoadFits
<1>11. \A p, s : ~Outstanding(t, p, s)
  BY <1>6 DEF Outstanding, CarrierPhase, RowPhase
<1>12. ASSUME NEW p \in CarriersOf(row), NEW s \in row.services PROVE Outstanding(v, p, s)
  BY <1>5, <1>7, <1>8, <1>12, AllOutstanding
<1>13. ASSUME NEW old \in v.rows, PlaceNow(v.kind, old) # {}, NEW p \in CarriersOf(old),
              NEW s \in old.services
       PROVE  \/ \E m \in PlaceNow(v.kind, old) : <<m, p, s>> \in v.seen
              \/ old = v.row /\ Outstanding(v, p, s)
  <2>1. CASE old = row
    BY <1>8, <1>12, <1>13, <2>1
  <2>2. CASE old \in t.rows
    BY <1>8, <1>10, <1>11, <1>13, <2>2
  <2>3. QED BY <1>8, <2>1, <2>2
<1>14. QED BY <1>8, <1>10, <1>13

LEMMA ReadRosterLoads ==
    ASSUME TypeInv, NEW r \in Upload, Steady(up[r]), LoadFits(up[r]), ReadRoster(r),
           NEW v, v = up'[r]
    PROVE  LoadFits(v)
<1>1. PICK u : u = up[r]
  OBVIOUS
<1>2. /\ v.kind = u.kind /\ v.replace = u.replace /\ v.file = u.file
      /\ v.rows = {} /\ v.seen = {} /\ v.loaded = 0 /\ u.seen = {} /\ u.loaded = 0
      /\ u.pc = "roster"
  BY <1>1, ReadRosterMoves
<1>3. u.replace => FileRows(u.file) = {} /\ IsFiniteSet(u.seen) /\ Cardinality(u.seen) = 0
  BY <1>1, <1>2 DEF LoadFits
<1>4. QED BY <1>2, <1>3 DEF LoadFits

LEMMA DeleteLoads ==
    ASSUME TypeInv, NEW r \in Upload, Steady(up[r]), DeleteOldRows(r), NEW v, v = up'[r]
    PROVE  LoadFits(v)'
<1>1. PICK u : u = up[r]
  OBVIOUS
<1>2. v.file = u.file /\ v.rows = {} /\ v.seen = {} /\ v.loaded = 0
  BY <1>1, DeleteMoves DEF SameFile
<1>3. u.file \in File /\ u.file # Null
  BY <1>1, FrameOf, Constants DEF DeleteOldRows, UploadFits
<1>4. {k \in ReachKey : reach'[k] = u.file} = {}
  BY <1>1, <1>3 DEF DeleteOldRows, FileRows
<1>5. IsFiniteSet({}) /\ Cardinality({}) = 0
  BY FS_EmptySet
<1>6. QED BY <1>2, <1>4, <1>5 DEF LoadFits, FileRows

(* A service is through: the others and the carriers behind are to come. *)
LEMMA NextServiceAhead ==
    ASSUME NEW w \in UploadRecord, RowFits(w), w.pc = "upsert", NEW s0,
           NEW v, v = NextService(w, s0)
    PROVE  /\ SameFile(w, v)
           /\ \A p \in CarriersOf(w.row), s \in w.row.services : Outstanding(w, p, s) =>
                 \/ p = Head(w.carriers) /\ s = s0
                 \/ v.row = w.row /\ Outstanding(v, p, s)
<1>1. w.carriers \in Seq(Provider) /\ w.carriers # <<>>
  BY DEF UploadRecord, RowFits
<1>2. CASE w.services \ {s0} = {}
  <2>1. v = NextCarrier(w)
    BY <1>2 DEF NextService
  <2>2. SameFile(w, v)
    BY <2>1, NextCarrierMoves
  <2>3. ASSUME NEW p \in CarriersOf(w.row), NEW s \in w.row.services, Outstanding(w, p, s)
        PROVE  \/ p = Head(w.carriers) /\ s = s0
               \/ v.row = w.row /\ Outstanding(v, p, s)
    <3>1. p \in Elems(Tail(w.carriers)) \/ (p = Head(w.carriers) /\ s \in w.services)
      BY <2>3 DEF Outstanding
    <3>2. CASE p = Head(w.carriers) /\ s \in w.services
      BY <1>2, <3>2
    <3>3. CASE p \in Elems(Tail(w.carriers))
      <4>1. Tail(w.carriers) # <<>>
        BY <3>3, NoElems
      <4>2. /\ v.row = w.row /\ v.carriers = Tail(w.carriers)
            /\ v.services = w.row.services /\ v.pc \in CarrierPhase
        BY <2>1, <4>1, NextCarrierMoves DEF SameRow, CarrierPhase, RowPhase
      <4>3. Tail(w.carriers) \in Seq(Provider)
        BY <1>1, SequenceFacts
      <4>4. QED BY <2>3, <3>3, <4>1, <4>2, <4>3, AllOutstanding
    <3>4. QED BY <3>1, <3>2, <3>3
  <2>4. QED BY <2>2, <2>3
<1>3. CASE w.services \ {s0} # {}
  <2>1. PICK rest : rest = w.services \ {s0}
    OBVIOUS
  <2>2. v = [w EXCEPT !.services = rest]
    BY <1>3, <2>1 DEF NextService
  <2>3. /\ SameFile(w, v) /\ v.row = w.row /\ v.carriers = w.carriers /\ v.pc = w.pc
        /\ v.services = rest
    BY <2>2 DEF UploadRecord, SameFile
  <2>4. QED BY <2>1, <2>3 DEF Outstanding
<1>4. QED BY <1>2, <1>3

LEMMA UpsertLoads ==
    ASSUME TypeInv, NEW r \in Upload, Steady(up[r]), LoadFits(up[r]), NEW s0 \in Service,
           UpsertRow(r, s0), NEW v, v = up'[r]
    PROVE  LoadFits(v)'
<1>1. PICK u : u = up[r]
  OBVIOUS
<1>2. PICK k : k = <<u.mno, Head(u.carriers), s0>>
  OBVIOUS
<1>3. /\ u \in UploadRecord /\ UploadFits(u) /\ RowFits(u) /\ u.pc = "upsert"
      /\ u.mno # Null /\ s0 \in u.services /\ k \in ReachKey
  BY <1>1, <1>2, UpsertMoves
<1>4. PICK w : /\ w \in UploadRecord /\ UploadFits(w) /\ w.pc = "upsert"
               /\ SameRow(u, w) /\ w.carriers = u.carriers /\ w.services = u.services
               /\ w.kind = u.kind /\ w.replace = u.replace /\ w.file = u.file
               /\ w.rows = u.rows /\ v = NextService(w, s0)
               /\ w.seen = u.seen \cup {k}
               /\ \/ k \in u.seen /\ w.loaded = u.loaded /\ reach' = reach
                  \/ /\ k \notin u.seen /\ w.loaded = u.loaded + 1
                     /\ reach' = [reach EXCEPT ![k] = u.file]
  BY <1>1, <1>2, UpsertMoves
<1>5. /\ SameFile(w, v)
      /\ \A p \in CarriersOf(w.row), s \in w.row.services : Outstanding(w, p, s) =>
            \/ p = Head(w.carriers) /\ s = s0
            \/ v.row = w.row /\ Outstanding(v, p, s)
  BY <1>4, FitsInRow, NextServiceAhead DEF RowPhase, CarrierPhase
<1>6. /\ v.kind = u.kind /\ v.file = u.file /\ v.replace = u.replace /\ v.rows = u.rows
      /\ v.seen = u.seen \cup {k} /\ v.loaded = w.loaded
  BY <1>4, <1>5 DEF SameFile
<1>7. ASSUME NEW p \in CarriersOf(u.row), NEW s \in u.row.services, Outstanding(u, p, s)
      PROVE  \/ <<u.mno, p, s>> = k
             \/ v.row = u.row /\ Outstanding(v, p, s)
  BY <1>2, <1>3, <1>4, <1>5, <1>7 DEF Outstanding, SameRow, CarrierPhase, RowPhase
<1>8. /\ u.row \in u.rows /\ u.mno \in PlaceNow(u.kind, u.row) /\ s0 \in u.row.services
  BY <1>1, <1>3 DEF Steady, CarrierPhase, RowPhase
<1>9. Head(u.carriers) \in CarriersOf(u.row)
  BY <1>3, SequenceFacts DEF RowFits, UploadRecord
<1>10. UNCHANGED <<mnos, secondary>>
  BY DEF UpsertRow
<1>11. SUFFICES ASSUME v.replace
                PROVE  /\ {j \in ReachKey : reach'[j] = v.file} = v.seen
                       /\ IsFiniteSet(v.seen) /\ v.loaded = Cardinality(v.seen)
                       /\ \A j \in v.seen : \E row \in v.rows :
                             j \in PlaceNow(v.kind, row) \X CarriersOf(row) \X row.services
                       /\ \A row \in v.rows : PlaceNow(v.kind, row) # {} =>
                             \A p \in CarriersOf(row), s \in row.services :
                                \/ \E m \in PlaceNow(v.kind, row) : <<m, p, s>> \in v.seen
                                \/ row = v.row /\ Outstanding(v, p, s)
  <2>1. ASSUME NEW p, NEW s PROVE Outstanding(v, p, s)' = Outstanding(v, p, s)
    BY DEF Outstanding
  <2>2. QED BY <1>10, <2>1, PlaceStays DEF LoadFits, FileRows, Outstanding
<1>12. /\ FileRows(u.file) = u.seen /\ IsFiniteSet(u.seen) /\ u.loaded = Cardinality(u.seen)
       /\ \A j \in u.seen : \E row \in u.rows :
             j \in PlaceNow(u.kind, row) \X CarriersOf(row) \X row.services
       /\ \A row \in u.rows : PlaceNow(u.kind, row) # {} =>
             \A p \in CarriersOf(row), s \in row.services :
                \/ \E m \in PlaceNow(u.kind, row) : <<m, p, s>> \in u.seen
                \/ row = u.row /\ Outstanding(u, p, s)
  BY <1>1, <1>3, <1>6, <1>11 DEF LoadFits, RowPhase, CarrierPhase
<1>13. {j \in ReachKey : reach'[j] = v.file} = v.seen
  <2>1. {j \in ReachKey : reach[j] = u.file} = u.seen
    BY <1>12 DEF FileRows
  <2>2. CASE k \in u.seen /\ reach' = reach
    BY <1>6, <2>1, <2>2
  <2>3. CASE reach' = [reach EXCEPT ![k] = u.file]
    <3>1. \A j \in ReachKey : reach'[j] = IF j = k THEN u.file ELSE reach[j]
      BY <1>3, <2>3 DEF TypeInv, DbTypeOK
    <3>2. QED BY <1>3, <1>6, <2>1, <3>1
  <2>4. QED BY <1>4, <2>2, <2>3
<1>14. IsFiniteSet(v.seen) /\ v.loaded = Cardinality(v.seen)
  <2>1. /\ IsFiniteSet(u.seen \cup {k})
        /\ Cardinality(u.seen \cup {k}) =
              IF k \in u.seen THEN Cardinality(u.seen) ELSE Cardinality(u.seen) + 1
    BY <1>12, FS_AddElement
  <2>2. w.loaded = IF k \in u.seen THEN u.loaded ELSE u.loaded + 1
    BY <1>4
  <2>3. QED BY <1>6, <1>12, <2>1, <2>2
<1>15. ASSUME NEW j \in v.seen
       PROVE  \E row \in v.rows :
                 j \in PlaceNow(v.kind, row) \X CarriersOf(row) \X row.services
  <2>1. CASE j = k
    BY <1>2, <1>6, <1>8, <1>9, <2>1
  <2>2. CASE j \in u.seen
    BY <1>6, <1>12, <2>2
  <2>3. QED BY <1>6, <2>1, <2>2
<1>16. ASSUME NEW row \in v.rows, PlaceNow(v.kind, row) # {}, NEW p \in CarriersOf(row),
              NEW s \in row.services
       PROVE  \/ \E m \in PlaceNow(v.kind, row) : <<m, p, s>> \in v.seen
              \/ row = v.row /\ Outstanding(v, p, s)
  <2>1. CASE \E m \in PlaceNow(u.kind, row) : <<m, p, s>> \in u.seen
    BY <1>6, <2>1
  <2>2. CASE row = u.row /\ Outstanding(u, p, s)
    BY <1>6, <1>7, <1>8, <1>16, <2>2
  <2>3. QED BY <1>6, <1>12, <1>16, <2>1, <2>2
<1>17. QED BY <1>13, <1>14, <1>15, <1>16

LEMMA LoadStep ==
    ASSUME TypeInv, AloneInv, SteadyInv, LoadInv, [Next]_vars
    PROVE  LoadInv'
<1>1. SUFFICES ASSUME NEW r \in alone', NEW v, v = up'[r]
               PROVE  LoadFits(v)'
  BY DEF LoadInv
<1>2. r \in Upload /\ (AloneStart(r) \/ (r \in alone /\ (AloneStep(r) \/ UNCHANGED vars)))
  BY AloneCases
<1>3. CASE AloneStart(r)
  BY <1>1, <1>2, <1>3, StartFresh, FreshFits, LoadStays
<1>4. CASE r \in alone /\ UNCHANGED vars
  <2>1. UNCHANGED <<mnos, secondary, reach, up>>
    BY <1>4 DEF vars, db
  <2>2. QED BY <1>1, <1>4, <2>1, LoadStays DEF LoadInv
<1>5. CASE r \in alone /\ AloneStep(r)
  <2>1. PICK u : u = up[r]
    OBVIOUS
  <2>2. /\ UNCHANGED <<mnos, secondary>>
        /\ DeleteOldRows(r) \/ (\E s \in Service : UpsertRow(r, s)) \/ reach' = reach
        /\ Steady(u) /\ FoundFits(u) /\ LoadFits(u) /\ u \in UploadRecord /\ UploadFits(u)
    BY <1>2, <1>5, <2>1, AloneLeaves, UploadLeaves, FrameOf DEF SteadyInv, LoadInv
  <2>3. CASE DeleteOldRows(r)
    BY <1>1, <1>2, <2>1, <2>2, <2>3, DeleteLoads
  <2>4. CASE \E s \in Service : UpsertRow(r, s)
    BY <1>1, <1>2, <2>1, <2>2, <2>4, UpsertLoads
  <2>5. ASSUME reach' = reach, LoadFits(v) PROVE LoadFits(v)'
    BY <2>2, <2>5, LoadStays
  <2>6. ASSUME reach' = reach, Loading(u), SameFile(u, v),
               PlaceNow(u.kind, u.row) # {} => Ahead(u, v)
        PROVE  LoadFits(v)'
    BY <2>2, <2>6, LoadGoesOn
  <2>7. CASE reach' = reach /\ ((\E f \in File : NextFile(r, f))
                                 \/ (FinishFile(r) /\ up[r].kind = "zip"))
    BY <1>1, <1>2, <2>1, <2>2, <2>5, <2>7, NextFileFresh, NextOfArchiveFresh, FreshFits
  <2>8. CASE reach' = reach /\ ReadRoster(r)
    BY <1>1, <1>2, <2>1, <2>2, <2>5, <2>8, ReadRosterLoads
  <2>9. CASE reach' = reach /\ \E row \in Row : TakeRow(r, row)
    BY <1>1, <1>2, <2>1, <2>2, <2>5, <2>9, TakeRowLoads
  <2>10. CASE reach' = reach /\ FindMnoByName(r)
    <3>1. u.pc = "name" /\ RowFits(u)
      BY <2>1, <2>2, <2>10, FitsInRow DEF FindMnoByName, RowPhase
    <3>2. /\ SameFile(u, v) /\ v.row = u.row
          /\ v.carriers = u.carriers /\ v.services = u.row.services /\ v.pc \in CarrierPhase
      BY <1>1, <1>2, <2>1, <2>2, <2>10, FindMnoSteady DEF CarrierPhase, RowPhase
    <3>3. u.carriers \in Seq(Provider) /\ u.carriers # <<>>
      BY <2>2, <3>1 DEF UploadRecord, RowFits
    <3>4. Ahead(u, v)
      BY <2>2, <3>2, <3>3, AllOutstanding, OutstandingCarriers DEF Ahead
    <3>5. QED BY <2>6, <2>10, <3>1, <3>2, <3>4 DEF Loading, RowPhase
  <2>11. CASE reach' = reach /\ CreateProvider(r)
    <3>1. /\ SameFile(u, v) /\ v.row = u.row /\ v.carriers = u.carriers
          /\ v.services = u.services /\ u.pc \in CarrierPhase /\ v.pc \in CarrierPhase
      BY <1>1, <1>2, <2>1, <2>11, CreateProviderMoves DEF SameRow, CarrierPhase, RowPhase
    <3>2. QED BY <2>6, <2>11, <3>1, SameAhead DEF Loading, CarrierPhase
  <2>12. CASE reach' = reach /\ RegisterAlias(r)
    <3>1. v = AtCarrier(u) /\ RowFits(u) /\ u.pc = "alias"
      BY <1>1, <1>2, <2>1, <2>2, <2>12, RegisterAliasMoves, FitsInRow DEF RowPhase, CarrierPhase
    <3>2. QED BY <2>2, <2>6, <2>12, <3>1, AtCarrierAhead DEF Loading, RowPhase
  <2>13. CASE reach' = reach /\ FindAudit(r)
    <3>1. RowFits(u) /\ u.pc = "find" /\ u.pc \in CarrierPhase
      BY <1>2, <2>1, <2>13, FindAuditMoves DEF CarrierPhase, RowPhase
    <3>2. CASE v = AfterAudit(u)
      BY <2>2, <2>6, <2>13, <3>1, <3>2, AfterAuditOutstanding DEF Loading, RowPhase
    <3>3. CASE SameFile(u, v) /\ SameRow(u, v) /\ v.carriers = u.carriers
               /\ v.services = u.services /\ v.pc = "audit"
      BY <2>6, <2>13, <3>1, <3>3, SameAhead DEF Loading, SameRow, CarrierPhase, RowPhase
    <3>4. QED BY <1>1, <1>2, <2>1, <2>13, <3>2, <3>3, FindAuditMoves
  <2>14. CASE reach' = reach /\ WriteAudit(r)
    <3>1. v = AfterAudit(u) /\ u.pc = "audit" /\ u.pc \in CarrierPhase /\ RowFits(u)
      BY <1>1, <1>2, <2>1, <2>2, <2>14, FitsInRow
         DEF WriteAudit, CarrierPhase, RowPhase, TypeInv, UpTypeOK
    <3>2. QED BY <2>2, <2>6, <2>14, <3>1, AfterAuditOutstanding DEF Loading, RowPhase
  <2>15. QED BY <1>5, <2>2, <2>3, <2>4, <2>7, <2>8, <2>9, <2>10, <2>11, <2>12, <2>13, <2>14
         DEF AloneStep
<1>6. QED BY <1>2, <1>3, <1>4, <1>5

(* When a replacement that nothing ran beside is through a file, the rows      *)
(* under that file's name are exactly those its content stands for, and the    *)
(* count it reports is theirs (upload.service.ts:155-172, 247-250, 556-586).   *)
THEOREM ReplacementsAreExact == Spec => ReplaceIsExact
<1> DEFINE Done ==
        \A r \in alone : FinishFile(r) /\ up[r].replace =>
            LET rows == FileRows(up[r].file)
            IN /\ \A k \in rows : \E row \in up[r].rows :
                     k \in Placements(r, row) \X CarriersOf(row) \X row.services
               /\ \A row \in up[r].rows : Placements(r, row) # {} =>
                     \A p \in CarriersOf(row), s \in row.services :
                        \E m \in Placements(r, row) : <<m, p, s>> \in rows
               /\ up[r].loaded = Cardinality(rows)
<1>1. TypeInv /\ AloneInv /\ SteadyInv /\ LoadInv => Done
  <2>1. SUFFICES ASSUME TypeInv, AloneInv, SteadyInv, LoadInv, NEW r \in alone, FinishFile(r),
                        NEW u, u = up[r], u.replace
                 PROVE  /\ \A k \in FileRows(u.file) : \E row \in u.rows :
                              k \in Placements(r, row) \X CarriersOf(row) \X row.services
                        /\ \A row \in u.rows : Placements(r, row) # {} =>
                              \A p \in CarriersOf(row), s \in row.services :
                                 \E m \in Placements(r, row) : <<m, p, s>> \in FileRows(u.file)
                        /\ u.loaded = Cardinality(FileRows(u.file))
    BY DEF Done
  <2>2. r \in Upload /\ Steady(u) /\ LoadFits(u) /\ u.pc = "rows"
    BY <2>1 DEF TypeInv, DbTypeOK, SteadyInv, LoadInv, FinishFile
  <2>3. \A row : Placements(r, row) = PlaceNow(u.kind, row)
    BY <2>1, <2>2, PlacementsNow
  <2>4. \A p, s : ~Outstanding(u, p, s)
    BY <2>2 DEF Outstanding, CarrierPhase, RowPhase
  <2>5. /\ FileRows(u.file) = u.seen /\ IsFiniteSet(u.seen) /\ u.loaded = Cardinality(u.seen)
        /\ \A j \in u.seen : \E row \in u.rows :
              j \in PlaceNow(u.kind, row) \X CarriersOf(row) \X row.services
        /\ \A row \in u.rows : PlaceNow(u.kind, row) # {} =>
              \A p \in CarriersOf(row), s \in row.services :
                 \/ \E m \in PlaceNow(u.kind, row) : <<m, p, s>> \in u.seen
                 \/ row = u.row /\ Outstanding(u, p, s)
    BY <2>1, <2>2 DEF LoadFits
  <2>6. QED BY <2>3, <2>4, <2>5
<1>2. Init => LoadInv
  BY DEF Init, LoadInv
<1>3. TypeInv /\ AloneInv /\ SteadyInv /\ LoadInv /\ [Next]_vars => LoadInv'
  BY LoadStep
<1> HIDE DEF Done
<1>4. Spec => [][Done]_vars
  BY <1>1, <1>2, <1>3, AloneAlways, PTL DEF Spec
<1>5. QED BY <1>4 DEF Done, ReplaceIsExact
=============================================================================
