------------------------- MODULE ChangeHistoryProofs -------------------------
(***************************************************************************)
(* What backfillChangeHistory and reclassifyChangeHistoryTaxonomy          *)
(* guarantee for all descriptions, dates, corrections and faults.  The     *)
(* backfill decides from the sets it read once; the invariant of its part  *)
(* says that they cover the table for as long as the loop runs.  A pass    *)
(* decides row by row from the wins of the rows before; what that comes to *)
(* is shown by induction over its order, and its invariant keeps order and *)
(* wins in hand while the updates go out in batches.  The figures of the   *)
(* market page agree because every stored row has the sides of its type.   *)
(***************************************************************************)
EXTENDS MarketViews, FiniteSetTheorems, SequenceTheorems, InductionLemmas, TLAPS

(* The table has rows 1 to n: what the backfill needs of its type.            *)
RowsAreASequence == \E S : rows \in Seq(S)

RequestIsARecord ==
    req = [pc |-> req.pc, seen |-> req.seen, added |-> req.added, onb |-> req.onb,
           done |-> req.done, todo |-> req.todo]

KnownAreProviders == known \subseteq Provider

SeenCoversTable ==
    req.pc = "items" => \A i \in DOMAIN rows : DedupKey(rows[i]) \in req.seen

AddedCoversGains ==
    req.pc = "items" =>
        \A i \in DOMAIN rows, p \in Provider : Gains(rows[i], p) => p \in req.added

BackfillInv ==
    /\ RowsAreASequence
    /\ RequestIsARecord
    /\ KnownAreProviders
    /\ SeenCoversTable
    /\ AddedCoversGains

(* Appending keeps the rows there are and adds one. *)
LEMMA AppendRow ==
    ASSUME RowsAreASequence, NEW row, rows' = Append(rows, row)
    PROVE  /\ RowsAreASequence'
           /\ DOMAIN rows' = DOMAIN rows \cup {Len(rows) + 1}
           /\ DOMAIN rows' \ DOMAIN rows = {Len(rows) + 1}
           /\ \A i \in DOMAIN rows : rows'[i] = rows[i]
           /\ rows'[Len(rows) + 1] = row
<1>1. PICK S : rows \in Seq(S)
  BY DEF RowsAreASequence
<1>2. rows \in Seq(S \cup {row}) /\ row \in S \cup {row}
  BY <1>1
<1>3. rows' \in Seq(S \cup {row})
  BY <1>2
<1>4. /\ DOMAIN rows = 1 .. Len(rows) /\ Len(rows) \in Nat
      /\ DOMAIN rows' = 1 .. Len(rows) + 1
      /\ \A i \in 1 .. Len(rows) : rows'[i] = rows[i]
      /\ rows'[Len(rows) + 1] = row
  BY <1>2
<1> QED
  BY <1>3, <1>4 DEF RowsAreASequence

(* Rewriting rows in place keeps their number. *)
LEMMA RewriteRows ==
    ASSUME RowsAreASequence, rows' = [i \in DOMAIN rows |-> rows'[i]]
    PROVE  RowsAreASequence'
<1>1. PICK S : rows \in Seq(S)
  BY DEF RowsAreASequence
<1> DEFINE T == {rows'[i] : i \in DOMAIN rows}
<1>2. DOMAIN rows = 1 .. Len(rows) /\ Len(rows) \in Nat
  BY <1>1
<1>3. rows' \in [1 .. Len(rows) -> T]
  BY <1>2
<1>4. rows' \in Seq(T)
  BY <1>2, <1>3
<1> QED
  BY <1>4 DEF RowsAreASequence

(* The row an entry calls for keeps its text; a winner that is neither unknown *)
(* nor the pairing of the request is named by the text and not on record.      *)
LEMMA RowOfEntry ==
    ASSUME KnownAreProviders, NEW t, NEW day, NEW row \in RowOf(t, day)
    PROVE  /\ row.text = t
           /\ row.source = "HISTORY"
           /\ row.new # Null /\ row.new # req.onb =>
                row.new \in Provider /\ row.new \notin req.added
<1> DEFINE s == Sides(t, req.added, req.onb)
<1>1. s.new # Null /\ s.new # req.onb => s.new \in Provider /\ s.new \notin req.added
  BY DEF Sides, Reconcile, Resolve, KnownAreProviders
<1>2. \/ row = HistoryRow(t, day, ChangeType(s.old, s.new), s.old, s.new)
      \/ row = HistoryRow(t, day, "UPDATE", Null, Null)
  BY DEF RowOf
<1> HIDE DEF s
<1> QED
  BY <1>1, <1>2 DEF HistoryRow

-----------------------------------------------------------------------------
LEMMA BackfillInit == Init => BackfillInv
<1> SUFFICES ASSUME Init PROVE BackfillInv
  OBVIOUS
<1>1. rows \in Seq({})
  BY DEF Init
<1> QED
  BY <1>1 DEF Init, IdleRequest, BackfillInv, RowsAreASequence, RequestIsARecord,
       KnownAreProviders, SeenCoversTable, AddedCoversGains

LEMMA RecordItemStep ==
    ASSUME BackfillInv, NEW t \in Text, NEW day \in Day, RecordItem(t, day)
    PROVE  BackfillInv'
<1> USE DEF BackfillInv
<1>1. PICK row \in RowOf(t, day) :
         /\ rows' = Append(rows, row)
         /\ req' = [req EXCEPT !.done = @ \cup {<<t, day>>},
                               !.seen = @ \cup {DedupKey(row)},
                               !.added = @ \cup ({row.new} \ {Null})]
  BY DEF RecordItem
<1>2. /\ RowsAreASequence'
      /\ DOMAIN rows' = DOMAIN rows \cup {Len(rows) + 1}
      /\ \A i \in DOMAIN rows : rows'[i] = rows[i]
      /\ rows'[Len(rows) + 1] = row
  BY <1>1, AppendRow
<1>3. /\ req.pc = "items"
      /\ req'.seen = req.seen \cup {DedupKey(row)}
      /\ req'.added = req.added \cup ({row.new} \ {Null})
      /\ RequestIsARecord'
  BY <1>1 DEF RecordItem, NextItem, RequestIsARecord
<1>4. KnownAreProviders'
  BY DEF RecordItem, KnownAreProviders
<1>5. SeenCoversTable'
  BY <1>2, <1>3 DEF SeenCoversTable, DedupKey
<1>6. AddedCoversGains'
  <2> SUFFICES ASSUME NEW i \in DOMAIN rows', NEW p \in Provider, Gains(rows'[i], p)
               PROVE  p \in req'.added
    BY DEF AddedCoversGains, Gains
  <2>1. CASE i \in DOMAIN rows
    BY <2>1, <1>2, <1>3 DEF AddedCoversGains
  <2>2. CASE i = Len(rows) + 1
    BY <2>2, <1>2, <1>3, ConstantsAssumption DEF Gains
  <2> QED
    BY <2>1, <2>2, <1>2
<1> QED
  BY <1>2, <1>3, <1>4, <1>5, <1>6

LEMMA ReadRowsStep ==
    ASSUME BackfillInv, NEW onb, ReadRows(onb)
    PROVE  BackfillInv'
<1> USE DEF BackfillInv
<1>1. /\ rows' = rows /\ known' = known
      /\ req'.seen = {DedupKey(rows[i]) : i \in DOMAIN rows}
      /\ req'.added = GainsOnRecord
      /\ RequestIsARecord'
  BY DEF ReadRows, RequestIsARecord, db
<1>2. SeenCoversTable'
  BY <1>1 DEF SeenCoversTable, DedupKey
<1>3. AddedCoversGains'
  BY <1>1 DEF AddedCoversGains, GainsOnRecord, Gains
<1> QED
  BY <1>1, <1>2, <1>3 DEF RowsAreASequence, KnownAreProviders

(* Any other step that may rewrite the table leaves no loop running. *)
LEMMA OutsideTheLoop ==
    ASSUME RowsAreASequence', RequestIsARecord', KnownAreProviders', req'.pc # "items"
    PROVE  BackfillInv'
  BY DEF BackfillInv, SeenCoversTable, AddedCoversGains

(* A step that neither writes the table nor goes on in the loop's sets. *)
LEMMA SameTable ==
    ASSUME BackfillInv, UNCHANGED rows, RequestIsARecord', KnownAreProviders',
           req'.pc = req.pc, req'.seen = req.seen, req'.added = req.added
    PROVE  BackfillInv'
<1>1. RowsAreASequence'
  BY DEF BackfillInv, RowsAreASequence
<1>2. SeenCoversTable' /\ AddedCoversGains'
  BY DEF BackfillInv, SeenCoversTable, AddedCoversGains, DedupKey, Gains
<1> QED
  BY <1>1, <1>2 DEF BackfillInv

LEMMA BackfillNext == BackfillInv /\ [Next]_vars => BackfillInv'
<1> SUFFICES ASSUME BackfillInv, [Next]_vars PROVE BackfillInv'
  OBVIOUS
<1>i. RowsAreASequence /\ RequestIsARecord /\ KnownAreProviders
  BY DEF BackfillInv
<1>1. ASSUME NEW d, NEW replace, NEW day, BeginFile(d, replace, day)
      PROVE  BackfillInv'
  <2>1. RowsAreASequence'
    <3>1. CASE rows' = rows
      BY <3>1, <1>i DEF RowsAreASequence
    <3>2. CASE rows' # rows
      <4>1. PICK row : rows' = Append(rows, row)
        BY <1>1, <3>2 DEF BeginFile
      <4> QED
        BY <4>1, <1>i, AppendRow
    <3> QED
      BY <3>1, <3>2
  <2>2. RequestIsARecord' /\ req'.pc # "items" /\ KnownAreProviders'
    BY <1>1, <1>i DEF BeginFile, IdleRequest, RequestIsARecord, KnownAreProviders
  <2> QED
    BY <2>1, <2>2, OutsideTheLoop
<1>2. ASSUME NEW onb, ReadRows(onb) PROVE BackfillInv'
  BY <1>2, ReadRowsStep
<1>3. ASSUME NEW t \in Text, NEW day \in Day, RecordItem(t, day) PROVE BackfillInv'
  BY <1>3, RecordItemStep
<1>4. ASSUME NEW t, NEW day, SkipItem(t, day) PROVE BackfillInv'
  <2>1. /\ UNCHANGED rows /\ RequestIsARecord' /\ KnownAreProviders'
        /\ req'.pc = req.pc /\ req'.seen = req.seen /\ req'.added = req.added
    BY <1>4, <1>i DEF SkipItem, RequestIsARecord, KnownAreProviders, db
  <2> QED
    BY <2>1, SameTable
<1>5. CASE FinishFile \/ RequestDies
  <2>1. UNCHANGED <<rows, known>> /\ req' = IdleRequest
    BY <1>5 DEF FinishFile, RequestDies, db
  <2> QED
    BY <2>1, <1>i, OutsideTheLoop
    DEF IdleRequest, RowsAreASequence, RequestIsARecord, KnownAreProviders
<1>6. CASE StartPass
  <2>1. UNCHANGED <<rows, known>>
    BY <1>6 DEF StartPass, db
  <2>2. PICK todo : req' = [IdleRequest EXCEPT !.pc = "pass", !.todo = todo]
    BY <1>6 DEF StartPass
  <2> QED
    BY <2>1, <2>2, <1>i, OutsideTheLoop
    DEF IdleRequest, RowsAreASequence, RequestIsARecord, KnownAreProviders
<1>7. CASE ApplyBatch
  <2>1. rows' = [i \in DOMAIN rows |-> rows'[i]]
    BY <1>7 DEF ApplyBatch
  <2>2. RowsAreASequence'
    BY <2>1, <1>i, RewriteRows
  <2>3. RequestIsARecord' /\ req'.pc # "items" /\ KnownAreProviders'
    BY <1>7, <1>i DEF ApplyBatch, RequestIsARecord, KnownAreProviders
  <2> QED
    BY <2>2, <2>3, OutsideTheLoop
<1>8. CASE FinishPass
  <2>1. UNCHANGED <<rows, known>> /\ req' = IdleRequest
    BY <1>8 DEF FinishPass, db
  <2> QED
    BY <2>1, <1>i, OutsideTheLoop
    DEF IdleRequest, RowsAreASequence, RequestIsARecord, KnownAreProviders
<1>9. ASSUME NEW p \in Provider, ToggleAlias(p) PROVE BackfillInv'
  <2>1. UNCHANGED <<rows, req>> /\ KnownAreProviders'
    BY <1>9, <1>i DEF ToggleAlias, Correct, KnownAreProviders
  <2> QED
    BY <2>1, <1>i, SameTable DEF RequestIsARecord
<1>10. ASSUME NEW i \in DOMAIN rows, NEW type, NEW onboarding,
              Review(i, type, onboarding)
       PROVE  BackfillInv'
  <2>1. rows' = [j \in DOMAIN rows |-> rows'[j]]
    BY <1>10 DEF Review
  <2>2. RowsAreASequence'
    BY <2>1, <1>i, RewriteRows
  <2>3. RequestIsARecord' /\ req'.pc # "items" /\ KnownAreProviders'
    BY <1>10, <1>i DEF Review, Correct, RequestIsARecord, KnownAreProviders
  <2> QED
    BY <2>2, <2>3, OutsideTheLoop
<1>11. CASE ReprocessOnboarding
  <2>1. rows' = [j \in DOMAIN rows |-> rows'[j]]
    BY <1>11 DEF ReprocessOnboarding
  <2>2. RowsAreASequence'
    BY <2>1, <1>i, RewriteRows
  <2>3. RequestIsARecord' /\ req'.pc # "items" /\ KnownAreProviders'
    BY <1>11, <1>i DEF ReprocessOnboarding, Correct, RequestIsARecord, KnownAreProviders
  <2> QED
    BY <2>2, <2>3, OutsideTheLoop
<1>12. CASE UNCHANGED vars
  BY <1>12, <1>i, SameTable DEF vars, db, RequestIsARecord, KnownAreProviders
<1> QED
  BY <1>1, <1>2, <1>3, <1>4, <1>5, <1>6, <1>7, <1>8, <1>9, <1>10, <1>11, <1>12 DEF Next

LEMMA BackfillInvariant == Spec => []BackfillInv
  BY BackfillInit, BackfillNext, PTL DEF Spec

(* A step that stores a history row is a RecordItem, and stores one row. *)
LEMMA InsertionStep ==
    ASSUME BackfillInv, [Next]_vars, NEW i \in Inserted, rows'[i].source = "HISTORY"
    PROVE  \E t \in Text, day \in Day : \E row \in RowOf(t, day) :
              /\ rows'[i] = row /\ req.pc = "items"
              /\ DedupKey(row) \notin req.seen
<1>i. RowsAreASequence
  BY DEF BackfillInv
<1>1. ASSUME NEW t \in Text, NEW day \in Day, RecordItem(t, day)
      PROVE  \E row \in RowOf(t, day) :
              /\ rows'[i] = row /\ req.pc = "items" /\ DedupKey(row) \notin req.seen
  <2>1. PICK row \in RowOf(t, day) :
          /\ DedupKey(row) \notin req.seen /\ rows' = Append(rows, row)
    BY <1>1 DEF RecordItem
  <2>2. rows'[i] = row
    BY <2>1, <1>i, AppendRow DEF Inserted
  <2> QED
    BY <1>1, <2>1, <2>2 DEF RecordItem, NextItem
<1>2. ASSUME NEW d, NEW replace, NEW day, BeginFile(d, replace, day)
      PROVE  FALSE
  <2>1. CASE rows' = rows
    BY <2>1 DEF Inserted
  <2>2. CASE rows' # rows
    <3>1. PICK row : rows' = Append(rows, row) /\ row.source = "LIVE"
      BY <1>2, <2>2 DEF BeginFile
    <3>2. rows'[i] = row
      BY <3>1, <1>i, AppendRow DEF Inserted
    <3> QED
      BY <3>1, <3>2
  <2> QED
    BY <2>1, <2>2
<1>3. DOMAIN rows' # DOMAIN rows
  BY DEF Inserted
<1>4. ASSUME NEW onb, ReadRows(onb) PROVE FALSE
  BY <1>4, <1>3 DEF ReadRows, db
<1>5. ASSUME NEW t, NEW day, SkipItem(t, day) PROVE FALSE
  BY <1>5, <1>3 DEF SkipItem, db
<1>6. CASE FinishFile \/ StartPass \/ FinishPass \/ RequestDies
  BY <1>6, <1>3 DEF FinishFile, StartPass, FinishPass, RequestDies, db
<1>7. CASE ApplyBatch
  BY <1>7, <1>3 DEF ApplyBatch
<1>8. ASSUME NEW p, ToggleAlias(p) PROVE FALSE
  BY <1>8, <1>3 DEF ToggleAlias
<1>9. ASSUME NEW j, NEW type, NEW onboarding, Review(j, type, onboarding) PROVE FALSE
  BY <1>9, <1>3 DEF Review
<1>10. CASE ReprocessOnboarding
  BY <1>10, <1>3 DEF ReprocessOnboarding
<1>11. CASE UNCHANGED vars
  BY <1>11, <1>3 DEF vars, db
<1> QED
  BY <1>1, <1>2, <1>4, <1>5, <1>6, <1>7, <1>8, <1>9, <1>10, <1>11 DEF Next

(* Whatever files, corrections and faults came before, backfillChangeHistory   *)
(* never stores a row under a key that is in the table already.                *)
THEOREM EntriesAreStoredOnce == Spec => InsertsAreNew
<1>1. ASSUME BackfillInv, [Next]_vars
      PROVE  \A i \in Inserted : rows'[i].source = "HISTORY" =>
                \A j \in DOMAIN rows : DedupKey(rows[j]) # DedupKey(rows'[i])
  <2> SUFFICES ASSUME NEW i \in Inserted, rows'[i].source = "HISTORY",
                      NEW j \in DOMAIN rows
               PROVE  DedupKey(rows[j]) # DedupKey(rows'[i])
    OBVIOUS
  <2>1. PICK row : /\ rows'[i] = row /\ req.pc = "items"
                   /\ DedupKey(row) \notin req.seen
    BY <1>1, InsertionStep
  <2>2. DedupKey(rows[j]) \in req.seen
    BY <1>1, <2>1 DEF BackfillInv, SeenCoversTable
  <2> QED
    BY <2>1, <2>2
<1> QED
  BY <1>1, BackfillInvariant, PTL DEF InsertsAreNew, Spec

(* A winner that an entry's own text names is stored only when no counted row  *)
(* of the group, live or historical, gains it already.                         *)
THEOREM GainsAreNamedOnce == Spec => NamedGainOnce
<1>1. ASSUME BackfillInv, [Next]_vars
      PROVE  \A i \in Inserted :
               /\ rows'[i].source = "HISTORY"
               /\ rows'[i].new # Null
               /\ rows'[i].new = rows'[i].text.new
               /\ rows'[i].new # req.onb
               => \A j \in DOMAIN rows : ~Gains(rows[j], rows'[i].new)
  <2> SUFFICES ASSUME NEW i \in Inserted, rows'[i].source = "HISTORY",
                      rows'[i].new # Null, rows'[i].new # req.onb,
                      NEW j \in DOMAIN rows
               PROVE  ~Gains(rows[j], rows'[i].new)
    OBVIOUS
  <2>1. PICK t \in Text, day \in Day : \E row \in RowOf(t, day) :
           rows'[i] = row /\ req.pc = "items"
    BY <1>1, InsertionStep
  <2>2. rows'[i] \in RowOf(t, day) /\ req.pc = "items"
    BY <2>1
  <2>3. rows'[i].new \in Provider /\ rows'[i].new \notin req.added
    BY <1>1, <2>2, RowOfEntry DEF BackfillInv
  <2> QED
    BY <1>1, <2>2, <2>3 DEF BackfillInv, AddedCoversGains
<1> QED
  BY <1>1, BackfillInvariant, PTL DEF NamedGainOnce, Spec

-----------------------------------------------------------------------------
(* The types.                                                                  *)

Keys == {DedupKey(row) : row \in Row}

Request ==
    [pc : {"idle", "read", "items", "pass"}, seen : SUBSET Keys, added : SUBSET Provider,
     onb : Holder, done : SUBSET (Text \X Day), todo : Seq(Update)]

(* A row from a change history has its text, and a pass writes no other row.   *)
TypeInv ==
    /\ loaded \in BOOLEAN /\ current \in Holder /\ known \subseteq Provider
    /\ rows \in Seq(Row)
    /\ req \in Request
    /\ \A i \in HistoryRows : rows[i].text \in Text
    /\ \A k \in DOMAIN req.todo : req.todo[k].row \in HistoryRows
    /\ uploads \in Nat /\ items \in Nat /\ passes \in Nat /\ edits \in Nat /\ faults \in Nat
    /\ won \subseteq Provider /\ disturbed \in BOOLEAN
    /\ settled \in {"no", "reading", "yes"}

LEMMA TypeInvImplies == TypeInv => TypeOK
  BY DEF TypeInv, TypeOK, Request

LEMMA ChangeTypeType == \A old, new : ChangeType(old, new) \in ChurnType
  BY DEF ChangeType, ChurnType

LEMMA SidesType ==
    ASSUME known \subseteq Provider, NEW t \in Text, NEW added, NEW onb \in Holder
    PROVE  Sides(t, added, onb).old \in Holder /\ Sides(t, added, onb).new \in Holder
<1>1. Resolve(t.old) \in Holder /\ Resolve(t.new) \in Holder
  BY DEF Resolve, Holder
<1>2. PICK u : u = IF Resolve(t.new) \in added THEN Null ELSE Resolve(t.new)
  OBVIOUS
<1>3. u \in Holder
  BY <1>1, <1>2 DEF Holder
<1>4. Reconcile(Resolve(t.old), u, onb) \in Holder
  BY <1>3 DEF Reconcile
<1>5. Sides(t, added, onb) = [old |-> Resolve(t.old), new |-> Reconcile(Resolve(t.old), u, onb)]
  BY <1>2 DEF Sides
<1> QED
  BY <1>1, <1>4, <1>5

LEMMA RowOfType ==
    ASSUME TypeInv, NEW t \in Text, NEW day \in Day, NEW row \in RowOf(t, day)
    PROVE  row \in Row /\ row.source = "HISTORY" /\ row.text = t /\ ~row.onboarding
<1>1. PICK s : s = Sides(t, req.added, req.onb)
  OBVIOUS
<1>2. s.old \in Holder /\ s.new \in Holder
  BY <1>1, SidesType DEF TypeInv, Request
<1>3. \/ row = HistoryRow(t, day, ChangeType(s.old, s.new), s.old, s.new)
      \/ row = HistoryRow(t, day, "UPDATE", Null, Null)
  BY <1>1 DEF RowOf
<1>4. ChangeType(s.old, s.new) \in ChangeTypes /\ "UPDATE" \in ChangeTypes /\ Null \in Holder
  BY ChangeTypeType DEF ChangeTypes, Holder
<1>5. ASSUME NEW type \in ChangeTypes, NEW old \in Holder, NEW new \in Holder,
             row = HistoryRow(t, day, type, old, new)
      PROVE  row \in Row /\ row.source = "HISTORY" /\ row.text = t /\ ~row.onboarding
  BY <1>5 DEF HistoryRow, Row
<1> QED
  BY <1>2, <1>3, <1>4, <1>5

(* What a row is read as: a text that names no carrier has no sides.           *)
LEMMA RereadType ==
    ASSUME TypeInv, NEW i \in HistoryRows, NEW added, NEW onb \in Holder,
           NEW u \in Reread(i, added, onb)
    PROVE  u \in Update /\ u.row = i
<1>1. PICK t : t = rows[i].text
  OBVIOUS
<1>2. t \in Text /\ i \in Nat
  BY <1>1 DEF TypeInv, HistoryRows
<1>3. PICK s : s = Sides(t, added, onb)
  OBVIOUS
<1>4. s.old \in Holder /\ s.new \in Holder
  BY <1>2, <1>3, SidesType DEF TypeInv
<1>5. \/ u = [row |-> i, type |-> ChangeType(s.old, s.new), old |-> s.old, new |-> s.new]
      \/ u = [row |-> i, type |-> "UPDATE", old |-> Null, new |-> Null]
  BY <1>1, <1>3 DEF Reread, RereadAs
<1>6. ChangeType(s.old, s.new) \in ChangeTypes /\ "UPDATE" \in ChangeTypes /\ Null \in Holder
  BY ChangeTypeType DEF ChangeTypes, Holder
<1> QED
  BY <1>2, <1>4, <1>5, <1>6 DEF Update

LEMMA RereadIsOne ==
    ASSUME NEW i, NEW added, NEW onb, NEW u \in Reread(i, added, onb)
    PROVE  Reread(i, added, onb) = {u}
  BY DEF Reread, RereadAs

(* The sequence of a set of one element, or of none. *)
LEMMA SequenceOfOne ==
    /\ SetToSeq({}) = <<>>
    /\ \A u : SetToSeq({u}) = <<u>>
<1>1. SetToSeq({}) = <<>>
  <2>1. Cardinality({}) = 0
    BY FS_EmptySet
  <2>2. PICK g : g = [i \in 1..0 |-> 0]
    OBVIOUS
  <2>3. g \in [1..0 -> {}] /\ IsInjective(g)
    BY <2>2 DEF IsInjective
  <2>4. SetToSeq({}) \in [1..0 -> {}]
    BY <2>1, <2>3 DEF SetToSeq
  <2> QED
    BY <2>4
<1>2. ASSUME NEW u PROVE SetToSeq({u}) = <<u>>
  <2>1. Cardinality({u}) = 1
    BY FS_Singleton
  <2>2. PICK g : g = [i \in 1..1 |-> u]
    OBVIOUS
  <2>3. g \in [1..1 -> {u}] /\ IsInjective(g)
    BY <2>2 DEF IsInjective
  <2>4. SetToSeq({u}) \in [1..1 -> {u}]
    BY <2>1, <2>3 DEF SetToSeq
  <2> QED
    BY <2>4
<1> QED
  BY <1>1, <1>2

-----------------------------------------------------------------------------
(* What a pass reads.                                                          *)

Knowledge == [added : SUBSET Provider, todo : Seq(Update)]

(* A row no rule reads changes nothing; any other gives one update, which is   *)
(* remembered, and written unless the row says so already.                     *)
LEMMA PassStepOf ==
    ASSUME TypeInv, NEW i \in HistoryRows, NEW acc \in Knowledge, NEW onb \in Holder
    PROVE  /\ PassStep(acc, i, onb) \in Knowledge
           /\ Reread(i, acc.added, onb) = {} => PassStep(acc, i, onb) = acc
           /\ \A u \in Reread(i, acc.added, onb) :
                /\ PassStep(acc, i, onb).added = acc.added \cup ({u.new} \ {Null})
                /\ PassStep(acc, i, onb).todo =
                     IF AlreadySo(u) THEN acc.todo ELSE Append(acc.todo, u)
<1>1. PICK read : read = Reread(i, acc.added, onb)
  OBVIOUS
<1>2. PassStep(acc, i, onb) =
        [added |-> acc.added \cup ({u.new : u \in read} \ {Null}),
         todo |-> acc.todo \o SetToSeq({u \in read : ~AlreadySo(u)})]
  BY <1>1 DEF PassStep
<1>3. acc.added \in SUBSET Provider /\ acc.todo \in Seq(Update)
      /\ acc = [added |-> acc.added, todo |-> acc.todo]
  BY DEF Knowledge
<1>4. CASE read = {}
  <2>1. {u \in read : ~AlreadySo(u)} = {} /\ {u.new : u \in read} = {}
    BY <1>4
  <2>2. acc.todo \o <<>> = acc.todo
    BY <1>3
  <2>3. PassStep(acc, i, onb) = acc
    BY <1>2, <1>3, <2>1, <2>2, SequenceOfOne
  <2> QED
    BY <1>1, <1>4, <2>3
<1>5. ASSUME NEW u \in read
      PROVE  /\ PassStep(acc, i, onb) \in Knowledge
             /\ PassStep(acc, i, onb).added = acc.added \cup ({u.new} \ {Null})
             /\ PassStep(acc, i, onb).todo =
                  IF AlreadySo(u) THEN acc.todo ELSE Append(acc.todo, u)
  <2>1. read = {u} /\ u \in Update
    BY <1>1, <1>5, RereadIsOne, RereadType
  <2>2. {v.new : v \in read} = {u.new}
    BY <2>1
  <2>3. PICK added : added = acc.added \cup ({u.new} \ {Null})
    OBVIOUS
  <2>4. added \in SUBSET Provider
    BY <1>3, <2>1, <2>3 DEF Update, Holder
  <2>5. acc.todo \o SetToSeq({v \in read : ~AlreadySo(v)}) =
          IF AlreadySo(u) THEN acc.todo ELSE Append(acc.todo, u)
    <3>1. CASE AlreadySo(u)
      <4>1. {v \in read : ~AlreadySo(v)} = {}
        BY <2>1, <3>1
      <4>2. acc.todo \o <<>> = acc.todo
        BY <1>3
      <4> QED
        BY <3>1, <4>1, <4>2, SequenceOfOne
    <3>2. CASE ~AlreadySo(u)
      <4>1. {v \in read : ~AlreadySo(v)} = {u}
        BY <2>1, <3>2
      <4>2. acc.todo \o <<u>> = Append(acc.todo, u)
        BY <1>3, <2>1
      <4> QED
        BY <3>2, <4>1, <4>2, SequenceOfOne
    <3> QED
      BY <3>1, <3>2
  <2>6. PICK todo : todo = IF AlreadySo(u) THEN acc.todo ELSE Append(acc.todo, u)
    OBVIOUS
  <2>7. todo \in Seq(Update)
    BY <1>3, <2>1, <2>6
  <2>8. PassStep(acc, i, onb) = [added |-> added, todo |-> todo]
    BY <1>2, <2>2, <2>3, <2>5, <2>6
  <2> QED
    BY <2>3, <2>4, <2>6, <2>7, <2>8 DEF Knowledge
<1> QED
  BY <1>1, <1>4, <1>5

(* The recursion a pass reads the rows by. *)
LEMMA ReadingRecursion ==
    ASSUME TypeInv, NEW gains \in SUBSET Provider, NEW onb \in Holder,
           NEW order \in Seq(HistoryRows)
    PROVE  /\ Reading(gains, order, onb) \in [0..Len(order) -> Knowledge]
           /\ Reading(gains, order, onb)[0] = [added |-> gains, todo |-> <<>>]
           /\ \A n \in 1..Len(order) :
                Reading(gains, order, onb)[n] =
                    PassStep(Reading(gains, order, onb)[n - 1], order[n], onb)
<1> DEFINE base == [added |-> gains, todo |-> <<>>]
           P(h) == h = [n \in 0..Len(order) |->
                          IF n = 0 THEN base ELSE PassStep(h[n - 1], order[n], onb)]
<1>1. base \in Knowledge /\ Len(order) \in Nat
  BY DEF Knowledge
<1>2. PICK st : st = [n \in 1..Len(order) |->
                        [acc \in Knowledge |-> PassStep(acc, order[n], onb)]]
  OBVIOUS
<1>3. st \in [1..Len(order) -> [Knowledge -> Knowledge]]
  <2>1. ASSUME NEW n \in 1..Len(order), NEW acc \in Knowledge
        PROVE  PassStep(acc, order[n], onb) \in Knowledge
    <3>1. order[n] \in HistoryRows
      OBVIOUS
    <3> QED
      BY <3>1, PassStepOf
  <2> QED
    BY <1>2, <2>1
<1>4. PICK g : /\ g \in [0..Len(order) -> Knowledge]
               /\ g[0] = base
               /\ \A n \in 1..Len(order) : g[n] = st[n][g[n - 1]]
  <2>1. PICK g : Recursion(g, Knowledge, base, Len(order), st)
    <3> HIDE DEF base
    <3> QED
      BY <1>1, <1>3, RecursionSolvable
  <2> HIDE DEF base
  <2> QED
    BY <2>1 DEF Recursion
<1>5. ASSUME NEW n \in 1..Len(order) PROVE g[n] = PassStep(g[n - 1], order[n], onb)
  <2>1. n - 1 \in 0..Len(order)
    BY <1>1
  <2>2. g[n - 1] \in Knowledge
    BY <1>4, <2>1
  <2> QED
    BY <1>2, <1>4, <2>2
<1>6. P(g)
  <2>1. ASSUME NEW n \in 0..Len(order)
        PROVE  g[n] = IF n = 0 THEN base ELSE PassStep(g[n - 1], order[n], onb)
    BY <1>1, <1>4, <1>5
  <2> QED
    BY <1>4, <2>1
<1>7. Reading(gains, order, onb) = CHOOSE h : P(h)
  BY DEF Reading
<1>8. P(CHOOSE h : P(h))
  <2> HIDE DEF P
  <2> QED
    BY <1>6
<1>9. PICK r : r = Reading(gains, order, onb)
  OBVIOUS
<1>10. P(r)
  BY <1>7, <1>8, <1>9
<1>11. \A n \in 1..Len(order) : n \in 0..Len(order) /\ n # 0 /\ n - 1 \in 0..Len(order)
  BY <1>1
<1>12. /\ r[0] = base
       /\ \A n \in 1..Len(order) : r[n] = PassStep(r[n - 1], order[n], onb)
  <2>1. 0 \in 0..Len(order)
    BY <1>1
  <2> HIDE DEF base
  <2> QED
    BY <1>10, <1>11, <2>1
<1>13. r \in [0..Len(order) -> Knowledge]
  <2>1. r = [n \in 0..Len(order) |-> r[n]]
    BY <1>10
  <2> DEFINE S == {n \in 0..Len(order) : r[n] \in Knowledge}
  <2>2. 0 \in S
    BY <1>1, <1>12
  <2>3. ASSUME NEW n \in 0..Len(order), n \in S, n < Len(order) PROVE n + 1 \in S
    <3>1. n + 1 \in 1..Len(order) /\ (n + 1) - 1 = n /\ n + 1 \in 0..Len(order)
      BY <1>1, <2>3
    <3>2. r[n] \in Knowledge /\ order[n + 1] \in HistoryRows
      BY <2>3, <3>1
    <3>3. r[n + 1] = PassStep(r[n], order[n + 1], onb)
      BY <1>12, <3>1
    <3> QED
      BY <3>1, <3>2, <3>3, PassStepOf
  <2>4. 0..Len(order) \subseteq S
    <3> HIDE DEF S
    <3> QED
      BY <1>1, <2>2, <2>3, InductionUpTo
  <2> QED
    BY <2>1, <2>4
<1> QED
  BY <1>9, <1>12, <1>13

(* Every history row has its place in the order of a pass, and one only.       *)
LEMMA PassOrderType ==
    ASSUME rows \in Seq(Row), NEW order \in PassOrders
    PROVE  /\ order \in Seq(HistoryRows)
           /\ DOMAIN order = 1..Len(order) /\ Len(order) \in Nat
           /\ Len(order) = Cardinality(HistoryRows)
           /\ \A m, n \in DOMAIN order : m # n => order[m] # order[n]
           /\ \A i \in HistoryRows : \E m \in DOMAIN order : order[m] = i
<1>1. IsFiniteSet(HistoryRows)
  <2>1. DOMAIN rows = 1..Len(rows) /\ Len(rows) \in Nat
    OBVIOUS
  <2>2. IsFiniteSet(1..Len(rows))
    BY <2>1, FS_Interval
  <2> QED
    BY <2>1, <2>2, FS_Subset DEF HistoryRows
<1>2. PICK c : c = Cardinality(HistoryRows)
  OBVIOUS
<1>3. c \in Nat
  BY <1>1, <1>2, FS_CardinalityType
<1>4. order \in [1..c -> HistoryRows] /\ \A m, n \in 1..c : m # n => order[m] # order[n]
  BY <1>2 DEF PassOrders, SetToSeqs
<1>5. order \in Seq(HistoryRows) /\ Len(order) = c /\ DOMAIN order = 1..c
  BY <1>3, <1>4
<1>6. order \in Injection(1..c, HistoryRows)
  BY <1>4 DEF Injection, IsInjective
<1>7. IsFiniteSet(1..c) /\ Cardinality(1..c) = c
  BY <1>3, FS_Interval
<1>8. order \in Surjection(1..c, HistoryRows)
  BY <1>1, <1>2, <1>6, <1>7, FS_Injection
<1> QED
  BY <1>2, <1>3, <1>4, <1>5, <1>8 DEF Surjection

(* What the pass will write once n rows are read: each reading that differs    *)
(* from its row, and nothing else, a row at most once.                         *)
WritesReadings(r, order, onb, n) ==
    /\ \A m \in 1..n : \A u \in Reread(order[m], r[m - 1].added, onb) :
          AlreadySo(u) \/ \E k \in DOMAIN r[n].todo : r[n].todo[k] = u
    /\ \A k \in DOMAIN r[n].todo : \E m \in 1..n :
          /\ r[n].todo[k] \in Reread(order[m], r[m - 1].added, onb)
          /\ ~AlreadySo(r[n].todo[k])
    /\ \A k, l \in DOMAIN r[n].todo : k # l => r[n].todo[k].row # r[n].todo[l].row

LEMMA ReadingWrites ==
    ASSUME TypeInv, NEW gains \in SUBSET Provider, NEW onb \in Holder,
           NEW order \in PassOrders
    PROVE  WritesReadings(Reading(gains, order, onb), order, onb, Len(order))
<1>1. PICK r : r = Reading(gains, order, onb)
  OBVIOUS
<1>2. /\ order \in Seq(HistoryRows) /\ Len(order) \in Nat
      /\ \A m, n \in 1..Len(order) : m # n => order[m] # order[n]
  BY PassOrderType DEF TypeInv
<1>a. /\ r \in [0..Len(order) -> Knowledge]
      /\ r[0] = [added |-> gains, todo |-> <<>>]
      /\ \A n \in 1..Len(order) : r[n] = PassStep(r[n - 1], order[n], onb)
  <2>1. order \in Seq(HistoryRows)
    BY <1>2
  <2> QED
    BY <1>1, <2>1, ReadingRecursion
<1>3. /\ r \in [0..Len(order) -> Knowledge]
      /\ r[0].todo = <<>>
      /\ \A n \in 1..Len(order) : r[n] = PassStep(r[n - 1], order[n], onb)
  BY <1>a
<1> DEFINE S == {n \in 0..Len(order) : WritesReadings(r, order, onb, n)}
<1>4. 0 \in S
  <2>1. DOMAIN r[0].todo = {} /\ 1..0 = {}
    BY <1>3
  <2> QED
    BY <1>2, <2>1 DEF WritesReadings
<1>5. ASSUME NEW n \in 0..Len(order), n \in S, n < Len(order) PROVE n + 1 \in S
  <2>1. n + 1 \in 1..Len(order) /\ (n + 1) - 1 = n /\ n + 1 \in 0..Len(order) /\ n \in Nat
    BY <1>2, <1>5
  <2>2. 1..(n + 1) = (1..n) \cup {n + 1}
    BY <2>1
  <2>3. PICK i : i = order[n + 1]
    OBVIOUS
  <2>4. i \in HistoryRows /\ r[n] \in Knowledge /\ r[n + 1] = PassStep(r[n], i, onb)
    BY <1>2, <1>3, <1>5, <2>1, <2>3
  <2>5. WritesReadings(r, order, onb, n)
    BY <1>5
  <2>6. CASE Reread(i, r[n].added, onb) = {}
    <3>1. r[n + 1] = r[n]
      BY <2>4, <2>6, PassStepOf
    <3>2. Reread(order[n + 1], r[(n + 1) - 1].added, onb) = {}
      BY <2>1, <2>3, <2>6
    <3> QED
      BY <2>1, <2>2, <2>5, <3>1, <3>2 DEF WritesReadings
  <2>7. ASSUME NEW u \in Reread(i, r[n].added, onb) PROVE n + 1 \in S
    <3>1. Reread(order[n + 1], r[(n + 1) - 1].added, onb) = {u}
      BY <2>1, <2>3, <2>7, RereadIsOne
    <3>2. u \in Update /\ u.row = i
      BY <2>4, <2>7, RereadType
    <3>3. r[n + 1].todo = IF AlreadySo(u) THEN r[n].todo ELSE Append(r[n].todo, u)
      BY <2>4, <2>7, PassStepOf
    <3>4. CASE AlreadySo(u)
      BY <2>1, <2>2, <2>5, <3>1, <3>3, <3>4 DEF WritesReadings
    <3>5. CASE ~AlreadySo(u)
      <4>1. r[n].todo \in Seq(Update)
        BY <2>4 DEF Knowledge
      <4>2. PICK L : L = Len(r[n].todo)
        OBVIOUS
      <4>3. /\ L \in Nat /\ DOMAIN r[n].todo = 1..L
            /\ DOMAIN r[n + 1].todo = (1..L) \cup {L + 1}
            /\ r[n + 1].todo[L + 1] = u
            /\ \A k \in 1..L : r[n + 1].todo[k] = r[n].todo[k]
        BY <3>2, <3>3, <3>5, <4>1, <4>2
      <4>4. \A m \in 1..(n + 1) : \A v \in Reread(order[m], r[m - 1].added, onb) :
              AlreadySo(v) \/ \E k \in DOMAIN r[n + 1].todo : r[n + 1].todo[k] = v
        <5> SUFFICES ASSUME NEW m \in 1..(n + 1),
                            NEW v \in Reread(order[m], r[m - 1].added, onb), ~AlreadySo(v)
                     PROVE  \E k \in DOMAIN r[n + 1].todo : r[n + 1].todo[k] = v
          OBVIOUS
        <5>1. CASE m = n + 1
          <6>1. v = u
            BY <3>1, <5>1
          <6> QED
            BY <4>3, <6>1
        <5>2. CASE m \in 1..n
          <6>1. PICK k \in 1..L : r[n].todo[k] = v
            BY <2>5, <4>3, <5>2 DEF WritesReadings
          <6>2. k \in DOMAIN r[n + 1].todo /\ r[n + 1].todo[k] = v
            BY <4>3, <6>1
          <6> QED
            BY <6>2
        <5> QED
          BY <2>2, <5>1, <5>2
      <4>5. \A k \in DOMAIN r[n + 1].todo : \E m \in 1..(n + 1) :
              /\ r[n + 1].todo[k] \in Reread(order[m], r[m - 1].added, onb)
              /\ ~AlreadySo(r[n + 1].todo[k])
        <5> SUFFICES ASSUME NEW k \in DOMAIN r[n + 1].todo
                     PROVE  \E m \in 1..(n + 1) :
                              /\ r[n + 1].todo[k] \in Reread(order[m], r[m - 1].added, onb)
                              /\ ~AlreadySo(r[n + 1].todo[k])
          OBVIOUS
        <5>1. CASE k \in 1..L
          BY <2>2, <2>5, <4>3, <5>1 DEF WritesReadings
        <5>2. CASE k = L + 1
          BY <2>2, <3>1, <3>5, <4>3, <5>2
        <5> QED
          BY <4>3, <5>1, <5>2
      <4>6. ASSUME NEW k \in 1..L PROVE r[n].todo[k].row # i
        <5>1. PICK m \in 1..n : r[n].todo[k] \in Reread(order[m], r[m - 1].added, onb)
          BY <2>5, <4>3, <4>6 DEF WritesReadings
        <5>2. m \in 1..Len(order) /\ m # n + 1 /\ order[m] \in HistoryRows
          BY <1>2, <2>1, <5>1
        <5>3. r[n].todo[k].row = order[m]
          BY <5>1, <5>2, RereadType
        <5> QED
          BY <1>2, <2>1, <2>3, <5>2, <5>3
      <4>7. \A k, l \in DOMAIN r[n + 1].todo :
              k # l => r[n + 1].todo[k].row # r[n + 1].todo[l].row
        <5>1. \A k, l \in 1..L : k # l => r[n].todo[k].row # r[n].todo[l].row
          BY <2>5, <4>3 DEF WritesReadings
        <5>2. /\ r[n + 1].todo[L + 1].row = i
              /\ \A k \in 1..L : r[n + 1].todo[k].row = r[n].todo[k].row
          BY <3>2, <4>3
        <5> QED
          BY <4>3, <4>6, <5>1, <5>2
      <4> QED
        BY <2>1, <4>4, <4>5, <4>7 DEF WritesReadings
    <3> QED
      BY <3>4, <3>5
  <2> QED
    BY <2>6, <2>7
<1>6. 0..Len(order) \subseteq S
  <2> HIDE DEF S
  <2> QED
    BY <1>2, <1>4, <1>5, InductionUpTo
<1>7. Len(order) \in S
  BY <1>2, <1>6
<1> QED
  BY <1>1, <1>7

-----------------------------------------------------------------------------
(* Every step keeps the types.                                                 *)

LEMMA TypedAppend ==
    ASSUME TypeInv, NEW row \in Row, rows' = Append(rows, row),
           row.source = "HISTORY" => row.text \in Text
    PROVE  /\ rows' \in Seq(Row)
           /\ DOMAIN rows' = DOMAIN rows \cup {Len(rows) + 1}
           /\ Len(rows) + 1 \notin DOMAIN rows
           /\ rows'[Len(rows) + 1] = row
           /\ \A i \in DOMAIN rows : rows'[i] = rows[i]
           /\ HistoryRows \subseteq HistoryRows'
           /\ \A i \in HistoryRows' : rows'[i].text \in Text
<1>1. rows \in Seq(Row) /\ \A i \in HistoryRows : rows[i].text \in Text
  BY DEF TypeInv
<1>2. DOMAIN rows = 1..Len(rows) /\ Len(rows) \in Nat
  BY <1>1
<1>3. rows' \in Seq(Row)
  BY <1>1
<1>4. /\ DOMAIN rows' = 1..(Len(rows) + 1)
      /\ rows'[Len(rows) + 1] = row
      /\ \A i \in 1..Len(rows) : rows'[i] = rows[i]
  BY <1>1
<1>5. /\ DOMAIN rows' = DOMAIN rows \cup {Len(rows) + 1}
      /\ Len(rows) + 1 \notin DOMAIN rows
  BY <1>2, <1>4
<1> QED
  BY <1>1, <1>2, <1>3, <1>4, <1>5 DEF HistoryRows

(* A step that rewrites rows keeps what the uploads decided of each. *)
Rewritten ==
    /\ DOMAIN rows' = DOMAIN rows
    /\ \A i \in DOMAIN rows :
         /\ rows'[i].source = rows[i].source
         /\ rows'[i].text = rows[i].text
         /\ rows'[i].day = rows[i].day

LEMMA TypedRewrite ==
    ASSUME TypeInv, rows' = [i \in DOMAIN rows |-> rows'[i]],
           \A i \in DOMAIN rows : rows'[i] \in Row, Rewritten
    PROVE  /\ rows' \in Seq(Row)
           /\ HistoryRows' = HistoryRows
           /\ \A i \in HistoryRows' : rows'[i].text \in Text
<1>1. DOMAIN rows = 1..Len(rows) /\ Len(rows) \in Nat
  BY DEF TypeInv
<1>2. rows' \in [1..Len(rows) -> Row]
  BY <1>1
<1>3. rows' \in Seq(Row)
  BY <1>1, <1>2
<1>4. HistoryRows' = HistoryRows
  BY DEF Rewritten, HistoryRows
<1> QED
  BY <1>3, <1>4 DEF Rewritten, HistoryRows, TypeInv

LEMMA NewRequests ==
    /\ IdleRequest \in Request /\ IdleRequest.todo = <<>>
    /\ [IdleRequest EXCEPT !.pc = "read"] \in Request
    /\ [IdleRequest EXCEPT !.pc = "read"].todo = <<>>
    /\ \A todo \in Seq(Update) :
         /\ [IdleRequest EXCEPT !.pc = "pass", !.todo = todo] \in Request
         /\ [IdleRequest EXCEPT !.pc = "pass", !.todo = todo].todo = todo
<1>1. <<>> \in Seq(Update) /\ Null \in Holder
  BY DEF Holder
<1>2. PICK r : r = IdleRequest
  OBVIOUS
<1>3. r \in Request /\ r.todo = <<>>
  BY <1>1, <1>2 DEF IdleRequest, Request
<1>4. [r EXCEPT !.pc = "read"] \in Request /\ [r EXCEPT !.pc = "read"].todo = <<>>
  BY <1>3 DEF Request
<1>5. ASSUME NEW todo \in Seq(Update)
      PROVE  /\ [r EXCEPT !.pc = "pass", !.todo = todo] \in Request
             /\ [r EXCEPT !.pc = "pass", !.todo = todo].todo = todo
  BY <1>3 DEF Request
<1> QED
  BY <1>2, <1>3, <1>4, <1>5

LEMMA TypeInit == Init => TypeInv
<1> SUFFICES ASSUME Init PROVE TypeInv
  OBVIOUS
<1>1. rows = <<>> /\ rows \in Seq(Row) /\ DOMAIN rows = {}
  BY DEF Init
<1>2. DOMAIN <<>> = {} /\ Null \in Holder
  BY DEF Holder
<1> QED
  BY <1>1, <1>2, NewRequests DEF Init, TypeInv, Holder, HistoryRows

LEMMA BeginFileTyped ==
    ASSUME TypeInv, NEW d \in Provider \cup {Unmapped, Undeclared},
           NEW replace \in BOOLEAN, NEW day \in Day, BeginFile(d, replace, day)
    PROVE  TypeInv'
<1>1. PICK new : new = IF d \in Provider THEN d ELSE Null
  OBVIOUS
<1>2. PICK type : type = ChangeType(current, new)
  OBVIOUS
<1>3. PICK flag \in BOOLEAN : flag = (type = "ADDED" /\ (replace \/ ~loaded))
  OBVIOUS
<1>4. PICK live : live = [source |-> "LIVE", type |-> type, old |-> current, new |-> new,
            onboarding |-> flag, text |-> Null, day |-> day, reviewed |-> FALSE]
  OBVIOUS
<1>5. new \in Holder /\ current \in Holder /\ type \in ChangeTypes
  BY <1>1, <1>2, ChangeTypeType DEF Holder, ChangeTypes, TypeInv
<1>6. live \in Row /\ live.source = "LIVE"
  BY <1>3, <1>4, <1>5 DEF Row
<1>7. /\ rows' = rows \/ rows' = Append(rows, live)
      /\ req' = [IdleRequest EXCEPT !.pc = "read"]
      /\ current' \in Holder /\ loaded' \in BOOLEAN
      /\ uploads' = uploads + 1
      /\ settled' = "no" \/ settled' = settled
      /\ UNCHANGED <<known, items, passes, edits, faults, won, disturbed>>
  BY <1>1, <1>2, <1>3, <1>4, <1>5 DEF BeginFile, TypeInv, Holder
<1>8. rows' \in Seq(Row) /\ \A i \in HistoryRows' : rows'[i].text \in Text
  <2>1. CASE rows' = rows
    BY <2>1 DEF TypeInv, HistoryRows
  <2>2. CASE rows' = Append(rows, live)
    BY <2>2, <1>6, TypedAppend
  <2> QED
    BY <1>7, <2>1, <2>2
<1>9. req' \in Request /\ req'.todo = <<>>
  BY <1>7, NewRequests
<1>10. /\ uploads' \in Nat /\ settled' \in {"no", "reading", "yes"}
       /\ \A k \in DOMAIN req'.todo : req'.todo[k].row \in HistoryRows'
  BY <1>7, <1>9 DEF TypeInv
<1> QED
  BY <1>7, <1>8, <1>9, <1>10 DEF TypeInv

LEMMA RecordItemTyped ==
    ASSUME TypeInv, NEW t \in Text, NEW day \in Day, RecordItem(t, day)
    PROVE  TypeInv'
<1>1. PICK row \in RowOf(t, day) :
         /\ rows' = Append(rows, row)
         /\ req' = [req EXCEPT !.done = @ \cup {<<t, day>>},
                               !.seen = @ \cup {DedupKey(row)},
                               !.added = @ \cup ({row.new} \ {Null})]
  BY DEF RecordItem
<1>2. row \in Row /\ row.text = t /\ row.new \in Holder
  BY RowOfType DEF Row
<1>3. /\ rows' \in Seq(Row)
      /\ HistoryRows \subseteq HistoryRows'
      /\ \A i \in HistoryRows' : rows'[i].text \in Text
  BY <1>1, <1>2, TypedAppend
<1>4. req' \in Request /\ req'.todo = req.todo
  <2>1. DedupKey(row) \in Keys /\ {row.new} \ {Null} \subseteq Provider
    BY <1>2 DEF Keys, Holder
  <2>2. <<t, day>> \in Text \X Day
    OBVIOUS
  <2> QED
    BY <1>1, <2>1, <2>2 DEF TypeInv, Request
<1>5. won' \subseteq Provider
  <2>1. PICK p : p = t.new
    OBVIOUS
  <2>2. Resolve(p) # Null => p \in Provider
    BY DEF Resolve, TypeInv
  <2>3. won' = won \/ (Resolve(p) # Null /\ won' = won \cup {p})
    BY <2>1 DEF RecordItem, NextItem
  <2> QED
    BY <2>2, <2>3 DEF TypeInv
<1>6. /\ items' = items + 1 /\ settled' = "no"
      /\ UNCHANGED <<loaded, current, known, uploads, passes, edits, faults, disturbed>>
  BY DEF RecordItem, NextItem
<1> QED
  BY <1>3, <1>4, <1>5, <1>6 DEF TypeInv

LEMMA SkipItemTyped ==
    ASSUME TypeInv, NEW t \in Text, NEW day \in Day, SkipItem(t, day)
    PROVE  TypeInv'
<1>1. /\ req' = [req EXCEPT !.done = @ \cup {<<t, day>>}]
      /\ items' = items + 1
      /\ UNCHANGED <<loaded, current, known, rows, uploads, passes, edits, faults,
                     disturbed, settled>>
  BY DEF SkipItem, NextItem, db
<1>2. won' \subseteq Provider
  <2>1. PICK p : p = t.new
    OBVIOUS
  <2>2. Resolve(p) # Null => p \in Provider
    BY DEF Resolve, TypeInv
  <2>3. won' = won \/ (Resolve(p) # Null /\ won' = won \cup {p})
    BY <2>1 DEF SkipItem, NextItem
  <2> QED
    BY <2>2, <2>3 DEF TypeInv
<1>3. req' \in Request /\ req'.todo = req.todo
  <2>1. <<t, day>> \in Text \X Day
    OBVIOUS
  <2> QED
    BY <1>1, <2>1 DEF TypeInv, Request
<1> QED
  BY <1>1, <1>2, <1>3 DEF TypeInv, HistoryRows

LEMMA ReadRowsTyped ==
    ASSUME TypeInv, NEW onb \in Holder, ReadRows(onb)
    PROVE  TypeInv'
<1>1. PICK seen, added : seen = {DedupKey(rows[i]) : i \in DOMAIN rows}
                         /\ added = GainsOnRecord
  OBVIOUS
<1>2. /\ req' = [req EXCEPT !.pc = "items", !.onb = onb, !.added = added, !.seen = seen]
      /\ UNCHANGED <<loaded, current, known, rows, uploads, items, passes, edits, faults,
                     won, disturbed, settled>>
  BY <1>1 DEF ReadRows, db, bounds
<1>3. seen \in SUBSET Keys
  <2>1. \A i \in DOMAIN rows : rows[i] \in Row
    BY DEF TypeInv
  <2> QED
    BY <1>1, <2>1 DEF Keys
<1>4. added \in SUBSET Provider
  BY <1>1 DEF GainsOnRecord
<1>5. req' \in Request /\ req'.todo = req.todo
  BY <1>2, <1>3, <1>4 DEF TypeInv, Request
<1> QED
  BY <1>2, <1>5 DEF TypeInv, HistoryRows

LEMMA ChoicesAreHolders ==
    ASSUME rows \in Seq(Row)
    PROVE  OnboardingChoices \subseteq Holder
<1>1. \A i \in DOMAIN rows : rows[i].new \in Holder
  <2>1. \A i \in DOMAIN rows : rows[i] \in Row
    OBVIOUS
  <2> QED
    BY <2>1 DEF Row
<1>2. PICK found : found = {rows[i].new : i \in {j \in DOMAIN rows : OnboardingRow(rows[j])}}
  OBVIOUS
<1>3. found \subseteq Holder /\ Null \in Holder
  BY <1>1, <1>2 DEF Holder
<1>4. OnboardingChoices = IF found = {} THEN {Null} ELSE found
  BY <1>2 DEF OnboardingChoices
<1> QED
  BY <1>3, <1>4

(* No two updates are of one row, and only a pass has any. *)
TodoInv ==
    /\ req.pc # "pass" => req.todo = <<>>
    /\ \A k, l \in DOMAIN req.todo : k # l => req.todo[k].row # req.todo[l].row

LEMMA UpdatesType ==
    ASSUME TypeInv, NEW order \in PassOrders, NEW onb \in Holder
    PROVE  /\ Updates(order, onb) \in Seq(Update)
           /\ \A k \in DOMAIN Updates(order, onb) :
                 Updates(order, onb)[k].row \in HistoryRows
           /\ \A k, l \in DOMAIN Updates(order, onb) :
                 k # l => Updates(order, onb)[k].row # Updates(order, onb)[l].row
<1>1. LiveGains \in SUBSET Provider
  BY DEF LiveGains
<1>2. PICK r, N : r = Reading(LiveGains, order, onb) /\ N = Len(order)
  OBVIOUS
<1>3. order \in Seq(HistoryRows) /\ N \in Nat
  BY <1>2, PassOrderType DEF TypeInv
<1>4. r \in [0..N -> Knowledge] /\ N \in 0..N
  <2>1. Reading(LiveGains, order, onb) \in [0..Len(order) -> Knowledge]
    BY <1>1, <1>3, ReadingRecursion
  <2> QED
    BY <1>2, <1>3, <2>1
<1>5. WritesReadings(r, order, onb, N)
  BY <1>1, <1>2, ReadingWrites
<1>6. PICK todo : todo = r[N].todo
  OBVIOUS
<1>7. Updates(order, onb) = todo
  BY <1>2, <1>6 DEF Updates, UpdatesFrom
<1>8. todo \in Seq(Update)
  BY <1>4, <1>6 DEF Knowledge
<1>9. ASSUME NEW k \in DOMAIN todo PROVE todo[k].row \in HistoryRows
  <2>1. PICK m \in 1..N : todo[k] \in Reread(order[m], r[m - 1].added, onb)
    BY <1>5, <1>6, <1>9 DEF WritesReadings
  <2>2. order[m] \in HistoryRows
    BY <1>2, <1>3, <2>1
  <2> QED
    BY <2>1, <2>2, RereadType
<1>10. \A k, l \in DOMAIN todo : k # l => todo[k].row # todo[l].row
  BY <1>5, <1>6 DEF WritesReadings
<1> QED
  BY <1>7, <1>8, <1>9, <1>10

LEMMA StartPassTyped ==
    ASSUME TypeInv, StartPass
    PROVE  TypeInv' /\ TodoInv'
<1>1. PICK order \in PassOrders, onb \in OnboardingChoices :
         req' = [IdleRequest EXCEPT !.pc = "pass", !.todo = Updates(order, onb)]
  BY DEF StartPass
<1>2. onb \in Holder
  BY ChoicesAreHolders DEF TypeInv
<1>3. PICK todo : todo = Updates(order, onb)
  OBVIOUS
<1>4. /\ todo \in Seq(Update)
      /\ \A k \in DOMAIN todo : todo[k].row \in HistoryRows
      /\ \A k, l \in DOMAIN todo : k # l => todo[k].row # todo[l].row
  BY <1>2, <1>3, UpdatesType
<1>5. req' \in Request /\ req'.todo = todo /\ req'.pc = "pass"
  <2>1. req' = [IdleRequest EXCEPT !.pc = "pass", !.todo = todo]
    BY <1>1, <1>3
  <2> QED
    BY <1>4, <2>1, NewRequests DEF IdleRequest
<1>6. /\ passes' = passes + 1 /\ settled' = "reading"
      /\ UNCHANGED <<loaded, current, known, rows, uploads, items, edits, faults,
                     won, disturbed>>
  BY DEF StartPass, db
<1>7. HistoryRows' = HistoryRows
  BY <1>6 DEF HistoryRows
<1>8. TypeInv'
  BY <1>4, <1>5, <1>6, <1>7 DEF TypeInv
<1> QED
  BY <1>4, <1>5, <1>8 DEF TodoInv

(* What one transaction of a pass does: the first updates are in the table,    *)
(* the others are left.                                                        *)
Batched(n) ==
    /\ n \in Nat /\ n <= Len(req.todo)
    /\ Len(req'.todo) = Len(req.todo) - n
    /\ \A k \in 1..(Len(req.todo) - n) : req'.todo[k] = req.todo[k + n]
    /\ \A i \in DOMAIN rows :
         \/ /\ rows'[i] = rows[i]
            /\ \A k \in 1..n : req.todo[k].row # i
         \/ \E k \in 1..n :
              /\ req.todo[k].row = i
              /\ rows'[i] = [rows[i] EXCEPT !.type = req.todo[k].type,
                                            !.old = req.todo[k].old,
                                            !.new = req.todo[k].new]

LEMMA ApplyBatchStep ==
    ASSUME TypeInv, ApplyBatch
    PROVE  /\ \E n \in Nat : Batched(n)
           /\ req' \in Request /\ req'.pc = "pass"
           /\ rows' = [i \in DOMAIN rows |-> rows'[i]]
           /\ \A i \in DOMAIN rows : rows'[i] \in Row
           /\ Rewritten
           /\ HistoryRows' = HistoryRows
           /\ UNCHANGED <<loaded, current, known, bounds, won, settled>>
<1>1. PICK n : n = IF Len(req.todo) < BatchSize THEN Len(req.todo) ELSE BatchSize
  OBVIOUS
<1>2. /\ req.todo \in Seq(Update) /\ Len(req.todo) \in Nat /\ req.pc = "pass"
      /\ DOMAIN req.todo = 1..Len(req.todo)
  <2>1. req.todo \in Seq(Update) /\ req.pc = "pass"
    BY DEF TypeInv, Request, ApplyBatch
  <2> QED
    BY <2>1
<1>3. n \in Nat /\ n <= Len(req.todo)
  BY <1>1, <1>2, ConstantsAssumption
<1>4. PICK batch : batch = {req.todo[k] : k \in 1..n}
  OBVIOUS
<1>5. /\ rows' = [i \in DOMAIN rows |->
            IF \E u \in batch : u.row = i
            THEN LET u == CHOOSE v \in batch : v.row = i
                 IN [rows[i] EXCEPT !.type = u.type, !.old = u.old, !.new = u.new]
            ELSE rows[i]]
      /\ req' = [req EXCEPT !.todo = SubSeq(@, n + 1, Len(@))]
      /\ UNCHANGED <<loaded, current, known, bounds, won, settled>>
  BY <1>1, <1>4 DEF ApplyBatch
<1>6. PICK rest : rest = SubSeq(req.todo, n + 1, Len(req.todo))
  OBVIOUS
<1>7. /\ rest \in Seq(Update)
      /\ Len(rest) = Len(req.todo) - n
      /\ \A k \in 1..(Len(req.todo) - n) : rest[k] = req.todo[k + n]
  BY <1>2, <1>3, <1>6
<1>8. req' \in Request /\ req'.todo = rest /\ req'.pc = "pass"
  <2>1. req' = [req EXCEPT !.todo = rest]
    BY <1>5, <1>6
  <2> QED
    BY <1>2, <1>7, <2>1 DEF TypeInv, Request
<1>9. ASSUME NEW i \in DOMAIN rows
      PROVE  \/ /\ rows'[i] = rows[i]
                /\ \A k \in 1..n : req.todo[k].row # i
             \/ \E k \in 1..n :
                  /\ req.todo[k].row = i
                  /\ rows'[i] = [rows[i] EXCEPT !.type = req.todo[k].type,
                                                !.old = req.todo[k].old,
                                                !.new = req.todo[k].new]
  <2>1. CASE \E u \in batch : u.row = i
    <3>1. PICK u : u = CHOOSE v \in batch : v.row = i
      OBVIOUS
    <3>2. u \in batch /\ u.row = i
      BY <2>1, <3>1
    <3>3. rows'[i] = [rows[i] EXCEPT !.type = u.type, !.old = u.old, !.new = u.new]
      BY <1>5, <2>1, <3>1
    <3>4. PICK k \in 1..n : u = req.todo[k]
      BY <1>4, <3>2
    <3> QED
      BY <3>2, <3>3, <3>4
  <2>2. CASE ~ \E u \in batch : u.row = i
    <3>1. rows'[i] = rows[i]
      BY <1>5, <2>2
    <3>2. \A k \in 1..n : req.todo[k] \in batch
      BY <1>4
    <3> QED
      BY <2>2, <3>1, <3>2
  <2> QED
    BY <2>1, <2>2
<1>10. Batched(n)
  BY <1>3, <1>7, <1>8, <1>9 DEF Batched
<1>11. ASSUME NEW i \in DOMAIN rows
       PROVE  /\ rows'[i] \in Row
              /\ rows'[i].source = rows[i].source
              /\ rows'[i].text = rows[i].text
              /\ rows'[i].day = rows[i].day
  <2>1. rows[i] \in Row
    BY DEF TypeInv
  <2>2. CASE rows'[i] = rows[i]
    BY <2>1, <2>2
  <2>3. CASE rows'[i] # rows[i]
    <3>1. PICK k \in 1..n :
            rows'[i] = [rows[i] EXCEPT !.type = req.todo[k].type,
                                       !.old = req.todo[k].old,
                                       !.new = req.todo[k].new]
      BY <1>9, <2>3
    <3>2. req.todo[k] \in Update
      BY <1>2, <1>3
    <3> QED
      BY <2>1, <3>1, <3>2 DEF Row, Update
  <2> QED
    BY <2>2, <2>3
<1>12. rows' = [i \in DOMAIN rows |-> rows'[i]] /\ DOMAIN rows' = DOMAIN rows
  BY <1>5
<1>13. Rewritten
  BY <1>11, <1>12 DEF Rewritten
<1>14. HistoryRows' = HistoryRows
  BY <1>13 DEF Rewritten, HistoryRows
<1> QED
  BY <1>3, <1>5, <1>8, <1>10, <1>11, <1>12, <1>13, <1>14

LEMMA ApplyBatchTyped ==
    ASSUME TypeInv, TodoInv, ApplyBatch
    PROVE  TypeInv' /\ TodoInv'
<1>1. PICK n \in Nat : Batched(n)
  BY ApplyBatchStep
<1>2. /\ req' \in Request /\ req'.pc = "pass"
      /\ rows' \in Seq(Row) /\ HistoryRows' = HistoryRows
      /\ \A i \in HistoryRows' : rows'[i].text \in Text
  BY ApplyBatchStep, TypedRewrite
<1>3. PICK L : L = Len(req.todo)
  OBVIOUS
<1>4. /\ L \in Nat /\ DOMAIN req.todo = 1..L
      /\ DOMAIN req'.todo = 1..(L - n) /\ n <= L
      /\ \A k \in 1..(L - n) : req'.todo[k] = req.todo[k + n] /\ k + n \in 1..L
  <2>1. req.todo \in Seq(Update) /\ req'.todo \in Seq(Update)
    BY <1>2 DEF TypeInv, Request
  <2>2. /\ n <= L /\ Len(req'.todo) = L - n
        /\ \A k \in 1..(L - n) : req'.todo[k] = req.todo[k + n]
    BY <1>1, <1>3 DEF Batched
  <2>3. /\ L \in Nat /\ DOMAIN req.todo = 1..L
        /\ DOMAIN req'.todo = 1..Len(req'.todo)
    BY <1>3, <2>1
  <2>4. \A k \in 1..(L - n) : k + n \in 1..L
    BY <2>2, <2>3
  <2> QED
    BY <2>2, <2>3, <2>4
<1>5. \A k \in DOMAIN req'.todo : req'.todo[k].row \in HistoryRows'
  BY <1>2, <1>4 DEF TypeInv
<1>6. \A k, l \in DOMAIN req'.todo : k # l => req'.todo[k].row # req'.todo[l].row
  <2> SUFFICES ASSUME NEW k \in DOMAIN req'.todo, NEW l \in DOMAIN req'.todo, k # l
               PROVE  req'.todo[k].row # req'.todo[l].row
    OBVIOUS
  <2>1. k + n # l + n
    BY <1>4
  <2> QED
    BY <1>4, <2>1 DEF TodoInv
<1>7. UNCHANGED <<loaded, current, known, uploads, items, passes, edits, faults, won, settled>>
      /\ disturbed' = TRUE
  BY DEF ApplyBatch, bounds
<1>8. TypeInv'
  BY <1>2, <1>5, <1>7 DEF TypeInv
<1> QED
  BY <1>2, <1>6, <1>8 DEF TodoInv

(* The corrections of an admin change no row's source, text or day. *)
LEMMA ReviewStep ==
    ASSUME TypeInv, NEW i \in DOMAIN rows, NEW type \in ChangeTypes,
           NEW onboarding \in BOOLEAN, Review(i, type, onboarding)
    PROVE  /\ rows' = [j \in DOMAIN rows |-> rows'[j]]
           /\ \A j \in DOMAIN rows : rows'[j] \in Row
           /\ Rewritten
           /\ \A j \in DOMAIN rows : rows'[j] = rows[j] \/ rows'[j].reviewed
<1>1. rows' = [rows EXCEPT ![i].type = type, ![i].onboarding = onboarding,
                           ![i].reviewed = TRUE]
  BY DEF Review
<1>2. rows[i] \in Row
  BY DEF TypeInv
<1>3. rows'[i] = [rows[i] EXCEPT !.type = type, !.onboarding = onboarding,
                                 !.reviewed = TRUE]
  BY <1>1
<1>4. /\ rows'[i] \in Row /\ rows'[i].reviewed
      /\ rows'[i].source = rows[i].source
      /\ rows'[i].text = rows[i].text
      /\ rows'[i].day = rows[i].day
  BY <1>2, <1>3 DEF Row
<1>5. DOMAIN rows' = DOMAIN rows /\ \A j \in DOMAIN rows : j # i => rows'[j] = rows[j]
  BY <1>1
<1>6. \A j \in DOMAIN rows : rows[j] \in Row
  BY DEF TypeInv
<1>7. rows' = [j \in DOMAIN rows |-> rows'[j]]
  BY <1>1
<1> QED
  BY <1>4, <1>5, <1>6, <1>7 DEF Rewritten

LEMMA ReprocessStep ==
    ASSUME TypeInv, ReprocessOnboarding
    PROVE  /\ rows' = [j \in DOMAIN rows |-> rows'[j]]
           /\ \A j \in DOMAIN rows : rows'[j] \in Row
           /\ Rewritten
           /\ \A j \in DOMAIN rows : rows'[j] = rows[j] \/
                /\ rows[j].source = "LIVE" /\ rows[j].type = "ADDED"
                /\ rows'[j] = [rows[j] EXCEPT !.onboarding = TRUE]
<1>1. PICK flagged :
        /\ \A j \in flagged : rows[j].source = "LIVE" /\ rows[j].type = "ADDED"
        /\ rows' = [i \in DOMAIN rows |->
                      IF i \in flagged THEN [rows[i] EXCEPT !.onboarding = TRUE]
                      ELSE rows[i]]
  BY DEF ReprocessOnboarding
<1>2. ASSUME NEW j \in DOMAIN rows
      PROVE  /\ rows'[j] \in Row
             /\ rows'[j].source = rows[j].source
             /\ rows'[j].text = rows[j].text
             /\ rows'[j].day = rows[j].day
             /\ rows'[j] = rows[j] \/
                  /\ rows[j].source = "LIVE" /\ rows[j].type = "ADDED"
                  /\ rows'[j] = [rows[j] EXCEPT !.onboarding = TRUE]
  <2>1. rows[j] \in Row
    BY DEF TypeInv
  <2>2. CASE j \in flagged
    <3>1. rows'[j] = [rows[j] EXCEPT !.onboarding = TRUE]
      BY <1>1, <2>2
    <3> QED
      BY <1>1, <2>1, <2>2, <3>1 DEF Row
  <2>3. CASE j \notin flagged
    BY <1>1, <2>1, <2>3
  <2> QED
    BY <2>2, <2>3
<1>3. rows' = [j \in DOMAIN rows |-> rows'[j]] /\ DOMAIN rows' = DOMAIN rows
  BY <1>1
<1> QED
  BY <1>2, <1>3 DEF Rewritten

LEMMA TypeNext == TypeInv /\ TodoInv /\ [Next]_vars => TypeInv' /\ TodoInv'
<1> SUFFICES ASSUME TypeInv, TodoInv, [Next]_vars PROVE TypeInv' /\ TodoInv'
  OBVIOUS
<1>a. ASSUME req'.todo = req.todo, req'.pc # "pass", req.pc # "pass" PROVE TodoInv'
  BY <1>a DEF TodoInv
<1>b. ASSUME req'.todo = <<>> PROVE TodoInv'
  <2>1. DOMAIN req'.todo = {}
    BY <1>b
  <2> QED
    BY <1>b, <2>1 DEF TodoInv
<1>c. ASSUME rows' = [j \in DOMAIN rows |-> rows'[j]],
             \A j \in DOMAIN rows : rows'[j] \in Row, Rewritten, Correct,
             req.pc = "idle", known' = known
      PROVE  TypeInv' /\ TodoInv'
  <2>1. /\ rows' \in Seq(Row) /\ HistoryRows' = HistoryRows
        /\ \A i \in HistoryRows' : rows'[i].text \in Text
    BY <1>c, TypedRewrite
  <2> QED
    BY <1>c, <2>1 DEF Correct, TypeInv, TodoInv
<1>1. ASSUME NEW d \in Provider \cup {Unmapped, Undeclared}, NEW replace \in BOOLEAN,
             NEW day \in Day, BeginFile(d, replace, day)
      PROVE  TypeInv' /\ TodoInv'
  <2>1. req'.todo = <<>>
    BY <1>1, NewRequests DEF BeginFile
  <2> QED
    BY <1>1, <1>b, <2>1, BeginFileTyped
<1>2. ASSUME NEW onb \in Holder, ReadRows(onb) PROVE TypeInv' /\ TodoInv'
  <2>1. req'.todo = req.todo /\ req'.pc = "items" /\ req.pc = "read"
    BY <1>2 DEF ReadRows, TypeInv, Request
  <2> QED
    BY <1>2, <1>a, <2>1, ReadRowsTyped
<1>3. ASSUME NEW t \in Text, NEW day \in Day, RecordItem(t, day) PROVE TypeInv' /\ TodoInv'
  <2>1. req'.todo = req.todo /\ req'.pc = "items" /\ req.pc = "items"
    BY <1>3 DEF RecordItem, NextItem, TypeInv, Request
  <2> QED
    BY <1>3, <1>a, <2>1, RecordItemTyped
<1>4. ASSUME NEW t \in Text, NEW day \in Day, SkipItem(t, day) PROVE TypeInv' /\ TodoInv'
  <2>1. req'.todo = req.todo /\ req'.pc = "items" /\ req.pc = "items"
    BY <1>4 DEF SkipItem, NextItem, TypeInv, Request
  <2> QED
    BY <1>4, <1>a, <2>1, SkipItemTyped
<1>5. CASE FinishFile \/ RequestDies \/ FinishPass
  <2>1. /\ req' = IdleRequest /\ rows' = rows /\ known' = known /\ current' = current
        /\ won' = {} \/ won' = won
        /\ loaded' = TRUE \/ loaded' = loaded
        /\ faults' = faults + 1 \/ faults' = faults
        /\ settled' \in {"no", "yes"} \/ settled' = settled
        /\ UNCHANGED <<uploads, items, passes, edits, disturbed>>
    BY <1>5 DEF FinishFile, RequestDies, FinishPass, db, bounds
  <2>2. req' \in Request /\ req'.todo = <<>>
    BY <2>1, NewRequests
  <2>a. DOMAIN req'.todo = {}
    BY <2>2
  <2>3. /\ HistoryRows' = HistoryRows
        /\ \A i \in HistoryRows' : rows'[i].text \in Text
    BY <2>1 DEF HistoryRows, TypeInv
  <2>b. won' \subseteq Provider /\ settled' \in {"no", "reading", "yes"}
    BY <2>1 DEF TypeInv
  <2>c. loaded' \in BOOLEAN
    BY <2>1 DEF TypeInv
  <2>d. faults' \in Nat
    BY <2>1 DEF TypeInv
  <2>4. TypeInv'
    BY <2>1, <2>2, <2>a, <2>3, <2>b, <2>c, <2>d DEF TypeInv
  <2> QED
    BY <1>b, <2>2, <2>4
<1>6. CASE StartPass
  BY <1>6, StartPassTyped
<1>7. CASE ApplyBatch
  BY <1>7, ApplyBatchTyped
<1>8. ASSUME NEW p \in Provider, ToggleAlias(p) PROVE TypeInv' /\ TodoInv'
  <2>1. /\ rows' = rows /\ req' = req /\ known' \subseteq Provider
        /\ edits' = edits + 1 /\ disturbed' = TRUE /\ settled' = "no"
        /\ UNCHANGED <<loaded, current, uploads, items, passes, faults, won>>
    BY <1>8 DEF ToggleAlias, Correct, TypeInv
  <2> QED
    BY <2>1 DEF TypeInv, TodoInv, HistoryRows
<1>9. ASSUME NEW i \in DOMAIN rows, NEW type \in ChangeTypes, NEW onboarding \in BOOLEAN,
             Review(i, type, onboarding)
      PROVE  TypeInv' /\ TodoInv'
  <2>1. Correct /\ req.pc = "idle" /\ known' = known
    BY <1>9 DEF Review
  <2> QED
    BY <1>9, <1>c, <2>1, ReviewStep
<1>10. CASE ReprocessOnboarding
  <2>1. Correct /\ req.pc = "idle" /\ known' = known
    BY <1>10 DEF ReprocessOnboarding
  <2> QED
    BY <1>10, <1>c, <2>1, ReprocessStep
<1>11. CASE UNCHANGED vars
  BY <1>11 DEF vars, db, bounds, TypeInv, TodoInv, HistoryRows
<1> QED
  BY <1>1, <1>2, <1>3, <1>4, <1>5, <1>6, <1>7, <1>8, <1>9, <1>10, <1>11 DEF Next

LEMMA TodoInit == Init => TodoInv
<1> SUFFICES ASSUME Init PROVE TodoInv
  OBVIOUS
<1>1. req.todo = <<>>
  BY NewRequests DEF Init
<1>2. DOMAIN req.todo = {}
  BY <1>1
<1> QED
  BY <1>1, <1>2 DEF TodoInv

LEMMA TypeInvariant == Spec => [](TypeInv /\ TodoInv)
<1>1. Init => TypeInv /\ TodoInv
  BY TypeInit, TodoInit
<1>2. (TypeInv /\ TodoInv) /\ [Next]_vars => (TypeInv /\ TodoInv)'
  BY TypeNext
<1> QED
  BY <1>1, <1>2, PTL DEF Spec

(* Every variable keeps its type; an update of a pass is of a row there is,    *)
(* and that an upload's change history has stored.                             *)
THEOREM HistoryTypeCorrect == Spec => []TypeOK
<1>1. TypeInv => TypeOK
  BY TypeInvImplies
<1> QED
  BY <1>1, TypeInvariant, PTL

-----------------------------------------------------------------------------
(* The wins a file names.                                                      *)

(* A row onboards because an admin said so, or as the live addition it is. *)
OnboardingInv ==
    \A i \in DOMAIN rows :
        rows[i].onboarding
          => rows[i].reviewed \/ (rows[i].source = "LIVE" /\ rows[i].type = "ADDED")

(* The sets of the loop hold what the table holds, and nothing else. *)
LoopInv ==
    /\ req.pc = "items" =>
         /\ \A k \in req.seen : \E i \in DOMAIN rows : DedupKey(rows[i]) = k
         /\ \A p \in req.added : \E i \in DOMAIN rows : Gains(rows[i], p)
         /\ req.onb \in OnboardingChoices
    /\ req.pc # "items" => won = {}

Credited(p) ==
    \E i \in DOMAIN rows : Gains(rows[i], p) \/ (rows[i].new = p /\ rows[i].reviewed)

CreditInv == TypeInv /\ TodoInv /\ OnboardingInv /\ LoopInv /\ SwapIsCredited

(* A swap whose two names resolve is read as one, unless its win is on record. *)
LEMMA SwapSides ==
    ASSUME known \subseteq Provider, NEW t, NEW added, NEW onb,
           Resolve(t.old) # Null, Resolve(t.new) # Null
    PROVE  /\ IsCarrier(t)
           /\ t.new \in Provider
           /\ Sides(t, added, onb).old # Null
           /\ t.new \notin added => /\ Sides(t, added, onb).new = t.new
                                    /\ ChangeType(Sides(t, added, onb).old,
                                                  Sides(t, added, onb).new) = "REPLACED"
<1>1. t.old \in Provider /\ t.new \in Provider /\ Resolve(t.old) = t.old /\ Resolve(t.new) = t.new
  BY DEF Resolve
<1>2. t.old # Null /\ t.new # Null
  BY <1>1, ConstantsAssumption
<1>3. Sides(t, added, onb) =
        [old |-> t.old,
         new |-> Reconcile(t.old, IF t.new \in added THEN Null ELSE t.new, onb)]
  BY <1>1 DEF Sides
<1>4. t.new \notin added =>
        Reconcile(t.old, IF t.new \in added THEN Null ELSE t.new, onb) = t.new
  BY <1>2 DEF Reconcile
<1> QED
  BY <1>1, <1>2, <1>3, <1>4 DEF IsCarrier, ChangeType

LEMMA RowOfSwap ==
    ASSUME TypeInv, NEW t, NEW day, Resolve(t.old) # Null, Resolve(t.new) # Null
    PROVE  \E row \in RowOf(t, day) :
              t.new \notin req.added =>
                  row.new = t.new /\ row.type = "REPLACED" /\ ~row.onboarding
<1>1. PICK s : s = Sides(t, req.added, req.onb)
  OBVIOUS
<1>2. /\ IsCarrier(t) /\ s.old # Null
      /\ t.new \notin req.added =>
           s.new = t.new /\ ChangeType(s.old, s.new) = "REPLACED"
  BY <1>1, SwapSides DEF TypeInv
<1>3. RowOf(t, day) = {HistoryRow(t, day, ChangeType(s.old, s.new), s.old, s.new)}
  BY <1>1, <1>2 DEF RowOf
<1> QED
  BY <1>2, <1>3 DEF HistoryRow

LEMMA RowOfIsOne ==
    ASSUME NEW t, NEW day, NEW row \in RowOf(t, day)
    PROVE  RowOf(t, day) = {row}
  BY DEF RowOf

(* The key of a row that is not an update gives its type and sides. *)
LEMMA KeysTell ==
    ASSUME NEW row1, NEW row2, DedupKey(row1) = DedupKey(row2)
    PROVE  /\ row1.type = row2.type
           /\ row1.type # "UPDATE" => row1.new = row2.new
<1>1. DedupKey(row1).type = row1.type /\ DedupKey(row2).type = row2.type
  BY DEF DedupKey
<1>2. row1.type # "UPDATE" => DedupKey(row1).new = row1.new
  BY DEF DedupKey
<1>3. row2.type # "UPDATE" => DedupKey(row2).new = row2.new
  BY DEF DedupKey
<1> QED
  BY <1>1, <1>2, <1>3

(* The winner of an entry that the loop skips is credited already. *)
LEMMA SkippedIsCredited ==
    ASSUME CreditInv, req.pc = "items", NEW t, NEW day,
           Resolve(t.old) # Null, Resolve(t.new) # Null,
           \A row \in RowOf(t, day) : DedupKey(row) \in req.seen
    PROVE  Credited(t.new)
<1>1. PICK row \in RowOf(t, day) :
         t.new \notin req.added =>
            row.new = t.new /\ row.type = "REPLACED" /\ ~row.onboarding
  BY RowOfSwap DEF CreditInv
<1>2. CASE t.new \in req.added
  BY <1>2 DEF CreditInv, LoopInv, Credited
<1>3. CASE t.new \notin req.added
  <2>1. PICK i \in DOMAIN rows : DedupKey(rows[i]) = DedupKey(row)
    BY <1>1 DEF CreditInv, LoopInv
  <2>2. rows[i].type = "REPLACED" /\ rows[i].new = t.new
    BY <1>1, <1>3, <2>1, KeysTell
  <2>3. rows[i].onboarding => rows[i].reviewed
    BY <2>2 DEF CreditInv, OnboardingInv
  <2> QED
    BY <2>2, <2>3 DEF Credited, Gains
<1> QED
  BY <1>2, <1>3

(* Rows that stay keep crediting, the ones onboarding stay the same choices. *)
LEMMA AppendedTable ==
    ASSUME TypeInv, NEW row \in Row, rows' = Append(rows, row), row.source = "HISTORY",
           row.text \in Text
    PROVE  /\ \A p : Credited(p) => Credited(p)'
           /\ \A i \in DOMAIN rows : i \in DOMAIN rows' /\ rows'[i] = rows[i]
           /\ Len(rows) + 1 \in DOMAIN rows' /\ rows'[Len(rows) + 1] = row
           /\ DOMAIN rows' = DOMAIN rows \cup {Len(rows) + 1}
           /\ OnboardingChoices' = OnboardingChoices
<1>1. /\ DOMAIN rows' = DOMAIN rows \cup {Len(rows) + 1}
      /\ Len(rows) + 1 \notin DOMAIN rows
      /\ rows'[Len(rows) + 1] = row
      /\ \A i \in DOMAIN rows : rows'[i] = rows[i]
  BY TypedAppend
<1>2. \A p : Credited(p) => Credited(p)'
  BY <1>1 DEF Credited, Gains
<1>3. ~OnboardingRow(row)
  BY DEF OnboardingRow
<1>4. PICK now, then :
         /\ now = {i \in DOMAIN rows : OnboardingRow(rows[i])}
         /\ then = {i \in DOMAIN rows' : OnboardingRow(rows'[i])}
  OBVIOUS
<1>5. now = then
  BY <1>1, <1>3, <1>4 DEF OnboardingRow
<1>6. {rows[i].new : i \in now} = {rows'[i].new : i \in then}
  BY <1>1, <1>4, <1>5
<1>7. OnboardingChoices' = OnboardingChoices
  BY <1>4, <1>6 DEF OnboardingChoices, OnboardingRow
<1> QED
  BY <1>1, <1>2, <1>7

LEMMA RecordItemCredits ==
    ASSUME CreditInv, NEW t \in Text, NEW day \in Day, RecordItem(t, day)
    PROVE  OnboardingInv' /\ LoopInv' /\ SwapIsCredited'
<1>1. PICK row \in RowOf(t, day) :
         /\ rows' = Append(rows, row)
         /\ req' = [req EXCEPT !.done = @ \cup {<<t, day>>},
                               !.seen = @ \cup {DedupKey(row)},
                               !.added = @ \cup ({row.new} \ {Null})]
  BY DEF RecordItem
<1>2. row \in Row /\ row.source = "HISTORY" /\ row.text = t /\ ~row.onboarding
  BY RowOfType DEF CreditInv
<1>3. /\ \A p : Credited(p) => Credited(p)'
      /\ \A i \in DOMAIN rows : i \in DOMAIN rows' /\ rows'[i] = rows[i]
      /\ Len(rows) + 1 \in DOMAIN rows' /\ rows'[Len(rows) + 1] = row
      /\ DOMAIN rows' = DOMAIN rows \cup {Len(rows) + 1}
      /\ OnboardingChoices' = OnboardingChoices
  BY <1>1, <1>2, AppendedTable DEF CreditInv
<1>4. /\ req.pc = "items" /\ req'.pc = "items" /\ req'.onb = req.onb
      /\ req'.seen = req.seen \cup {DedupKey(row)}
      /\ req'.added = req.added \cup ({row.new} \ {Null})
  BY <1>1 DEF RecordItem, NextItem, CreditInv, TypeInv, Request
<1>5. OnboardingInv'
  BY <1>2, <1>3 DEF OnboardingInv, CreditInv
<1>6. row.new # Null => Gains(row, row.new)
  <2>1. PICK s : s = Sides(t, req.added, req.onb)
    OBVIOUS
  <2>2. \/ row = HistoryRow(t, day, ChangeType(s.old, s.new), s.old, s.new)
        \/ row = HistoryRow(t, day, "UPDATE", Null, Null)
    BY <2>1 DEF RowOf
  <2> QED
    BY <2>2 DEF HistoryRow, ChangeType, Gains
<1>7. \A k \in req'.seen : \E i \in DOMAIN rows' : DedupKey(rows'[i]) = k
  BY <1>3, <1>4 DEF CreditInv, LoopInv
<1>8. \A p \in req'.added : \E i \in DOMAIN rows' : Gains(rows'[i], p)
  BY <1>3, <1>4, <1>6 DEF CreditInv, LoopInv
<1>9. LoopInv'
  BY <1>3, <1>4, <1>7, <1>8 DEF LoopInv, CreditInv, DedupKey, Gains
<1>10. SwapIsCredited'
  <2>1. \A p \in won : Credited(p)'
    BY <1>3, <1>4 DEF CreditInv, SwapIsCredited, Credited
  <2>2. ASSUME Resolve(t.old) # Null, Resolve(t.new) # Null PROVE Credited(t.new)'
    <3>1. t.new \notin req.added =>
            row.new = t.new /\ row.type = "REPLACED" /\ ~row.onboarding
      BY <1>1, <2>2, RowOfSwap, RowOfIsOne DEF CreditInv
    <3>2. CASE t.new \in req.added
      <4>1. Credited(t.new)
        BY <1>4, <3>2 DEF CreditInv, LoopInv, Credited
      <4> QED
        BY <1>3, <4>1
    <3>3. CASE t.new \notin req.added
      <4>1. Gains(rows'[Len(rows) + 1], t.new)
        BY <1>3, <3>1, <3>3 DEF Gains
      <4> QED
        BY <1>3, <4>1 DEF Credited, Gains
    <3> QED
      BY <3>2, <3>3
  <2>3. won' = won \/ (Resolve(t.old) # Null /\ Resolve(t.new) # Null
                       /\ won' = won \cup {t.new})
    BY DEF RecordItem, NextItem
  <2>4. \A p \in won' : Credited(p)'
    BY <2>1, <2>2, <2>3
  <2> QED
    BY <2>4 DEF SwapIsCredited, Credited, Gains
<1> QED
  BY <1>5, <1>9, <1>10

LEMMA SkipItemCredits ==
    ASSUME CreditInv, NEW t \in Text, NEW day \in Day, SkipItem(t, day)
    PROVE  OnboardingInv' /\ LoopInv' /\ SwapIsCredited'
<1>1. /\ rows' = rows /\ req.pc = "items" /\ req'.pc = "items"
      /\ req'.seen = req.seen /\ req'.added = req.added /\ req'.onb = req.onb
      /\ \A row \in RowOf(t, day) : DedupKey(row) \in req.seen
  BY DEF SkipItem, NextItem, db, CreditInv, TypeInv, Request
<1>2. won' = won \/ (Resolve(t.old) # Null /\ Resolve(t.new) # Null
                     /\ won' = won \cup {t.new})
  BY DEF SkipItem, NextItem
<1>3. Resolve(t.old) # Null /\ Resolve(t.new) # Null => Credited(t.new)
  BY <1>1, SkippedIsCredited
<1>4. \A p \in won' : Credited(p)
  BY <1>1, <1>2, <1>3 DEF CreditInv, SwapIsCredited, Credited
<1>5. OnboardingChoices' = OnboardingChoices
  BY <1>1 DEF OnboardingChoices, OnboardingRow
<1>6. SwapIsCredited'
  BY <1>1, <1>4 DEF SwapIsCredited, Credited, Gains
<1>7. LoopInv'
  BY <1>1, <1>5 DEF LoopInv, CreditInv, DedupKey, Gains
<1> QED
  BY <1>1, <1>6, <1>7 DEF CreditInv, OnboardingInv

LEMMA ReadRowsCredits ==
    ASSUME CreditInv, NEW onb \in Holder, ReadRows(onb)
    PROVE  OnboardingInv' /\ LoopInv' /\ SwapIsCredited'
<1>1. /\ rows' = rows /\ won' = won /\ req.pc = "read" /\ req'.pc = "items"
      /\ req'.seen = {DedupKey(rows[i]) : i \in DOMAIN rows}
      /\ req'.added = GainsOnRecord /\ req'.onb = onb /\ onb \in OnboardingChoices
  BY DEF ReadRows, db, CreditInv, TypeInv, Request
<1>2. won' = {}
  BY <1>1 DEF CreditInv, LoopInv
<1>3. OnboardingChoices' = OnboardingChoices
  BY <1>1 DEF OnboardingChoices, OnboardingRow
<1>4. LoopInv'
  BY <1>1, <1>3 DEF LoopInv, GainsOnRecord, DedupKey, Gains
<1> QED
  BY <1>1, <1>2, <1>4 DEF CreditInv, OnboardingInv, SwapIsCredited

(* Outside the loop no win is pending. *)
LEMMA OutsideCredits ==
    ASSUME req'.pc # "items", won' = {}
    PROVE  LoopInv' /\ SwapIsCredited'
  BY DEF LoopInv, SwapIsCredited

LEMMA CreditStep ==
    ASSUME CreditInv, [Next]_vars
    PROVE  OnboardingInv' /\ LoopInv' /\ SwapIsCredited'
<1>t. TypeInv
  BY DEF CreditInv
<1>a. ASSUME rows' = rows PROVE OnboardingInv'
  BY <1>a DEF CreditInv, OnboardingInv
<1>b. ASSUME req.pc # "items" PROVE won = {}
  BY <1>b DEF CreditInv, LoopInv
<1>1. ASSUME NEW d \in Provider \cup {Unmapped, Undeclared}, NEW replace \in BOOLEAN,
             NEW day \in Day, BeginFile(d, replace, day)
      PROVE  OnboardingInv' /\ LoopInv' /\ SwapIsCredited'
  <2>1. req'.pc # "items" /\ won' = {}
    BY <1>1, <1>b DEF BeginFile, IdleRequest
  <2>2. OnboardingInv'
    <3>1. CASE rows' = rows
      BY <1>a, <3>1
    <3>2. CASE rows' # rows
      <4>1. PICK row : /\ rows' = Append(rows, row)
                       /\ row.onboarding => row.source = "LIVE" /\ row.type = "ADDED"
        <5>1. PICK new, type : type = ChangeType(current, new)
                               /\ new = IF d \in Provider THEN d ELSE Null
          OBVIOUS
        <5>2. PICK flag : flag = (type = "ADDED" /\ (replace \/ ~loaded))
          OBVIOUS
        <5>3. PICK live :
                live = [source |-> "LIVE", type |-> type, old |-> current, new |-> new,
                        onboarding |-> flag, text |-> Null, day |-> day, reviewed |-> FALSE]
          OBVIOUS
        <5>4. rows' = Append(rows, live)
          BY <1>1, <3>2, <5>1, <5>2, <5>3 DEF BeginFile
        <5>5. live.onboarding = flag /\ live.source = "LIVE" /\ live.type = type
          BY <5>3
        <5> QED
          BY <5>2, <5>4, <5>5
      <4>2. rows \in Seq(Row)
        BY <1>t DEF TypeInv
      <4>3. RowsAreASequence
        BY <4>2 DEF RowsAreASequence
      <4>4. /\ DOMAIN rows' = DOMAIN rows \cup {Len(rows) + 1}
            /\ \A i \in DOMAIN rows : rows'[i] = rows[i]
            /\ rows'[Len(rows) + 1] = row
        BY <4>1, <4>3, AppendRow
      <4> QED
        BY <4>1, <4>4 DEF CreditInv, OnboardingInv
    <3> QED
      BY <3>1, <3>2
  <2> QED
    BY <2>1, <2>2, OutsideCredits
<1>2. ASSUME NEW onb \in Holder, ReadRows(onb)
      PROVE  OnboardingInv' /\ LoopInv' /\ SwapIsCredited'
  BY <1>2, ReadRowsCredits
<1>3. ASSUME NEW t \in Text, NEW day \in Day, RecordItem(t, day)
      PROVE  OnboardingInv' /\ LoopInv' /\ SwapIsCredited'
  BY <1>3, RecordItemCredits
<1>4. ASSUME NEW t \in Text, NEW day \in Day, SkipItem(t, day)
      PROVE  OnboardingInv' /\ LoopInv' /\ SwapIsCredited'
  BY <1>4, SkipItemCredits
<1>5. CASE FinishFile \/ RequestDies \/ FinishPass \/ StartPass
  <2>1. rows' = rows /\ req'.pc # "items" /\ won' = {}
    <3>1. CASE FinishFile \/ RequestDies
      BY <3>1 DEF FinishFile, RequestDies, db, IdleRequest
    <3>2. CASE FinishPass
      BY <3>2, <1>b DEF FinishPass, db, IdleRequest
    <3>3. CASE StartPass
      <4>1. PICK todo : req' = [IdleRequest EXCEPT !.pc = "pass", !.todo = todo]
        BY <3>3 DEF StartPass
      <4> QED
        BY <3>3, <4>1, <1>b DEF StartPass, db, IdleRequest
    <3> QED
      BY <1>5, <3>1, <3>2, <3>3
  <2> QED
    BY <1>a, <2>1, OutsideCredits
<1>6. CASE ApplyBatch
  <2>1. PICK n \in Nat : Batched(n)
    BY <1>6, <1>t, ApplyBatchStep
  <2>2. /\ req'.pc # "items" /\ won' = {} /\ HistoryRows' = HistoryRows /\ Rewritten
    BY <1>6, <1>b, <1>t, ApplyBatchStep DEF ApplyBatch
  <2>3. ASSUME NEW i \in DOMAIN rows', rows'[i].onboarding
        PROVE  rows'[i].reviewed \/ (rows'[i].source = "LIVE" /\ rows'[i].type = "ADDED")
    <3>1. i \in DOMAIN rows /\ rows[i] \in Row
      BY <1>t, <2>2 DEF Rewritten, TypeInv
    <3>2. CASE rows'[i] = rows[i]
      BY <2>3, <3>1, <3>2 DEF CreditInv, OnboardingInv
    <3>3. CASE rows'[i] # rows[i]
      <4>1. PICK k \in 1..n :
              /\ req.todo[k].row = i
              /\ rows'[i] = [rows[i] EXCEPT !.type = req.todo[k].type,
                                            !.old = req.todo[k].old,
                                            !.new = req.todo[k].new]
        BY <2>1, <3>1, <3>3 DEF Batched
      <4>2. rows'[i].onboarding = rows[i].onboarding /\ rows'[i].reviewed = rows[i].reviewed
        BY <3>1, <4>1 DEF Row
      <4>3. k \in DOMAIN req.todo
        <5>1. req.todo \in Seq(Update)
          BY <1>t DEF TypeInv, Request
        <5>2. n <= Len(req.todo)
          BY <2>1 DEF Batched
        <5> QED
          BY <5>1, <5>2
      <4>4. rows[i].source = "HISTORY"
        BY <1>t, <4>1, <4>3 DEF TypeInv, HistoryRows
      <4> QED
        BY <2>3, <3>1, <4>2, <4>4 DEF CreditInv, OnboardingInv
    <3> QED
      BY <3>2, <3>3
  <2> QED
    BY <2>2, <2>3, OutsideCredits DEF OnboardingInv
<1>7. ASSUME NEW p \in Provider, ToggleAlias(p)
      PROVE  OnboardingInv' /\ LoopInv' /\ SwapIsCredited'
  <2>1. rows' = rows /\ req' = req /\ won' = won
    BY <1>7 DEF ToggleAlias, Correct
  <2>2. OnboardingChoices' = OnboardingChoices
    BY <2>1 DEF OnboardingChoices, OnboardingRow
  <2>3. LoopInv' /\ SwapIsCredited'
    BY <2>1, <2>2 DEF CreditInv, LoopInv, SwapIsCredited, DedupKey, Gains
  <2> QED
    BY <1>a, <2>1, <2>3
<1>8. ASSUME NEW i \in DOMAIN rows, NEW type \in ChangeTypes, NEW onboarding \in BOOLEAN,
             Review(i, type, onboarding)
      PROVE  OnboardingInv' /\ LoopInv' /\ SwapIsCredited'
  <2>1. req'.pc # "items" /\ won' = {}
    BY <1>8, <1>b DEF Review, Correct
  <2>2. DOMAIN rows' = DOMAIN rows /\ \A j \in DOMAIN rows : rows'[j] = rows[j] \/ rows'[j].reviewed
    BY <1>8, <1>t, ReviewStep DEF Rewritten
  <2>3. OnboardingInv'
    BY <2>2 DEF CreditInv, OnboardingInv
  <2> QED
    BY <2>1, <2>3, OutsideCredits
<1>9. CASE ReprocessOnboarding
  <2>1. req'.pc # "items" /\ won' = {}
    BY <1>9, <1>b DEF ReprocessOnboarding, Correct
  <2>2. /\ DOMAIN rows' = DOMAIN rows
        /\ \A j \in DOMAIN rows : rows'[j] = rows[j] \/
              /\ rows[j].source = "LIVE" /\ rows[j].type = "ADDED"
              /\ rows'[j] = [rows[j] EXCEPT !.onboarding = TRUE]
    BY <1>9, <1>t, ReprocessStep DEF Rewritten
  <2>3. \A j \in DOMAIN rows : rows'[j] = rows[j] \/
              (rows'[j].source = "LIVE" /\ rows'[j].type = "ADDED")
    <3>1. \A j \in DOMAIN rows : rows[j] \in Row
      BY <1>t DEF TypeInv
    <3> QED
      BY <2>2, <3>1 DEF Row
  <2>4. OnboardingInv'
    BY <2>2, <2>3 DEF CreditInv, OnboardingInv
  <2> QED
    BY <2>1, <2>4, OutsideCredits
<1>10. CASE UNCHANGED vars
  <2>1. rows' = rows /\ req' = req /\ won' = won
    BY <1>10 DEF vars, db
  <2>2. OnboardingChoices' = OnboardingChoices
    BY <2>1 DEF OnboardingChoices, OnboardingRow
  <2>3. LoopInv' /\ SwapIsCredited'
    BY <2>1, <2>2 DEF CreditInv, LoopInv, SwapIsCredited, DedupKey, Gains
  <2> QED
    BY <1>a, <2>1, <2>3
<1> QED
  BY <1>1, <1>2, <1>3, <1>4, <1>5, <1>6, <1>7, <1>8, <1>9, <1>10 DEF Next

LEMMA CreditNext == CreditInv /\ [Next]_vars => CreditInv'
<1> SUFFICES ASSUME CreditInv, [Next]_vars PROVE CreditInv'
  OBVIOUS
<1>1. OnboardingInv' /\ LoopInv' /\ SwapIsCredited'
  BY CreditStep
<1>2. TypeInv' /\ TodoInv'
  BY TypeNext DEF CreditInv
<1> QED
  BY <1>1, <1>2 DEF CreditInv

LEMMA CreditInvariant == Spec => []CreditInv
<1>1. Init => CreditInv
  <2> SUFFICES ASSUME Init PROVE CreditInv
    OBVIOUS
  <2>1. TypeInv /\ TodoInv
    BY TypeInit, TodoInit
  <2>2. rows = <<>> /\ won = {} /\ req.pc = "idle"
    BY DEF Init, IdleRequest
  <2>3. DOMAIN rows = {}
    BY <2>2
  <2> QED
    BY <2>1, <2>2, <2>3 DEF CreditInv, OnboardingInv, LoopInv, SwapIsCredited
<1> QED
  BY <1>1, CreditNext, PTL DEF Spec

(* Each win that the swaps of the file in flight have named is a counted gain  *)
(* of the log, or belongs to a row an admin has reviewed.                      *)
THEOREM SwapsAreCredited == Spec => []SwapIsCredited
<1>1. CreditInv => SwapIsCredited
  BY DEF CreditInv
<1> QED
  BY <1>1, CreditInvariant, PTL

-----------------------------------------------------------------------------
(* What a pass leaves.                                                         *)

(* A[n] are the winners known once n rows of the order are read. *)
Reads(A, order, onb) ==
    /\ A \in [0..Len(order) -> SUBSET Provider]
    /\ A[0] = LiveGains
    /\ \A n \in 1..Len(order) :
         A[n] = A[n - 1] \cup ({u.new : u \in Reread(order[n], A[n - 1], onb)} \ {Null})

(* The row is as u reads it, now or once the pass has written what it holds.   *)
Says(u) ==
    \/ \E k \in DOMAIN req.todo : req.todo[k] = u
    \/ AlreadySo(u) /\ \A k \in DOMAIN req.todo : req.todo[k].row # u.row

SaysAll(A, order, onb) ==
    \A n \in 1..Len(order) : \A u \in Reread(order[n], A[n - 1], onb) : Says(u)

PassInv ==
    /\ settled = "reading" => req.pc = "pass"
    /\ settled = "yes" => req.pc # "pass"
    /\ settled \in {"reading", "yes"} =>
         \E order \in PassOrders, onb \in OnboardingChoices :
            \E A : Reads(A, order, onb) /\ SaysAll(A, order, onb)

(* The pass that starts will write, or need not write, each of its readings. *)
LEMMA StartPassReads ==
    ASSUME TypeInv, NEW order \in PassOrders, NEW onb \in Holder,
           NEW todo, todo = Updates(order, onb)
    PROVE  \E A : /\ Reads(A, order, onb)
                  /\ \A n \in 1..Len(order) : \A u \in Reread(order[n], A[n - 1], onb) :
                       \/ \E k \in DOMAIN todo : todo[k] = u
                       \/ AlreadySo(u) /\ \A k \in DOMAIN todo : todo[k].row # u.row
<1>1. LiveGains \in SUBSET Provider
  BY DEF LiveGains
<1>2. PICK r, N : r = Reading(LiveGains, order, onb) /\ N = Len(order)
  OBVIOUS
<1>3. /\ order \in Seq(HistoryRows) /\ N \in Nat
      /\ \A m, n \in 1..N : m # n => order[m] # order[n]
      /\ \A m \in 1..N : order[m] \in HistoryRows
  BY <1>2, PassOrderType DEF TypeInv
<1>4. /\ r \in [0..N -> Knowledge]
      /\ r[0] = [added |-> LiveGains, todo |-> <<>>]
      /\ \A n \in 1..N : r[n] = PassStep(r[n - 1], order[n], onb)
  <2>1. /\ Reading(LiveGains, order, onb) \in [0..Len(order) -> Knowledge]
        /\ Reading(LiveGains, order, onb)[0] = [added |-> LiveGains, todo |-> <<>>]
        /\ \A n \in 1..Len(order) :
             Reading(LiveGains, order, onb)[n] =
                 PassStep(Reading(LiveGains, order, onb)[n - 1], order[n], onb)
    BY <1>1, <1>3, ReadingRecursion
  <2> QED
    BY <1>2, <2>1
<1>5. WritesReadings(r, order, onb, N)
  BY <1>1, <1>2, ReadingWrites
<1>6. todo = r[N].todo
  BY <1>2 DEF Updates, UpdatesFrom
<1>7. PICK A : A = [n \in 0..N |-> r[n].added]
  OBVIOUS
<1>8. \A n \in 1..N : n - 1 \in 0..N /\ n \in 0..N
  BY <1>3
<1>9. A \in [0..N -> SUBSET Provider] /\ A[0] = LiveGains
  <2>1. \A n \in 0..N : r[n].added \in SUBSET Provider
    BY <1>4 DEF Knowledge
  <2>2. 0 \in 0..N /\ r[0].added = LiveGains
    BY <1>3, <1>4
  <2> QED
    BY <1>7, <2>1, <2>2
<1>10. ASSUME NEW n \in 1..N
       PROVE  A[n] = A[n - 1] \cup ({u.new : u \in Reread(order[n], A[n - 1], onb)} \ {Null})
  <2>1. A[n - 1] = r[n - 1].added /\ A[n] = r[n].added
    BY <1>7, <1>8
  <2>2. r[n].added = r[n - 1].added
          \cup ({u.new : u \in Reread(order[n], r[n - 1].added, onb)} \ {Null})
    <3>1. PICK acc, read : acc = r[n - 1] /\ read = Reread(order[n], acc.added, onb)
      OBVIOUS
    <3>2. PICK q : q = acc.todo \o SetToSeq({u \in read : ~AlreadySo(u)})
      OBVIOUS
    <3>3. PassStep(acc, order[n], onb) =
            [added |-> acc.added \cup ({u.new : u \in read} \ {Null}), todo |-> q]
      BY <3>1, <3>2 DEF PassStep
    <3>4. r[n] = PassStep(acc, order[n], onb)
      BY <1>4, <3>1
    <3> QED
      BY <3>1, <3>3, <3>4
  <2> QED
    BY <2>1, <2>2
<1>11. ASSUME NEW n \in 1..N, NEW u \in Reread(order[n], A[n - 1], onb)
       PROVE  \/ \E k \in DOMAIN todo : todo[k] = u
              \/ AlreadySo(u) /\ \A k \in DOMAIN todo : todo[k].row # u.row
  <2>1. u \in Reread(order[n], r[n - 1].added, onb)
    BY <1>7, <1>8, <1>11
  <2>2. AlreadySo(u) \/ \E k \in DOMAIN todo : todo[k] = u
    BY <1>5, <1>6, <2>1 DEF WritesReadings
  <2>3. ASSUME AlreadySo(u), NEW k \in DOMAIN todo, todo[k].row = u.row PROVE FALSE
    <3>1. PICK m \in 1..N : /\ todo[k] \in Reread(order[m], r[m - 1].added, onb)
                            /\ ~AlreadySo(todo[k])
      BY <1>5, <1>6, <2>3 DEF WritesReadings
    <3>2. todo[k].row = order[m]
      BY <1>3, <3>1, RereadType
    <3>3. u.row = order[n]
      BY <1>3, <2>1, RereadType
    <3>4. m = n
      BY <1>3, <2>3, <3>2, <3>3
    <3>5. todo[k] = u
      BY <2>1, <3>1, <3>4, RereadIsOne
    <3> QED
      BY <2>3, <3>1, <3>5
  <2> QED
    BY <2>2, <2>3
<1>12. Reads(A, order, onb)
  BY <1>2, <1>9, <1>10 DEF Reads
<1> QED
  BY <1>2, <1>11, <1>12

(* A reading depends on the text of its row and on the names that resolve. *)
LEMMA SameReading ==
    ASSUME NEW i, rows'[i].text = rows[i].text, known' = known, NEW added, NEW onb
    PROVE  Reread(i, added, onb)' = Reread(i, added, onb)
<1>1. PICK t : t = rows[i].text
  OBVIOUS
<1>2. rows'[i].text = t
  BY <1>1
<1>3. PICK s : s = Sides(t, added, onb)
  OBVIOUS
<1>4. Sides(rows[i].text, added, onb)' = s
  BY <1>2, <1>3 DEF Sides, Resolve
<1>5. Reread(i, added, onb) = RereadAs(i, s)
  BY <1>1, <1>3 DEF Reread
<1>6. Reread(i, added, onb)' = RereadAs(i, s)'
  BY <1>4 DEF Reread
<1>7. RereadAs(i, s)' = RereadAs(i, s)
  BY <1>1, <1>2 DEF RereadAs
<1> QED
  BY <1>5, <1>6, <1>7

LiveRowsStay == \A i \in DOMAIN rows : rows[i].source = "LIVE" => rows'[i] = rows[i]

LEMMA SamePass ==
    ASSUME Rewritten, LiveRowsStay
    PROVE  /\ PassOrders' = PassOrders
           /\ LiveGains' = LiveGains
           /\ OnboardingChoices' = OnboardingChoices
<1>1. DOMAIN rows' = DOMAIN rows
  BY DEF Rewritten
<1>2. HistoryRows' = HistoryRows
  BY DEF Rewritten, HistoryRows
<1>3. PassOrders' = PassOrders
  <2>1. PICK seqs : seqs = SetToSeqs(HistoryRows)
    OBVIOUS
  <2>2. SetToSeqs(HistoryRows)' = seqs
    BY <1>2, <2>1 DEF SetToSeqs
  <2>3. \A order \in seqs : \A n \in DOMAIN order : order[n] \in DOMAIN rows
    BY <2>1 DEF SetToSeqs, HistoryRows
  <2>4. \A order \in seqs : \A n \in DOMAIN order : rows'[order[n]].day = rows[order[n]].day
    BY <2>3 DEF Rewritten
  <2> QED
    BY <2>1, <2>2, <2>4 DEF PassOrders
<1>4. \A i \in DOMAIN rows : \A p :
        (rows'[i].source = "LIVE" /\ Gains(rows'[i], p)) =
        (rows[i].source = "LIVE" /\ Gains(rows[i], p))
  BY DEF Rewritten, LiveRowsStay, Gains
<1>5. LiveGains' = LiveGains
  BY <1>1, <1>4 DEF LiveGains, Gains
<1>6. \A i \in DOMAIN rows : OnboardingRow(rows'[i]) = OnboardingRow(rows[i])
  BY DEF Rewritten, LiveRowsStay, OnboardingRow
<1>7. \A i \in DOMAIN rows : OnboardingRow(rows[i]) => rows'[i].new = rows[i].new
  BY DEF Rewritten, LiveRowsStay, OnboardingRow
<1>8. PICK now, then :
         /\ now = {j \in DOMAIN rows : OnboardingRow(rows[j])}
         /\ then = {j \in DOMAIN rows' : OnboardingRow(rows'[j])}
  OBVIOUS
<1>9. now = then
  BY <1>1, <1>6, <1>8
<1>10. {rows[i].new : i \in now} = {rows'[i].new : i \in then}
  BY <1>1, <1>7, <1>8, <1>9
<1>11. OnboardingChoices' = OnboardingChoices
  BY <1>8, <1>10 DEF OnboardingChoices, OnboardingRow
<1> QED
  BY <1>3, <1>5, <1>11

LEMMA KeepsReading ==
    ASSUME TypeInv, Rewritten, LiveRowsStay, known' = known,
           NEW order \in PassOrders, NEW onb \in Holder, NEW A,
           Reads(A, order, onb), SaysAll(A, order, onb),
           \A u \in Update : u.row \in HistoryRows /\ Says(u) => Says(u)'
    PROVE  Reads(A, order, onb)' /\ SaysAll(A, order, onb)'
<1>1. PICK N : N = Len(order)
  OBVIOUS
<1>2. N \in Nat /\ \A n \in 1..N : order[n] \in HistoryRows
  BY <1>1, PassOrderType DEF TypeInv
<1>3. ASSUME NEW n \in 1..N
      PROVE  Reread(order[n], A[n - 1], onb)' = Reread(order[n], A[n - 1], onb)
  <2>1. PICK i, added : i = order[n] /\ added = A[n - 1]
    OBVIOUS
  <2>2. i \in DOMAIN rows
    BY <1>2, <2>1 DEF HistoryRows
  <2>3. Reread(i, added, onb)' = Reread(i, added, onb)
    BY <2>2, SameReading DEF Rewritten
  <2> QED
    BY <2>1, <2>3
<1>4. ASSUME NEW n \in 1..N, NEW u \in Reread(order[n], A[n - 1], onb)
      PROVE  Says(u)'
  <2>1. PICK i, added : i = order[n] /\ added = A[n - 1]
    OBVIOUS
  <2>2. i \in HistoryRows /\ u \in Reread(i, added, onb)
    BY <1>2, <1>4, <2>1
  <2>3. u \in Update /\ u.row = i
    BY <2>2, RereadType
  <2>4. Says(u)
    BY <1>1, <1>4 DEF SaysAll
  <2> QED
    BY <2>2, <2>3, <2>4
<1>5. LiveGains' = LiveGains
  BY SamePass
<1>6. Reads(A, order, onb)'
  <2>1. /\ A \in [0..N -> SUBSET Provider] /\ A[0] = LiveGains
        /\ \A n \in 1..N :
             A[n] = A[n - 1] \cup ({u.new : u \in Reread(order[n], A[n - 1], onb)} \ {Null})
    BY <1>1 DEF Reads
  <2>2. \A n \in 1..N :
          A[n] = A[n - 1] \cup ({u.new : u \in Reread(order[n], A[n - 1], onb)'} \ {Null})
    BY <1>3, <2>1
  <2> QED
    BY <1>1, <1>5, <2>1, <2>2 DEF Reads
<1>7. SaysAll(A, order, onb)'
  <2>1. \A n \in 1..N : \A u \in Reread(order[n], A[n - 1], onb)' : Says(u)'
    BY <1>3, <1>4
  <2> QED
    BY <1>1, <2>1 DEF SaysAll
<1> QED
  BY <1>6, <1>7

(* A step that writes no row and keeps what is to be written. *)
LEMMA SameTableReads ==
    ASSUME TypeInv, PassInv, rows' = rows, known' = known, req'.todo = req.todo,
           settled \in {"reading", "yes"}
    PROVE  \E order \in PassOrders', onb \in OnboardingChoices' :
              \E A : Reads(A, order, onb)' /\ SaysAll(A, order, onb)'
<1>1. Rewritten /\ LiveRowsStay
  BY DEF Rewritten, LiveRowsStay
<1>2. PICK order \in PassOrders, onb \in OnboardingChoices :
        \E A : Reads(A, order, onb) /\ SaysAll(A, order, onb)
  BY DEF PassInv
<1>3. PICK A : Reads(A, order, onb) /\ SaysAll(A, order, onb)
  BY <1>2
<1>4. \A u : Says(u) => Says(u)'
  BY DEF Says, AlreadySo
<1>5. onb \in Holder
  BY ChoicesAreHolders DEF TypeInv
<1>6. Reads(A, order, onb)' /\ SaysAll(A, order, onb)'
  BY <1>1, <1>3, <1>4, <1>5, KeepsReading
<1>7. order \in PassOrders' /\ onb \in OnboardingChoices'
  BY <1>1, SamePass
<1> QED
  BY <1>6, <1>7

LEMMA ApplyBatchSays ==
    ASSUME TypeInv, TodoInv, ApplyBatch, NEW u \in Update, u.row \in HistoryRows, Says(u)
    PROVE  Says(u)'
<1>1. PICK n \in Nat : Batched(n)
  BY ApplyBatchStep
<1>2. PICK L, i : L = Len(req.todo) /\ i = u.row
  OBVIOUS
<1>3. /\ L \in Nat /\ n <= L /\ DOMAIN req.todo = 1..L /\ DOMAIN req'.todo = 1..(L - n)
      /\ \A k \in 1..(L - n) : req'.todo[k] = req.todo[k + n] /\ k + n \in 1..L
  <2>1. req.todo \in Seq(Update) /\ req'.todo \in Seq(Update)
    BY ApplyBatchStep DEF TypeInv, Request
  <2>2. /\ n <= L /\ Len(req'.todo) = L - n
        /\ \A k \in 1..(L - n) : req'.todo[k] = req.todo[k + n]
    BY <1>1, <1>2 DEF Batched
  <2>3. /\ L \in Nat /\ DOMAIN req.todo = 1..L
        /\ DOMAIN req'.todo = 1..Len(req'.todo)
    BY <1>2, <2>1
  <2>4. \A k \in 1..(L - n) : k + n \in 1..L
    BY <2>2, <2>3
  <2> QED
    BY <2>2, <2>3, <2>4
<1>4. i \in DOMAIN rows /\ rows[i] \in Row
  BY <1>2 DEF HistoryRows, TypeInv
<1>5. \/ /\ rows'[i] = rows[i]
         /\ \A k \in 1..n : req.todo[k].row # i
      \/ \E k \in 1..n :
           /\ req.todo[k].row = i
           /\ rows'[i] = [rows[i] EXCEPT !.type = req.todo[k].type,
                                         !.old = req.todo[k].old,
                                         !.new = req.todo[k].new]
  BY <1>1, <1>4 DEF Batched
<1>6. ASSUME NEW k \in 1..L, req.todo[k] = u PROVE Says(u)'
  <2>1. \A l \in 1..L : req.todo[l].row = i => l = k
    BY <1>2, <1>3, <1>6 DEF TodoInv
  <2>2. CASE k <= n
    <3>1. k \in 1..n
      BY <1>3, <2>2
    <3>2. \A l \in 1..n : l \in 1..L
      BY <1>3
    <3>3. rows'[i] = [rows[i] EXCEPT !.type = u.type, !.old = u.old, !.new = u.new]
      BY <1>2, <1>5, <1>6, <2>1, <3>1, <3>2
    <3>4. u.type = rows'[i].type /\ u.old = rows'[i].old /\ u.new = rows'[i].new
      BY <1>4, <3>3 DEF Row
    <3>5. \A l \in 1..(L - n) : req'.todo[l].row # i
      <4> SUFFICES ASSUME NEW l \in 1..(L - n), req'.todo[l].row = i PROVE FALSE
        OBVIOUS
      <4>1. l + n = k
        BY <1>3, <2>1
      <4> QED
        BY <1>3, <2>2, <4>1
    <3> QED
      BY <1>2, <1>3, <3>4, <3>5 DEF Says, AlreadySo
  <2>3. CASE ~(k <= n)
    <3>1. k - n \in 1..(L - n) /\ (k - n) + n = k
      BY <1>3, <2>3
    <3>2. req'.todo[k - n] = u
      BY <1>3, <1>6, <3>1
    <3> QED
      BY <1>3, <3>1, <3>2 DEF Says
  <2> QED
    BY <2>2, <2>3
<1>7. ASSUME AlreadySo(u), \A k \in 1..L : req.todo[k].row # i PROVE Says(u)'
  <2>1. \A l \in 1..n : l \in 1..L
    BY <1>3
  <2>2. rows'[i] = rows[i]
    BY <1>5, <1>7, <2>1
  <2>3. AlreadySo(u)'
    BY <1>2, <1>7, <2>2 DEF AlreadySo
  <2>4. \A l \in DOMAIN req'.todo : req'.todo[l].row # u.row
    BY <1>2, <1>3, <1>7
  <2> QED
    BY <2>3, <2>4 DEF Says
<1> QED
  BY <1>2, <1>3, <1>6, <1>7 DEF Says

LEMMA ApplyBatchReads ==
    ASSUME TypeInv, TodoInv, PassInv, ApplyBatch, settled \in {"reading", "yes"}
    PROVE  \E order \in PassOrders', onb \in OnboardingChoices' :
              \E A : Reads(A, order, onb)' /\ SaysAll(A, order, onb)'
<1>1. Rewritten /\ known' = known
  BY ApplyBatchStep
<1>2. LiveRowsStay
  <2> SUFFICES ASSUME NEW i \in DOMAIN rows, rows[i].source = "LIVE"
               PROVE  rows'[i] = rows[i]
    BY DEF LiveRowsStay
  <2>1. PICK n \in Nat : Batched(n)
    BY ApplyBatchStep
  <2>2. \A k \in 1..n : req.todo[k].row \in HistoryRows
    <3>1. req.todo \in Seq(Update) /\ n <= Len(req.todo)
      BY <2>1 DEF TypeInv, Request, Batched
    <3>2. \A k \in 1..n : k \in DOMAIN req.todo
      BY <3>1
    <3> QED
      BY <3>2 DEF TypeInv
  <2>3. \A k \in 1..n : req.todo[k].row # i
    BY <2>2 DEF HistoryRows
  <2> QED
    BY <2>1, <2>3 DEF Batched
<1>3. PICK order \in PassOrders, onb \in OnboardingChoices :
        \E A : Reads(A, order, onb) /\ SaysAll(A, order, onb)
  BY DEF PassInv
<1>4. PICK A : Reads(A, order, onb) /\ SaysAll(A, order, onb)
  BY <1>3
<1>5. \A u \in Update : u.row \in HistoryRows /\ Says(u) => Says(u)'
  BY ApplyBatchSays
<1>6. onb \in Holder
  BY ChoicesAreHolders DEF TypeInv
<1>7. Reads(A, order, onb)' /\ SaysAll(A, order, onb)'
  BY <1>1, <1>2, <1>4, <1>5, <1>6, KeepsReading
<1>8. order \in PassOrders' /\ onb \in OnboardingChoices'
  BY <1>1, <1>2, SamePass
<1> QED
  BY <1>7, <1>8

LEMMA StartPassWillSay ==
    ASSUME TypeInv, StartPass
    PROVE  \E order \in PassOrders', onb \in OnboardingChoices' :
              \E A : Reads(A, order, onb)' /\ SaysAll(A, order, onb)'
<1>1. PICK order \in PassOrders, onb \in OnboardingChoices :
         req' = [IdleRequest EXCEPT !.pc = "pass", !.todo = Updates(order, onb)]
  BY DEF StartPass
<1>2. onb \in Holder
  BY ChoicesAreHolders DEF TypeInv
<1>3. PICK todo : todo = Updates(order, onb)
  OBVIOUS
<1>4. req'.todo = todo
  BY <1>1, <1>3 DEF IdleRequest
<1>5. PICK A : /\ Reads(A, order, onb)
               /\ \A n \in 1..Len(order) : \A u \in Reread(order[n], A[n - 1], onb) :
                       \/ \E k \in DOMAIN todo : todo[k] = u
                       \/ AlreadySo(u) /\ \A k \in DOMAIN todo : todo[k].row # u.row
  BY <1>2, <1>3, StartPassReads
<1>6. rows' = rows /\ known' = known
  BY DEF StartPass, db
<1>7. Rewritten /\ LiveRowsStay
  BY <1>6 DEF Rewritten, LiveRowsStay
<1>8. LiveGains' = LiveGains /\ order \in PassOrders' /\ onb \in OnboardingChoices'
  BY <1>7, SamePass
<1>9. ASSUME NEW n \in 1..Len(order)
      PROVE  Reread(order[n], A[n - 1], onb)' = Reread(order[n], A[n - 1], onb)
  <2>1. PICK i, added : i = order[n] /\ added = A[n - 1]
    OBVIOUS
  <2>2. i \in DOMAIN rows
    <3>1. order \in Seq(HistoryRows)
      BY PassOrderType DEF TypeInv
    <3> QED
      BY <2>1, <3>1 DEF HistoryRows
  <2>3. Reread(i, added, onb)' = Reread(i, added, onb)
    BY <1>6, <1>7, <2>2, SameReading DEF Rewritten
  <2> QED
    BY <2>1, <2>3
<1>10. Reads(A, order, onb)'
  BY <1>5, <1>8, <1>9 DEF Reads
<1>11. SaysAll(A, order, onb)'
  <2>1. ASSUME NEW n \in 1..Len(order), NEW u \in Reread(order[n], A[n - 1], onb)
        PROVE  Says(u)'
    BY <1>4, <1>5, <1>6, <2>1 DEF Says, AlreadySo
  <2> QED
    BY <1>9, <2>1 DEF SaysAll
<1> QED
  BY <1>8, <1>10, <1>11

LEMMA PassNext == TypeInv /\ TodoInv /\ PassInv /\ [Next]_vars => PassInv'
<1> SUFFICES ASSUME TypeInv, TodoInv, PassInv, [Next]_vars PROVE PassInv'
  OBVIOUS
<1>a. ASSUME settled' = "no" PROVE PassInv'
  BY <1>a DEF PassInv
<1>b. ASSUME rows' = rows, known' = known, settled' = settled, req'.todo = req.todo,
             (req'.pc = "pass") = (req.pc = "pass")
      PROVE  PassInv'
  <2>1. settled \in {"reading", "yes"} =>
          \E order \in PassOrders', onb \in OnboardingChoices' :
             \E A : Reads(A, order, onb)' /\ SaysAll(A, order, onb)'
    BY <1>b, SameTableReads
  <2> QED
    BY <1>b, <2>1 DEF PassInv
<1>1. ASSUME NEW d, NEW replace, NEW day, BeginFile(d, replace, day) PROVE PassInv'
  <2>1. CASE rows' = rows /\ settled' = settled
    <3>1. /\ req.pc = "idle" /\ known' = known
          /\ req' = [IdleRequest EXCEPT !.pc = "read"]
      BY <1>1 DEF BeginFile
    <3>2. req'.pc = "read" /\ req'.todo = <<>>
      BY <3>1 DEF IdleRequest
    <3>3. req.todo = <<>>
      BY <3>1 DEF TodoInv
    <3> QED
      BY <1>b, <2>1, <3>1, <3>2, <3>3
  <2>2. (rows' = rows /\ settled' = settled) \/ settled' = "no"
    BY <1>1 DEF BeginFile
  <2> QED
    BY <1>a, <2>1, <2>2
<1>2. ASSUME NEW onb, ReadRows(onb) PROVE PassInv'
  <2>1. /\ rows' = rows /\ known' = known /\ settled' = settled /\ req'.todo = req.todo
        /\ req.pc = "read" /\ req'.pc = "items"
    BY <1>2 DEF ReadRows, db, TypeInv, Request
  <2> QED
    BY <1>b, <2>1
<1>3. ASSUME NEW t, NEW day, RecordItem(t, day) PROVE PassInv'
  BY <1>3, <1>a DEF RecordItem
<1>4. ASSUME NEW t, NEW day, SkipItem(t, day) PROVE PassInv'
  <2>1. /\ rows' = rows /\ known' = known /\ settled' = settled /\ req'.todo = req.todo
        /\ req.pc = "items" /\ req'.pc = "items"
    BY <1>4 DEF SkipItem, NextItem, db, TypeInv, Request
  <2> QED
    BY <1>b, <2>1
<1>5. CASE FinishFile
  <2>1. /\ rows' = rows /\ known' = known /\ settled' = settled
        /\ req.pc \in {"read", "items"} /\ req' = IdleRequest
    BY <1>5 DEF FinishFile
  <2>2. req'.pc = "idle" /\ req'.todo = <<>> /\ req.todo = <<>>
    BY <2>1 DEF IdleRequest, TodoInv
  <2> QED
    BY <1>b, <2>1, <2>2
<1>6. CASE StartPass
  <2>1. \E order \in PassOrders', onb \in OnboardingChoices' :
           \E A : Reads(A, order, onb)' /\ SaysAll(A, order, onb)'
    BY <1>6, StartPassWillSay
  <2>2. settled' = "reading"
    BY <1>6 DEF StartPass
  <2>3. req'.pc = "pass"
    <3>1. PICK todo : req' = [IdleRequest EXCEPT !.pc = "pass", !.todo = todo]
      BY <1>6 DEF StartPass
    <3> QED
      BY <3>1 DEF IdleRequest
  <2> QED
    BY <2>1, <2>2, <2>3 DEF PassInv
<1>7. CASE ApplyBatch
  <2>1. req.pc = "pass" /\ req'.pc = "pass" /\ settled' = settled
    BY <1>7, ApplyBatchStep DEF ApplyBatch
  <2>2. settled \in {"reading", "yes"} =>
          \E order \in PassOrders', onb \in OnboardingChoices' :
             \E A : Reads(A, order, onb)' /\ SaysAll(A, order, onb)'
    BY <1>7, ApplyBatchReads
  <2> QED
    BY <2>1, <2>2 DEF PassInv
<1>8. CASE FinishPass
  <2>1. /\ rows' = rows /\ known' = known /\ req' = IdleRequest /\ req.todo = <<>>
        /\ settled' = IF settled = "reading" THEN "yes" ELSE settled
        /\ req.pc = "pass"
    BY <1>8 DEF FinishPass, db
  <2>2. req'.pc = "idle" /\ req'.todo = req.todo
    BY <2>1 DEF IdleRequest
  <2>3. settled = "reading" =>
          \E order \in PassOrders', onb \in OnboardingChoices' :
             \E A : Reads(A, order, onb)' /\ SaysAll(A, order, onb)'
    BY <2>1, <2>2, SameTableReads
  <2>4. settled # "yes"
    BY <2>1 DEF PassInv
  <2> QED
    BY <2>1, <2>2, <2>3, <2>4 DEF PassInv
<1>9. CASE RequestDies
  BY <1>9, <1>a DEF RequestDies
<1>10. ASSUME NEW p, ToggleAlias(p) PROVE PassInv'
  BY <1>10, <1>a DEF ToggleAlias, Correct
<1>11. ASSUME NEW i, NEW type, NEW onboarding, Review(i, type, onboarding) PROVE PassInv'
  BY <1>11, <1>a DEF Review, Correct
<1>12. CASE ReprocessOnboarding
  BY <1>12, <1>a DEF ReprocessOnboarding, Correct
<1>13. CASE UNCHANGED vars
  BY <1>13, <1>b DEF vars, db
<1> QED
  BY <1>1, <1>2, <1>3, <1>4, <1>5, <1>6, <1>7, <1>8, <1>9, <1>10, <1>11, <1>12, <1>13
  DEF Next

LEMMA PassInvariant == Spec => [](CreditInv /\ PassInv)
<1>1. Init => PassInv
  BY DEF Init, PassInv
<1>2. CreditInv => TypeInv /\ TodoInv
  BY DEF CreditInv
<1> QED
  BY <1>1, <1>2, PassNext, CreditInvariant, PTL DEF Spec

(* Nothing is left to write: every reading is as its row says. *)
LEMMA SettledReads ==
    ASSUME TodoInv, PassInv, settled = "yes"
    PROVE  \E order \in PassOrders, onb \in OnboardingChoices :
              \E A : /\ Reads(A, order, onb)
                     /\ \A n \in 1..Len(order) :
                           \A u \in Reread(order[n], A[n - 1], onb) : AlreadySo(u)
<1>1. req.todo = <<>>
  BY DEF TodoInv, PassInv
<1>2. DOMAIN req.todo = {}
  BY <1>1
<1>3. \A u : Says(u) => AlreadySo(u)
  BY <1>2 DEF Says
<1> QED
  BY <1>3 DEF PassInv, SaysAll

(* A winner a pass knows is a live gain, or the winner of a row it has read. *)
LEMMA KnownWinners ==
    ASSUME rows \in Seq(Row), NEW order \in PassOrders, NEW onb, NEW A,
           Reads(A, order, onb)
    PROVE  \A n \in 0..Len(order) : \A p \in A[n] :
              \/ p \in LiveGains
              \/ \E m \in 1..Len(order) : \E u \in Reread(order[m], A[m - 1], onb) : u.new = p
<1>1. PICK N : N = Len(order)
  OBVIOUS
<1>2. N \in Nat
  BY <1>1, PassOrderType
<1> DEFINE Known(p) ==
             \/ p \in LiveGains
             \/ \E m \in 1..N : \E u \in Reread(order[m], A[m - 1], onb) : u.new = p
           S == {n \in 0..N : \A p \in A[n] : Known(p)}
<1>3. 0 \in S
  BY <1>1, <1>2 DEF Reads
<1>4. ASSUME NEW n \in 0..N, n \in S, n < N PROVE n + 1 \in S
  <2>1. n + 1 \in 1..N /\ (n + 1) - 1 = n /\ n + 1 \in 0..N
    BY <1>2, <1>4
  <2>2. A[n + 1] = A[n] \cup ({u.new : u \in Reread(order[n + 1], A[n], onb)} \ {Null})
    BY <1>1, <2>1 DEF Reads
  <2>3. \A u \in Reread(order[n + 1], A[n], onb) : Known(u.new)
    BY <2>1
  <2>4. \A p \in A[n] : Known(p)
    BY <1>4
  <2> HIDE DEF Known
  <2> QED
    BY <2>1, <2>2, <2>3, <2>4
<1>5. 0..N \subseteq S
  <2> HIDE DEF S
  <2> QED
    BY <1>2, <1>3, <1>4, InductionUpTo
<1> QED
  BY <1>1, <1>5

(* A reading that names a winner is a gain. *)
LEMMA WinnersGain ==
    ASSUME NEW i, NEW added, NEW onb, NEW u \in Reread(i, added, onb), u.new # Null
    PROVE  u.type \in {"ADDED", "REPLACED"} /\ u.row = i
<1>1. PICK s : s = Sides(rows[i].text, added, onb)
  OBVIOUS
<1>2. \/ u = [row |-> i, type |-> ChangeType(s.old, s.new), old |-> s.old, new |-> s.new]
      \/ u = [row |-> i, type |-> "UPDATE", old |-> Null, new |-> Null]
  BY <1>1 DEF Reread, RereadAs
<1> QED
  BY <1>2 DEF ChangeType

(* After a pass that read what is there, the win of every stored swap is a     *)
(* counted gain of the log, or belongs to a row an admin has reviewed.         *)
THEOREM PassesCreditWins == Spec => []PassCreditsEveryWin
<1>1. ASSUME CreditInv, PassInv PROVE PassCreditsEveryWin
  <2> SUFFICES ASSUME settled = "yes", NEW i \in HistoryRows,
                      Resolve(rows[i].text.old) # Null, Resolve(rows[i].text.new) # Null
               PROVE  Credited(rows[i].text.new)
    BY DEF PassCreditsEveryWin, Credited
  <2>1. TypeInv /\ TodoInv /\ OnboardingInv
    BY <1>1 DEF CreditInv
  <2>2. PICK order \in PassOrders, onb \in OnboardingChoices :
          \E A : /\ Reads(A, order, onb)
                 /\ \A n \in 1..Len(order) :
                       \A u \in Reread(order[n], A[n - 1], onb) : AlreadySo(u)
    BY <1>1, <2>1, SettledReads
  <2>3. PICK A : /\ Reads(A, order, onb)
                 /\ \A n \in 1..Len(order) :
                       \A u \in Reread(order[n], A[n - 1], onb) : AlreadySo(u)
    BY <2>2
  <2>4. PICK t, p, N : t = rows[i].text /\ p = t.new /\ N = Len(order)
    OBVIOUS
  <2>5. /\ N \in Nat /\ \A m \in 1..N : order[m] \in HistoryRows
        /\ \E n \in 1..N : order[n] = i
    BY <2>1, <2>4, PassOrderType DEF TypeInv
  <2>6. p \in Provider /\ p # Null
    BY <2>1, <2>4, SwapSides, ConstantsAssumption DEF TypeInv
  <2>7. ASSUME NEW m \in 1..N, NEW u \in Reread(order[m], A[m - 1], onb), u.new = p
        PROVE  Credited(p)
    <3>1. u.type \in {"ADDED", "REPLACED"} /\ u.row = order[m]
      BY <2>6, <2>7, WinnersGain
    <3>2. AlreadySo(u)
      BY <2>3, <2>4, <2>7
    <3>3. PICK j : j = order[m]
      OBVIOUS
    <3>4. j \in DOMAIN rows /\ rows[j].source = "HISTORY"
      BY <2>5, <3>3 DEF HistoryRows
    <3>5. rows[j].new = p /\ rows[j].type \in {"ADDED", "REPLACED"}
      BY <2>7, <3>1, <3>2, <3>3 DEF AlreadySo
    <3> QED
      BY <2>1, <3>4, <3>5 DEF OnboardingInv, Credited, Gains
  <2>8. PICK n \in 1..N : order[n] = i
    BY <2>5
  <2>9. n - 1 \in 0..N
    BY <2>5
  <2>10. CASE p \in A[n - 1]
    <3>1. \/ p \in LiveGains
          \/ \E m \in 1..N : \E u \in Reread(order[m], A[m - 1], onb) : u.new = p
      <4>1. rows \in Seq(Row)
        BY <2>1 DEF TypeInv
      <4>2. \A k \in 0..Len(order) : \A q \in A[k] :
              \/ q \in LiveGains
              \/ \E m \in 1..Len(order) :
                    \E u \in Reread(order[m], A[m - 1], onb) : u.new = q
        BY <2>3, <4>1, KnownWinners
      <4>3. n - 1 \in 0..Len(order)
        BY <2>4, <2>9
      <4> QED
        BY <2>4, <2>10, <4>2, <4>3
    <3>2. p \in LiveGains => Credited(p)
      BY DEF LiveGains, Credited
    <3> QED
      BY <2>4, <2>7, <3>1, <3>2
  <2>11. CASE p \notin A[n - 1]
    <3>1. PICK s : s = Sides(t, A[n - 1], onb)
      OBVIOUS
    <3>2. IsCarrier(t) /\ s.old # Null /\ s.new = p
      BY <2>1, <2>4, <2>11, <3>1, SwapSides DEF TypeInv
    <3>3. PICK u : u = [row |-> i, type |-> ChangeType(s.old, s.new), old |-> s.old,
                        new |-> s.new]
      OBVIOUS
    <3>4. u \in Reread(order[n], A[n - 1], onb) /\ u.new = p
      BY <2>4, <2>8, <3>1, <3>2, <3>3 DEF Reread, RereadAs
    <3> QED
      BY <2>4, <2>7, <3>4
  <2> QED
    BY <2>10, <2>11
<1> QED
  BY <1>1, PassInvariant, PTL

(* A pass that finds every row as it reads it writes nothing. *)
LEMMA SilentPass ==
    ASSUME TypeInv, NEW order \in PassOrders, NEW onb \in Holder, NEW A,
           Reads(A, order, onb),
           \A n \in 1..Len(order) : \A u \in Reread(order[n], A[n - 1], onb) : AlreadySo(u)
    PROVE  Updates(order, onb) = <<>>
<1>1. LiveGains \in SUBSET Provider
  BY DEF LiveGains
<1>2. PICK r, N : r = Reading(LiveGains, order, onb) /\ N = Len(order)
  OBVIOUS
<1>3. /\ order \in Seq(HistoryRows) /\ N \in Nat
      /\ \A m \in 1..N : order[m] \in HistoryRows
  BY <1>2, PassOrderType DEF TypeInv
<1>4. /\ r \in [0..N -> Knowledge]
      /\ r[0] = [added |-> LiveGains, todo |-> <<>>]
      /\ \A n \in 1..N : r[n] = PassStep(r[n - 1], order[n], onb)
  <2>1. /\ Reading(LiveGains, order, onb) \in [0..Len(order) -> Knowledge]
        /\ Reading(LiveGains, order, onb)[0] = [added |-> LiveGains, todo |-> <<>>]
        /\ \A n \in 1..Len(order) :
             Reading(LiveGains, order, onb)[n] =
                 PassStep(Reading(LiveGains, order, onb)[n - 1], order[n], onb)
    BY <1>1, <1>3, ReadingRecursion
  <2> QED
    BY <1>2, <2>1
<1>5. /\ A[0] = LiveGains
      /\ \A n \in 1..N :
           A[n] = A[n - 1] \cup ({u.new : u \in Reread(order[n], A[n - 1], onb)} \ {Null})
  BY <1>2 DEF Reads
<1> DEFINE S == {n \in 0..N : r[n].added = A[n] /\ r[n].todo = <<>>}
<1>6. 0 \in S
  BY <1>3, <1>4, <1>5
<1>7. ASSUME NEW n \in 0..N, n \in S, n < N PROVE n + 1 \in S
  <2>1. n + 1 \in 1..N /\ (n + 1) - 1 = n /\ n + 1 \in 0..N
    BY <1>3, <1>7
  <2>2. PICK i, read : i = order[n + 1] /\ read = Reread(i, A[n], onb)
    OBVIOUS
  <2>3. /\ i \in HistoryRows /\ r[n] \in Knowledge /\ r[n + 1] = PassStep(r[n], i, onb)
        /\ A[n + 1] = A[n] \cup ({u.new : u \in read} \ {Null})
    BY <1>3, <1>4, <1>5, <1>7, <2>1, <2>2
  <2>4. r[n].added = A[n] /\ r[n].todo = <<>> /\ read = Reread(i, r[n].added, onb)
    BY <1>7, <2>2
  <2>5. CASE read = {}
    <3>1. r[n + 1] = r[n]
      <4>1. PICK acc : acc = r[n]
        OBVIOUS
      <4>2. acc \in Knowledge /\ Reread(i, acc.added, onb) = {}
        BY <2>3, <2>4, <2>5, <4>1
      <4>3. PassStep(acc, i, onb) = acc
        BY <2>3, <4>2, PassStepOf
      <4> QED
        BY <2>3, <4>1, <4>3
    <3>2. A[n + 1] = A[n]
      BY <2>3, <2>5
    <3> QED
      BY <2>1, <2>4, <3>1, <3>2
  <2>6. ASSUME NEW u \in read PROVE n + 1 \in S
    <3>1. AlreadySo(u)
      BY <1>2, <2>1, <2>2, <2>6
    <3>2. read = {u}
      BY <2>2, <2>6, RereadIsOne
    <3>3. /\ r[n + 1].added = r[n].added \cup ({u.new} \ {Null})
          /\ r[n + 1].todo = r[n].todo
      BY <2>3, <2>4, <2>6, <3>1, PassStepOf
    <3>4. A[n + 1] = A[n] \cup ({u.new} \ {Null})
      BY <2>3, <3>2
    <3> QED
      BY <2>1, <2>4, <3>3, <3>4
  <2> QED
    BY <2>5, <2>6
<1>8. 0..N \subseteq S
  <2> HIDE DEF S
  <2> QED
    BY <1>3, <1>6, <1>7, InductionUpTo
<1>9. r[N].todo = <<>>
  BY <1>3, <1>8
<1> QED
  BY <1>2, <1>9 DEF Updates, UpdatesFrom

(* Dates that differ leave one order. *)
LEMMA OneOrder ==
    ASSUME TypeInv, Dated, NEW order \in PassOrders, NEW other \in PassOrders
    PROVE  order = other
<1>1. PICK N : N = Len(order)
  OBVIOUS
<1>2. /\ N \in Nat /\ order \in Seq(HistoryRows) /\ other \in Seq(HistoryRows)
      /\ Len(other) = N /\ DOMAIN order = 1..N /\ DOMAIN other = 1..N
      /\ \A m, n \in 1..N : m # n => order[m] # order[n]
      /\ \A m, n \in 1..N : m # n => other[m] # other[n]
      /\ \A i \in HistoryRows : \E m \in 1..N : order[m] = i
      /\ \A i \in HistoryRows : \E m \in 1..N : other[m] = i
      /\ \A n \in 1..N : order[n] \in HistoryRows /\ other[n] \in HistoryRows
  <2>1. rows \in Seq(Row)
    BY DEF TypeInv
  <2>2. /\ order \in Seq(HistoryRows)
        /\ DOMAIN order = 1..Len(order) /\ Len(order) \in Nat
        /\ Len(order) = Cardinality(HistoryRows)
        /\ \A m, n \in DOMAIN order : m # n => order[m] # order[n]
        /\ \A i \in HistoryRows : \E m \in DOMAIN order : order[m] = i
    BY <2>1, PassOrderType
  <2>3. /\ other \in Seq(HistoryRows)
        /\ DOMAIN other = 1..Len(other)
        /\ Len(other) = Cardinality(HistoryRows)
        /\ \A m, n \in DOMAIN other : m # n => other[m] # other[n]
        /\ \A i \in HistoryRows : \E m \in DOMAIN other : other[m] = i
    BY <2>1, PassOrderType
  <2>4. Len(other) = N /\ DOMAIN order = 1..N /\ DOMAIN other = 1..N
    BY <1>1, <2>2, <2>3
  <2>5. \A n \in 1..N : order[n] \in HistoryRows /\ other[n] \in HistoryRows
    BY <2>2, <2>3, <2>4
  <2> QED
    BY <1>1, <2>2, <2>3, <2>4, <2>5
<1>3. /\ \A m, n \in 1..N : m < n => rows[order[m]].day <= rows[order[n]].day
      /\ \A m, n \in 1..N : m < n => rows[other[m]].day <= rows[other[n]].day
  BY <1>2 DEF PassOrders
<1>4. \A i \in HistoryRows : rows[i].day \in Nat
  <2>1. \A i \in DOMAIN rows : rows[i] \in Row
    BY DEF TypeInv
  <2> QED
    BY <2>1, ConstantsAssumption DEF HistoryRows, Row
<1>5. PICK D : D = {n \in 1..N : order[n] # other[n]}
  OBVIOUS
<1>6. ASSUME NEW e \in D PROVE FALSE
  <2>1. D \in SUBSET Nat
    BY <1>2, <1>5
  <2>2. PICK k \in D : \A n \in D : k <= n
    BY <1>6, <2>1, LeastNatural
  <2>3. k \in 1..N /\ order[k] # other[k] /\ \A n \in 1..N : n < k => order[n] = other[n]
    <3>1. \A n \in 1..N : n < k => n \notin D
      BY <1>2, <1>5, <2>2
    <3> QED
      BY <1>5, <2>2, <3>1
  <2>4. PICK m \in 1..N : order[m] = other[k]
    BY <1>2, <2>3
  <2>5. PICK n \in 1..N : other[n] = order[k]
    BY <1>2, <2>3
  <2>6. m > k /\ n > k
    <3>1. m # k /\ n # k
      BY <2>3, <2>4, <2>5
    <3>2. ~(m < k)
      <4>1. m < k => other[m] = other[k]
        BY <2>3, <2>4
      <4> QED
        BY <1>2, <2>3, <3>1, <4>1
    <3>3. ~(n < k)
      <4>1. n < k => order[n] = order[k]
        BY <2>3, <2>5
      <4> QED
        BY <1>2, <2>3, <3>1, <4>1
    <3> QED
      BY <1>2, <2>3, <3>1, <3>2, <3>3
  <2>7. rows[order[k]].day <= rows[other[k]].day /\ rows[other[k]].day <= rows[order[k]].day
    BY <1>2, <1>3, <2>3, <2>4, <2>5, <2>6
  <2>8. rows[order[k]].day = rows[other[k]].day
    <3>1. PICK a, b : a = rows[order[k]].day /\ b = rows[other[k]].day
      OBVIOUS
    <3>2. a \in Nat /\ b \in Nat
      BY <1>2, <1>4, <2>3, <3>1
    <3>3. a <= b /\ b <= a
      BY <2>7, <3>1
    <3> QED
      BY <3>1, <3>2, <3>3
  <2> QED
    BY <1>2, <2>3, <2>8 DEF Dated
<1>7. \A n \in 1..N : order[n] = other[n]
  BY <1>5, <1>6
<1> QED
  BY <1>2, <1>7

LEMMA OneChoice ==
    ASSUME rows \in Seq(Row), Cardinality(OnboardingChoices) = 1,
           NEW onb \in OnboardingChoices, NEW other \in OnboardingChoices
    PROVE  onb = other
<1>1. PICK found, at :
         /\ at = {j \in DOMAIN rows : OnboardingRow(rows[j])}
         /\ found = {rows[i].new : i \in at}
  OBVIOUS
<1>2. IsFiniteSet(at)
  <2>1. DOMAIN rows = 1..Len(rows) /\ Len(rows) \in Nat
    OBVIOUS
  <2>2. IsFiniteSet(1..Len(rows))
    BY <2>1, FS_Interval
  <2> QED
    BY <1>1, <2>1, <2>2, FS_Subset
<1>3. IsFiniteSet(found)
  <2>1. PICK f : f = [i \in at |-> rows[i].new]
    OBVIOUS
  <2>2. f \in Surjection(at, found)
    BY <1>1, <2>1 DEF Surjection
  <2> QED
    BY <1>2, <2>2, FS_Surjection
<1>4. OnboardingChoices = IF found = {} THEN {Null} ELSE found
  BY <1>1 DEF OnboardingChoices
<1>5. IsFiniteSet(OnboardingChoices)
  BY <1>3, <1>4, FS_Singleton
<1>6. \E x : OnboardingChoices = {x}
  BY <1>5, FS_Singleton
<1> QED
  BY <1>6

(* A second pass over what one has read, and written, writes nothing: dates    *)
(* that differ and one onboarding row leave it nothing to choose.              *)
THEOREM SecondPassesAreSilent == Spec => []SecondPassIsSilent
<1>1. ASSUME CreditInv, PassInv PROVE SecondPassIsSilent
  <2> SUFFICES ASSUME settled = "yes", Dated, Cardinality(OnboardingChoices) = 1,
                      NEW order \in PassOrders, NEW onb \in OnboardingChoices
               PROVE  Updates(order, onb) = <<>>
    BY DEF SecondPassIsSilent
  <2>1. TypeInv /\ TodoInv /\ rows \in Seq(Row)
    BY <1>1 DEF CreditInv, TypeInv
  <2>2. PICK first \in PassOrders, chosen \in OnboardingChoices :
          \E A : /\ Reads(A, first, chosen)
                 /\ \A n \in 1..Len(first) :
                       \A u \in Reread(first[n], A[n - 1], chosen) : AlreadySo(u)
    BY <1>1, <2>1, SettledReads
  <2>3. first = order /\ chosen = onb
    BY <2>1, OneOrder, OneChoice
  <2>4. PICK A : /\ Reads(A, order, onb)
                 /\ \A n \in 1..Len(order) :
                       \A u \in Reread(order[n], A[n - 1], onb) : AlreadySo(u)
    BY <2>2, <2>3
  <2>5. onb \in Holder
    BY <2>1, ChoicesAreHolders
  <2> QED
    BY <2>1, <2>4, <2>5, SilentPass
<1> QED
  BY <1>1, PassInvariant, PTL

-----------------------------------------------------------------------------
(* What uploads alone leave.                                                   *)

GainsBefore(j) == {p \in Provider : \E i \in DOMAIN rows : i < j /\ Gains(rows[i], p)}

OnboardsBefore(j) == {i \in DOMAIN rows : i < j /\ OnboardingRow(rows[i])}

ChoicesBefore(j) ==
    IF OnboardsBefore(j) = {} THEN {Null} ELSE {rows[i].new : i \in OnboardsBefore(j)}

(* The row is as a pass would read it that knew the rows before it. *)
AsRead(j) ==
    /\ ~rows[j].onboarding
    /\ \E onb \in ChoicesBefore(j) : \E u \in Reread(j, GainsBefore(j), onb) : AlreadySo(u)

FreshInv == ~disturbed => \A j \in HistoryRows : AsRead(j)

LEMMA StaysAsRead ==
    ASSUME NEW j \in Nat, AsRead(j), known' = known, rows'[j] = rows[j],
           \A i \in Nat : i < j => /\ i \in DOMAIN rows' <=> i \in DOMAIN rows
                                   /\ i \in DOMAIN rows => rows'[i] = rows[i],
           DOMAIN rows \subseteq Nat, DOMAIN rows' \subseteq Nat
    PROVE  AsRead(j)'
<1>1. GainsBefore(j)' = GainsBefore(j)
  <2>1. \A i \in DOMAIN rows : \A p : i < j => Gains(rows[i], p)' = Gains(rows[i], p)
    BY DEF Gains
  <2> QED
    BY <2>1 DEF GainsBefore
<1>2. OnboardsBefore(j)' = OnboardsBefore(j)
  <2>1. \A i \in DOMAIN rows : i < j => OnboardingRow(rows[i])' = OnboardingRow(rows[i])
    BY DEF OnboardingRow
  <2> QED
    BY <2>1 DEF OnboardsBefore
<1>3. ChoicesBefore(j)' = ChoicesBefore(j)
  <2>1. \A i \in OnboardsBefore(j) : rows'[i] = rows[i]
    BY DEF OnboardsBefore
  <2> QED
    BY <1>2, <2>1 DEF ChoicesBefore
<1>a. PICK onb \in ChoicesBefore(j) : \E u \in Reread(j, GainsBefore(j), onb) : AlreadySo(u)
  BY DEF AsRead
<1>4. PICK u \in Reread(j, GainsBefore(j), onb) : AlreadySo(u)
  BY <1>a
<1>5. PICK gains : gains = GainsBefore(j)
  OBVIOUS
<1>6. Reread(j, gains, onb)' = Reread(j, gains, onb)
  BY SameReading
<1>7. u \in Reread(j, GainsBefore(j), onb)'
  BY <1>1, <1>4, <1>5, <1>6
<1>8. u.row = j
  BY <1>4 DEF Reread, RereadAs
<1>9. AlreadySo(u)'
  BY <1>4, <1>8 DEF AlreadySo
<1> QED
  BY <1>3, <1>4, <1>7, <1>9 DEF AsRead

(* The row an entry calls for is what a pass makes of the entry's text. *)
LEMMA RowOfIsRead ==
    ASSUME NEW t, NEW day, NEW row \in RowOf(t, day), NEW i,
           rows'[i] = row, known' = known, NEW added, NEW onb,
           added = req.added, onb = req.onb
    PROVE  \E u \in Reread(i, added, onb)' : AlreadySo(u)'
<1>1. PICK s : s = Sides(t, added, onb)
  OBVIOUS
<1>2. \/ /\ IsCarrier(t) /\ ~(s.old = Null /\ s.new = Null)
         /\ row = HistoryRow(t, day, ChangeType(s.old, s.new), s.old, s.new)
      \/ /\ ~IsCarrier(t) /\ t.update
         /\ row = HistoryRow(t, day, "UPDATE", Null, Null)
  BY <1>1 DEF RowOf
<1>3. row.text = t
  BY <1>2 DEF HistoryRow
<1>4. Sides(rows[i].text, added, onb)' = s
  BY <1>1, <1>3 DEF Sides, Resolve
<1>5. Reread(i, added, onb)' = RereadAs(i, s)'
  BY <1>4 DEF Reread
<1>6. CASE IsCarrier(t) /\ ~(s.old = Null /\ s.new = Null)
  <2>1. PICK u : u = [row |-> i, type |-> ChangeType(s.old, s.new), old |-> s.old,
                      new |-> s.new]
    OBVIOUS
  <2>2. u \in RereadAs(i, s)'
    BY <1>3, <1>6, <2>1 DEF RereadAs
  <2>3. row = HistoryRow(t, day, ChangeType(s.old, s.new), s.old, s.new)
    BY <1>2, <1>6
  <2>4. AlreadySo(u)'
    BY <2>1, <2>3 DEF AlreadySo, HistoryRow
  <2> QED
    BY <1>5, <2>2, <2>4
<1>7. CASE ~IsCarrier(t) /\ t.update
  <2>1. PICK u : u = [row |-> i, type |-> "UPDATE", old |-> Null, new |-> Null]
    OBVIOUS
  <2>2. u \in RereadAs(i, s)'
    BY <1>3, <1>7, <2>1 DEF RereadAs
  <2>3. row = HistoryRow(t, day, "UPDATE", Null, Null)
    BY <1>2, <1>7
  <2>4. AlreadySo(u)'
    BY <2>1, <2>3 DEF AlreadySo, HistoryRow
  <2> QED
    BY <1>5, <2>2, <2>4
<1> QED
  BY <1>2, <1>6, <1>7

LEMMA AppendStaysAsRead ==
    ASSUME TypeInv, FreshInv, ~disturbed, known' = known,
           NEW row, rows' = Append(rows, row)
    PROVE  /\ \A j \in HistoryRows : AsRead(j)'
           /\ HistoryRows' \subseteq HistoryRows \cup {Len(rows) + 1}
<1>1. rows \in Seq(Row)
  BY DEF TypeInv
<1>2. RowsAreASequence
  BY <1>1 DEF RowsAreASequence
<1>3. /\ DOMAIN rows' = DOMAIN rows \cup {Len(rows) + 1}
      /\ \A i \in DOMAIN rows : rows'[i] = rows[i]
      /\ rows'[Len(rows) + 1] = row
  BY <1>2, AppendRow
<1>4. DOMAIN rows = 1..Len(rows) /\ Len(rows) \in Nat
  BY <1>1
<1>5. ASSUME NEW j \in HistoryRows PROVE AsRead(j)'
  <2>1. j \in DOMAIN rows /\ AsRead(j)
    BY <1>5 DEF HistoryRows, FreshInv
  <2>2. \A i \in Nat : i < j => /\ i \in DOMAIN rows' <=> i \in DOMAIN rows
                                /\ i \in DOMAIN rows => rows'[i] = rows[i]
    BY <1>3, <1>4, <2>1
  <2>3. DOMAIN rows \subseteq Nat /\ DOMAIN rows' \subseteq Nat /\ j \in Nat
    BY <1>3, <1>4, <2>1
  <2> QED
    BY <1>3, <2>1, <2>2, <2>3, StaysAsRead
<1>6. HistoryRows' \subseteq HistoryRows \cup {Len(rows) + 1}
  BY <1>3 DEF HistoryRows
<1> QED
  BY <1>5, <1>6

(* What the loop knows when it stores a row is what the rows before it say. *)
LEMMA RecordedAsRead ==
    ASSUME CreditInv, BackfillInv, NEW t \in Text, NEW day \in Day, RecordItem(t, day),
           NEW row \in RowOf(t, day), rows' = Append(rows, row),
           NEW j, j = Len(rows) + 1
    PROVE  AsRead(j)'
<1>2. TypeInv /\ rows \in Seq(Row) /\ known' = known /\ req.pc = "items"
  BY DEF CreditInv, TypeInv, RecordItem, NextItem
<1>3. /\ DOMAIN rows' = DOMAIN rows \cup {j}
      /\ \A i \in DOMAIN rows : rows'[i] = rows[i]
      /\ rows'[j] = row
  BY AppendRow DEF BackfillInv
<1>4. DOMAIN rows = 1..Len(rows) /\ Len(rows) \in Nat
  BY <1>2
<1>5. \A i \in DOMAIN rows' : i < j <=> i \in DOMAIN rows
  BY <1>3, <1>4
<1>6. PICK added, onb : added = req.added /\ onb = req.onb
  OBVIOUS
<1>7. GainsBefore(j)' = added
  <2>1. GainsBefore(j)' = GainsOnRecord
    <3>1. \A i \in DOMAIN rows : \A p : Gains(rows[i], p)' = Gains(rows[i], p)
      BY <1>3 DEF Gains
    <3> QED
      BY <1>3, <1>5, <3>1 DEF GainsBefore, GainsOnRecord
  <2>2. added \subseteq GainsOnRecord
    BY <1>2, <1>6 DEF CreditInv, LoopInv, GainsOnRecord, TypeInv, Request
  <2>3. GainsOnRecord \subseteq added
    BY <1>2, <1>6 DEF BackfillInv, AddedCoversGains, GainsOnRecord
  <2> QED
    BY <2>1, <2>2, <2>3
<1>8. onb \in ChoicesBefore(j)'
  <2>1. PICK at : at = {i \in DOMAIN rows : OnboardingRow(rows[i])}
    OBVIOUS
  <2>2. OnboardsBefore(j)' = at
    <3>1. \A i \in DOMAIN rows : OnboardingRow(rows[i])' = OnboardingRow(rows[i])
      BY <1>3 DEF OnboardingRow
    <3> QED
      BY <1>3, <1>5, <2>1, <3>1 DEF OnboardsBefore
  <2>3. onb \in OnboardingChoices
    BY <1>2, <1>6 DEF CreditInv, LoopInv
  <2>4. PICK found : found = {rows[i].new : i \in at}
    OBVIOUS
  <2>5. OnboardingChoices = IF found = {} THEN {Null} ELSE found
    BY <2>1, <2>4 DEF OnboardingChoices
  <2>6. found = {} <=> at = {}
    BY <2>4
  <2>7. {rows'[i].new : i \in at} = found
    <3>1. \A i \in at : rows'[i].new = rows[i].new
      BY <1>3, <2>1
    <3> QED
      BY <2>4, <3>1
  <2> QED
    BY <2>2, <2>3, <2>5, <2>6, <2>7 DEF ChoicesBefore
<1>9. ~rows'[j].onboarding
  BY <1>2, <1>3, RowOfType
<1>10. \E u \in Reread(j, added, onb)' : AlreadySo(u)'
  BY <1>2, <1>3, <1>6, RowOfIsRead
<1>11. PICK u \in Reread(j, added, onb)' : AlreadySo(u)'
  BY <1>10
<1> QED
  BY <1>7, <1>8, <1>9, <1>11 DEF AsRead

LEMMA FreshNext == CreditInv /\ BackfillInv /\ FreshInv /\ [Next]_vars => FreshInv'
<1> SUFFICES ASSUME CreditInv, BackfillInv, FreshInv, [Next]_vars PROVE FreshInv'
  OBVIOUS
<1>t. TypeInv
  BY DEF CreditInv
<1>a. ASSUME disturbed' = TRUE PROVE FreshInv'
  BY <1>a DEF FreshInv
<1>b. ASSUME rows' = rows, known' = known, disturbed' = disturbed PROVE FreshInv'
  <2> SUFFICES ASSUME ~disturbed, NEW j \in HistoryRows' PROVE AsRead(j)'
    BY <1>b DEF FreshInv
  <2>1. j \in HistoryRows /\ DOMAIN rows \subseteq Nat /\ j \in Nat
    BY <1>b, <1>t DEF HistoryRows, TypeInv
  <2>2. AsRead(j)
    BY <2>1 DEF FreshInv
  <2> QED
    BY <1>b, <2>1, <2>2, StaysAsRead
<1>1. ASSUME NEW d, NEW replace, NEW day, BeginFile(d, replace, day) PROVE FreshInv'
  <2>1. known' = known /\ disturbed' = disturbed
    BY <1>1 DEF BeginFile
  <2>2. CASE rows' = rows
    BY <1>b, <2>1, <2>2
  <2>3. CASE rows' # rows
    <3> SUFFICES ASSUME ~disturbed, NEW j \in HistoryRows' PROVE AsRead(j)'
      BY <2>1 DEF FreshInv
    <3>1. PICK row : rows' = Append(rows, row) /\ row.source = "LIVE"
      BY <1>1, <2>3 DEF BeginFile
    <3>2. /\ \A i \in HistoryRows : AsRead(i)'
          /\ HistoryRows' \subseteq HistoryRows \cup {Len(rows) + 1}
      BY <1>t, <2>1, <3>1, AppendStaysAsRead
    <3>3. rows'[Len(rows) + 1] = row
      BY <3>1, AppendRow DEF BackfillInv
    <3>4. Len(rows) + 1 \notin HistoryRows'
      BY <3>1, <3>3 DEF HistoryRows
    <3> QED
      BY <3>2, <3>4
  <2> QED
    BY <2>2, <2>3
<1>2. ASSUME NEW onb, ReadRows(onb) PROVE FreshInv'
  BY <1>2, <1>b DEF ReadRows, db
<1>3. ASSUME NEW t \in Text, NEW day \in Day, RecordItem(t, day) PROVE FreshInv'
  <2>1. known' = known /\ disturbed' = disturbed
    BY <1>3 DEF RecordItem
  <2> SUFFICES ASSUME ~disturbed, NEW j \in HistoryRows' PROVE AsRead(j)'
    BY <2>1 DEF FreshInv
  <2>2. PICK row \in RowOf(t, day) : rows' = Append(rows, row)
    BY <1>3 DEF RecordItem
  <2>3. /\ \A i \in HistoryRows : AsRead(i)'
        /\ HistoryRows' \subseteq HistoryRows \cup {Len(rows) + 1}
    BY <1>t, <2>1, <2>2, AppendStaysAsRead
  <2>4. ASSUME NEW k, k = Len(rows) + 1 PROVE AsRead(k)'
    BY <1>3, <2>2, <2>4, RecordedAsRead
  <2> QED
    BY <2>3, <2>4
<1>4. ASSUME NEW t, NEW day, SkipItem(t, day) PROVE FreshInv'
  BY <1>4, <1>b DEF SkipItem, db
<1>5. CASE FinishFile \/ StartPass \/ FinishPass \/ RequestDies
  BY <1>5, <1>b DEF FinishFile, StartPass, FinishPass, RequestDies, db
<1>6. CASE ApplyBatch
  BY <1>6, <1>a DEF ApplyBatch
<1>7. ASSUME NEW p, ToggleAlias(p) PROVE FreshInv'
  BY <1>7, <1>a DEF ToggleAlias, Correct
<1>8. ASSUME NEW i, NEW type, NEW onboarding, Review(i, type, onboarding) PROVE FreshInv'
  BY <1>8, <1>a DEF Review, Correct
<1>9. CASE ReprocessOnboarding
  BY <1>9, <1>a DEF ReprocessOnboarding, Correct
<1>10. CASE UNCHANGED vars
  BY <1>10, <1>b DEF vars, db
<1> QED
  BY <1>1, <1>2, <1>3, <1>4, <1>5, <1>6, <1>7, <1>8, <1>9, <1>10 DEF Next

LEMMA FreshInvariant == Spec => [](CreditInv /\ BackfillInv /\ FreshInv)
<1>1. Init => FreshInv
  <2> SUFFICES ASSUME Init PROVE FreshInv
    OBVIOUS
  <2>1. DOMAIN rows = {}
    BY DEF Init
  <2> QED
    BY <2>1 DEF FreshInv, HistoryRows
<1> QED
  BY <1>1, FreshNext, CreditInvariant, BackfillInvariant, PTL DEF Spec

HistoryFollows ==
    \A i, j \in DOMAIN rows :
        rows[j].source = "HISTORY" /\ i < j
          => rows[i].source = "LIVE" \/ rows[i].day < rows[j].day

LiveFirst == \A i \in DOMAIN rows, j \in HistoryRows : rows[i].source = "LIVE" => i < j

(* In the order of the dates, the rows a pass has read before a history row    *)
(* are the history rows stored before it.                                      *)
LEMMA OrderOfStorage ==
    ASSUME TypeInv, Dated, HistoryFollows, NEW order \in PassOrders,
           NEW m \in 1..Len(order), NEW n \in 1..Len(order)
    PROVE  m < n <=> order[m] < order[n]
<1>1. PICK i, j : i = order[m] /\ j = order[n]
  OBVIOUS
<1>2. /\ order \in Seq(HistoryRows) /\ DOMAIN order = 1..Len(order) /\ Len(order) \in Nat
      /\ \A k, l \in DOMAIN order : k # l => order[k] # order[l]
  BY PassOrderType DEF TypeInv
<1>3. /\ i \in HistoryRows /\ j \in HistoryRows
      /\ m < n => rows[i].day <= rows[j].day
      /\ n < m => rows[j].day <= rows[i].day
      /\ m = n <=> i = j
  BY <1>1, <1>2 DEF PassOrders
<1>4. /\ i \in DOMAIN rows /\ j \in DOMAIN rows
      /\ rows[i].source = "HISTORY" /\ rows[j].source = "HISTORY"
      /\ rows[i].source # "LIVE" /\ rows[j].source # "LIVE"
  BY <1>3 DEF HistoryRows
<1>5. rows[i].day \in Nat /\ rows[j].day \in Nat /\ i \in Nat /\ j \in Nat
  <2>1. rows[i] \in Row /\ rows[j] \in Row
    BY <1>4 DEF TypeInv
  <2>2. rows \in Seq(Row)
    BY DEF TypeInv
  <2>3. rows[i].day \in Day /\ rows[j].day \in Day
    BY <2>1 DEF Row
  <2>4. i \in Nat /\ j \in Nat
    BY <1>4, <2>2
  <2> QED
    BY <2>3, <2>4, ConstantsAssumption
<1>6. /\ i < j => rows[i].day < rows[j].day
      /\ j < i => rows[j].day < rows[i].day
  BY <1>4 DEF HistoryFollows
<1>7. i # j => rows[i].day # rows[j].day
  BY <1>3 DEF Dated
<1>8. m \in Nat /\ n \in Nat
  BY <1>2
<1>9. PICK a, b : a = rows[i].day /\ b = rows[j].day
  OBVIOUS
<1>10. m < n <=> i < j
  BY <1>3, <1>5, <1>6, <1>7, <1>8, <1>9
<1> QED
  BY <1>1, <1>10

(* Rows that uploads alone have written, in the order of their dates and after *)
(* the live rows, are what a pass makes of them: it has nothing to write.      *)
THEOREM FreshHistoryStaysStable == Spec => []FreshHistoryIsStable
<1>1. ASSUME CreditInv, FreshInv PROVE FreshHistoryIsStable
  <2> SUFFICES ASSUME ~disturbed, Dated, HistoryFollows, LiveFirst,
                      Cardinality(OnboardingChoices) = 1,
                      NEW order \in PassOrders, NEW onb \in OnboardingChoices
               PROVE  Updates(order, onb) = <<>>
    BY DEF FreshHistoryIsStable, HistoryFollows, LiveFirst
  <2>1. TypeInv /\ rows \in Seq(Row)
    BY <1>1 DEF CreditInv, TypeInv
  <2>2. PICK N : N = Len(order)
    OBVIOUS
  <2>3. /\ N \in Nat /\ \A m \in 1..N : order[m] \in HistoryRows
        /\ \A i \in HistoryRows : \E m \in 1..N : order[m] = i
    BY <2>1, <2>2, PassOrderType
  <2> DEFINE Known(n) == {p \in Provider :
                            \/ p \in LiveGains
                            \/ \E m \in 1..N : m <= n /\ Gains(rows[order[m]], p)}
  <2>4. PICK A : A = [n \in 0..N |-> Known(n)]
    OBVIOUS
  <2>5. A \in [0..N -> SUBSET Provider] /\ \A n \in 0..N : A[n] = Known(n)
    BY <2>4
  <2>6. A[0] = LiveGains
    <3>1. ~ \E m \in 1..N : m <= 0
      BY <2>3
    <3>2. Known(0) = LiveGains
      BY <3>1 DEF LiveGains
    <3>3. 0 \in 0..N
      BY <2>3
    <3> HIDE DEF Known
    <3> QED
      BY <2>5, <3>2, <3>3
  <2>7. ASSUME NEW n \in 1..N
        PROVE  /\ \E u \in Reread(order[n], A[n - 1], onb) : AlreadySo(u)
               /\ \A p : p \in A[n] <=> p \in A[n - 1] \/ (p \in Provider /\ Gains(rows[order[n]], p))
    <3>1. PICK j : j = order[n]
      OBVIOUS
    <3>2. j \in HistoryRows /\ j \in DOMAIN rows /\ n - 1 \in 0..N /\ n \in 0..N /\ n \in Nat
      BY <2>3, <3>1 DEF HistoryRows
    <3>3. \A m \in 1..N : (m <= n - 1 <=> m < n) /\ (m <= n <=> m <= n - 1 \/ m = n)
      BY <2>3
    <3>4. A[n - 1] = GainsBefore(j)
      <4>1. ASSUME NEW p \in GainsBefore(j) PROVE p \in Known(n - 1)
        <5>1. PICK i \in DOMAIN rows : i < j /\ Gains(rows[i], p)
          BY <4>1 DEF GainsBefore
        <5>2. p \in Provider
          BY <4>1 DEF GainsBefore
        <5>3. CASE rows[i].source = "LIVE"
          BY <5>1, <5>2, <5>3 DEF LiveGains
        <5>4. CASE rows[i].source # "LIVE"
          <6>1. i \in HistoryRows
            <7>1. rows[i] \in Row
              BY <2>1
            <7> QED
              BY <5>4, <7>1 DEF HistoryRows, Row
          <6>2. PICK m \in 1..N : order[m] = i
            BY <2>3, <6>1
          <6>3. m < n
            BY <2>1, <2>2, <3>1, <5>1, <6>2, OrderOfStorage
          <6> QED
            BY <3>3, <5>1, <5>2, <6>2, <6>3
        <5> QED
          BY <5>3, <5>4
      <4>2. ASSUME NEW p \in Known(n - 1) PROVE p \in GainsBefore(j)
        <5>1. CASE p \in LiveGains
          <6>1. PICK i \in DOMAIN rows : rows[i].source = "LIVE" /\ Gains(rows[i], p)
            BY <5>1 DEF LiveGains
          <6>2. i < j
            BY <3>2, <6>1 DEF LiveFirst
          <6> QED
            BY <4>2, <6>1, <6>2 DEF GainsBefore
        <5>2. ASSUME NEW m \in 1..N, m <= n - 1, Gains(rows[order[m]], p)
              PROVE  p \in GainsBefore(j)
          <6>1. order[m] < j
            BY <2>1, <2>2, <3>1, <3>3, <5>2, OrderOfStorage
          <6>2. order[m] \in DOMAIN rows
            BY <2>3 DEF HistoryRows
          <6> QED
            BY <4>2, <5>2, <6>1, <6>2 DEF GainsBefore
        <5> QED
          BY <4>2, <5>1, <5>2
      <4>3. Known(n - 1) = GainsBefore(j)
        <5> HIDE DEF Known
        <5> QED
          BY <4>1, <4>2
      <4> HIDE DEF Known
      <4> QED
        BY <2>5, <3>2, <4>3
    <3>5. ChoicesBefore(j) = OnboardingChoices
      <4>1. PICK at : at = {i \in DOMAIN rows : OnboardingRow(rows[i])}
        OBVIOUS
      <4>2. OnboardsBefore(j) = at
        <5>1. \A i \in at : i < j
          BY <3>2, <4>1 DEF OnboardingRow, LiveFirst
        <5> QED
          BY <4>1, <5>1 DEF OnboardsBefore
      <4>3. PICK found : found = {rows[i].new : i \in at}
        OBVIOUS
      <4>4. OnboardingChoices = IF found = {} THEN {Null} ELSE found
        BY <4>1, <4>3 DEF OnboardingChoices
      <4>5. found = {} <=> at = {}
        BY <4>3
      <4> QED
        BY <4>2, <4>3, <4>4, <4>5 DEF ChoicesBefore
    <3>6. AsRead(j)
      BY <1>1, <3>2 DEF FreshInv
    <3>7. PICK other \in OnboardingChoices :
             \E u \in Reread(j, A[n - 1], other) : AlreadySo(u)
      BY <3>4, <3>5, <3>6 DEF AsRead
    <3>8. other = onb
      BY <2>1, OneChoice
    <3>9. \A p : p \in Known(n) <=>
                   p \in Known(n - 1) \/ (p \in Provider /\ Gains(rows[j], p))
      BY <3>1, <3>3
    <3> HIDE DEF Known
    <3> QED
      BY <2>5, <3>1, <3>2, <3>7, <3>8, <3>9
  <2>8. ASSUME NEW n \in 1..N
        PROVE  /\ A[n] = A[n - 1] \cup ({u.new : u \in Reread(order[n], A[n - 1], onb)} \ {Null})
               /\ \A u \in Reread(order[n], A[n - 1], onb) : AlreadySo(u)
    <3>1. PICK j, added : j = order[n] /\ added = A[n - 1]
      OBVIOUS
    <3>2. PICK u \in Reread(j, added, onb) : AlreadySo(u)
      BY <2>7, <3>1
    <3>3. Reread(j, added, onb) = {u}
      BY <3>2, RereadIsOne
    <3>4. j \in HistoryRows /\ ~rows[j].onboarding
      BY <1>1, <2>3, <3>1 DEF FreshInv, AsRead
    <3>5. u.row = j /\ u \in Update
      <4>1. onb \in Holder
        BY <2>1, ChoicesAreHolders
      <4> QED
        BY <2>1, <3>2, <3>4, <4>1, RereadType
    <3>6. u.new # Null => u.type \in {"ADDED", "REPLACED"}
      BY <3>2, WinnersGain
    <3>7. \A p : p \in Provider /\ Gains(rows[j], p) <=> p = u.new /\ p # Null
      <4>1. u.new \in Holder /\ Null \notin Provider
        BY <3>5, ConstantsAssumption DEF Update
      <4>2. rows[j].new = u.new /\ rows[j].type = u.type
        BY <3>2, <3>5 DEF AlreadySo
      <4> QED
        BY <3>4, <3>6, <4>1, <4>2 DEF Gains, Holder
    <3>8. \A p : p \in A[n] <=> p \in added \/ (p = u.new /\ p # Null)
      BY <2>7, <3>1, <3>7
    <3>9. {v.new : v \in Reread(j, added, onb)} = {u.new}
      BY <3>3
    <3>10. A[n] = added \cup ({u.new} \ {Null})
      <4>1. A[n] \in SUBSET Provider /\ added \in SUBSET Provider
        <5>1. n \in 0..N /\ n - 1 \in 0..N
          BY <2>3
        <5> QED
          BY <2>5, <3>1, <5>1
      <4> QED
        BY <3>8, <4>1
    <3> QED
      BY <3>1, <3>2, <3>3, <3>9, <3>10
  <2>9. Reads(A, order, onb)
    BY <2>2, <2>5, <2>6, <2>8 DEF Reads
  <2>10. onb \in Holder
    BY <2>1, ChoicesAreHolders
  <2>11. \A n \in 1..Len(order) : \A u \in Reread(order[n], A[n - 1], onb) : AlreadySo(u)
    BY <2>2, <2>8
  <2> QED
    BY <2>1, <2>9, <2>10, <2>11, SilentPass
<1> QED
  BY <1>1, FreshInvariant, PTL

-----------------------------------------------------------------------------
(* What the Market Intelligence page makes of a row.  A query's fields decide  *)
(* whether it is fetched, and the pills are eight sets of types.               *)

LEMMA Restrictions ==
    /\ Allowed({}) = ChurnType /\ HidesOnboarding({})
    /\ Unrestricted # {} /\ Allowed(Unrestricted) = ChurnType \cup Technical
    /\ ~HidesOnboarding(Unrestricted)
<1>1. Unrestricted # {}
  BY DEF Unrestricted
<1>2. Unrestricted \cap ChurnType = {}
  BY DEF Unrestricted, ChurnType
<1> QED
  BY <1>1, <1>2 DEF Allowed, HidesOnboarding

LEMMA LedgerFetches ==
    ASSUME NEW row, NEW f \in Filter
    PROVE  Fetched(row, Ledger(f)) <=>
             /\ f.inScope /\ row.day \in f.days /\ f.search # "miss"
             /\ f.provider = Null \/ f.search # "none" \/ OnASide(row, f.provider)
             /\ row.type \in Allowed(f.change)
             /\ HidesOnboarding(f.change) => ~row.onboarding
<1>1. PICK q : q = Ledger(f)
  OBVIOUS
<1>2. q = [days |-> f.days, inScope |-> f.inScope, search |-> f.search,
           provider |-> f.provider, role |-> "any", change |-> f.change]
  BY <1>1 DEF Ledger, Overview
<1>3. /\ q.days = f.days /\ q.inScope = f.inScope /\ q.search = f.search
      /\ q.provider = f.provider /\ q.role = "any" /\ q.change = f.change
  BY <1>2
<1>4. Fetched(row, q) <=>
        /\ q.inScope /\ row.day \in q.days /\ q.search # "miss"
        /\ q.provider = Null \/ q.search # "none" \/ OnASide(row, q.provider)
        /\ row.type \in Allowed(q.change)
        /\ HidesOnboarding(q.change) => ~row.onboarding
  BY <1>3 DEF Fetched, ProviderFilter
<1> QED
  BY <1>1, <1>3, <1>4

LEMMA CountsFetch ==
    ASSUME NEW row, NEW f \in Filter
    PROVE  Fetched(row, Counts(f)) <=>
             /\ f.inScope /\ row.day \in f.days /\ f.search # "miss"
             /\ f.provider = Null \/ f.search # "none" \/ OnASide(row, f.provider)
             /\ row.type \in Allowed(Unrestricted)
             /\ HidesOnboarding(Unrestricted) => ~row.onboarding
<1>1. PICK q : q = Counts(f)
  OBVIOUS
<1>2. q = [days |-> f.days, inScope |-> f.inScope, search |-> f.search,
           provider |-> f.provider, role |-> "any", change |-> Unrestricted]
  BY <1>1 DEF Counts, Ledger, Overview
<1>3. /\ q.days = f.days /\ q.inScope = f.inScope /\ q.search = f.search
      /\ q.provider = f.provider /\ q.role = "any" /\ q.change = Unrestricted
  BY <1>2
<1>4. Fetched(row, q) <=>
        /\ q.inScope /\ row.day \in q.days /\ q.search # "miss"
        /\ q.provider = Null \/ q.search # "none" \/ OnASide(row, q.provider)
        /\ row.type \in Allowed(q.change)
        /\ HidesOnboarding(q.change) => ~row.onboarding
  BY <1>3 DEF Fetched, ProviderFilter
<1> QED
  BY <1>1, <1>3, <1>4

LEMMA OverviewFetches ==
    ASSUME NEW row, NEW f \in Filter
    PROVE  Fetched(row, Overview(f)) <=>
             /\ f.inScope /\ row.day \in f.days
             /\ row.type \in ChurnType /\ ~row.onboarding
<1>1. PICK q : q = Overview(f)
  OBVIOUS
<1>2. /\ q.days = f.days /\ q.inScope = f.inScope /\ q.search = "none"
      /\ q.provider = Null /\ q.role = "any" /\ q.change = {}
  BY <1>1 DEF Overview
<1>3. Fetched(row, q) <=>
        /\ f.inScope /\ row.day \in f.days
        /\ row.type \in ChurnType /\ ~row.onboarding
  BY <1>2, Restrictions DEF Fetched, ProviderFilter
<1> QED
  BY <1>1, <1>3

LEMMA EveryPillCounts ==
    ASSUME NEW row, row.type \in ChurnType \cup Technical
    PROVE  PillsCount(row)
<1> SUFFICES ASSUME NEW f \in Filter
             PROVE  Fetched(row, Counts(f)) /\ OnPill(row, f.change)
                      <=> Fetched(row, Ledger(f))
  BY DEF PillsCount
<1>1. PICK pill : pill = f.change
  OBVIOUS
<1>2. pill \in Pill
  BY <1>1 DEF Filter
<1>3. OnPill(row, pill) <=> /\ row.type \in Allowed(pill)
                            /\ HidesOnboarding(pill) => ~row.onboarding
  <2>1. CASE pill = {}
    BY <2>1, Restrictions DEF OnPill
  <2>2. CASE pill = Unrestricted
    <3>1. pill # {} /\ ~(pill \subseteq ChurnType)
      BY <2>2 DEF Unrestricted, ChurnType
    <3>2. OnPill(row, pill)
      BY <2>2, <3>1 DEF OnPill
    <3> QED
      BY <2>2, <3>2, Restrictions
  <2>3. CASE pill \in {{"ADDED"}, {"REPLACED"}, {"REMOVED"}}
    <3>1. /\ pill # {} /\ pill # Unrestricted /\ pill \subseteq ChurnType
          /\ pill \cap ChurnType # {}
      BY <2>3 DEF Unrestricted, ChurnType
    <3> QED
      BY <3>1 DEF OnPill, Allowed, HidesOnboarding
  <2>4. CASE pill \in {{"IP_SUBNET_UPDATE"}, DiameterSs7, {"ADMIN_NAME_UPDATE"}}
    <3>1. /\ pill # {} /\ pill # Unrestricted /\ ~(pill \subseteq ChurnType)
          /\ pill \cap ChurnType = {}
      BY <2>4 DEF Unrestricted, ChurnType, DiameterSs7
    <3> QED
      BY <3>1 DEF OnPill, Allowed, HidesOnboarding
  <2> QED
    BY <1>2, <2>1, <2>2, <2>3, <2>4 DEF Pill
<1> QED
  BY <1>1, <1>3, LedgerFetches, CountsFetch, Restrictions

LEMMA EverySelectionShows ==
    ASSUME NEW row
    PROVE  SelectionShows(row)
<1> SUFFICES ASSUME NEW f \in Filter, f.search = "none", f.change = {}, f.provider # Null
             PROVE  /\ Charted(row, f, f.provider) <=> Fetched(row, Ledger(f))
                    /\ Fetched(row, Overview(f))
                       /\ (PivotGain(row, f.provider) \/ PivotLoss(row, f.provider))
                         => Fetched(row, Ledger(f))
  BY DEF SelectionShows
<1>1. Fetched(row, Ledger(f)) <=>
        /\ f.inScope /\ row.day \in f.days
        /\ OnASide(row, f.provider)
        /\ row.type \in ChurnType /\ ~row.onboarding
  BY LedgerFetches, Restrictions
<1> QED
  BY <1>1, OverviewFetches DEF Charted, PivotGain, PivotLoss, OnASide

LEMMA EveryHiddenIsReviewed ==
    ASSUME NEW row, row.type \in ChurnType \cup Technical
    PROVE  HiddenIsReviewed(row)
<1>1. ChurnType \cap Technical = {}
  BY DEF ChurnType, Technical
<1> QED
  BY <1>1, OverviewFetches DEF HiddenIsReviewed, NeedsReview

(* The sides a type claims. *)
TypeFits(type, old, new) ==
    /\ type = "ADDED" => old = Null /\ new # Null
    /\ type = "REMOVED" => old # Null /\ new = Null
    /\ type = "REPLACED" => old # Null /\ new # Null
    /\ type \notin ChurnType => old = Null /\ new = Null

LEMMA FittingFiguresMatch ==
    ASSUME NEW row, TypeFits(row.type, row.old, row.new)
    PROVE  FiguresMatch(row)
<1> SUFFICES ASSUME NEW f \in Filter, f.search = "none", f.change = {}, f.provider = Null,
                    NEW p \in Provider
             PROVE  LET q == Overview(f)
                        seen == Fetched(row, q)
                    IN /\ SummaryGain(row, q, p) <=> seen /\ PivotGain(row, p)
                       /\ SummaryLoss(row, q, p) <=> seen /\ PivotLoss(row, p)
                       /\ SummaryGain(row, q, p)
                            <=> Fetched(row, [q EXCEPT !.provider = p, !.role = "gainer"])
                       /\ SummaryLoss(row, q, p)
                            <=> Fetched(row, [q EXCEPT !.provider = p, !.role = "loser"])
                       /\ SummaryGain(row, q, p) <=> MovementGain(row, f, p)
                       /\ SummaryLoss(row, q, p) <=> MovementLoss(row, f, p)
  BY DEF FiguresMatch
<1>1. PICK q : q = Overview(f)
  OBVIOUS
<1>2. q = [days |-> f.days, inScope |-> f.inScope, search |-> "none",
           provider |-> Null, role |-> "any", change |-> {}]
  BY <1>1 DEF Overview
<1>3. [q EXCEPT !.change = {}] = q
  BY <1>2
<1>4. p # Null
  BY ConstantsAssumption
<1>5. Fetched(row, q) <=> /\ f.inScope /\ row.day \in f.days
                          /\ row.type \in ChurnType /\ ~row.onboarding
  BY <1>1, OverviewFetches
<1>6. Fetched(row, Ledger(f)) <=> Fetched(row, q)
  BY <1>5, LedgerFetches, Restrictions
<1>7. ASSUME NEW role \in {"gainer", "loser"}
      PROVE  Fetched(row, [q EXCEPT !.provider = p, !.role = role]) <=>
               /\ f.inScope /\ row.day \in f.days
               /\ IF role = "gainer" THEN row.new = p ELSE row.old = p
               /\ row.type \in RoleTypes(role) /\ ~row.onboarding
  <2>1. PICK s : s = [q EXCEPT !.provider = p, !.role = role]
    OBVIOUS
  <2>2. /\ s.days = f.days /\ s.inScope = f.inScope /\ s.search = "none"
        /\ s.provider = p /\ s.role = role /\ s.change = {}
    BY <1>2, <2>1
  <2>3. Fetched(row, s) <=>
               /\ f.inScope /\ row.day \in f.days
               /\ IF role = "gainer" THEN row.new = p ELSE row.old = p
               /\ row.type \in RoleTypes(role) /\ ~row.onboarding
    BY <1>4, <1>7, <2>2 DEF Fetched, ProviderFilter, HidesOnboarding
  <2> QED
    BY <2>1, <2>3
<1>8. /\ SummaryGain(row, q, p) <=> Fetched(row, q) /\ row.new = p
      /\ SummaryLoss(row, q, p) <=> Fetched(row, q) /\ row.old = p
  BY <1>3 DEF SummaryGain, SummaryLoss, SummaryRow
<1>9. /\ row.type \in ChurnType /\ row.new = p => row.type \in {"ADDED", "REPLACED"}
      /\ row.type \in ChurnType /\ row.old = p => row.type \in {"REMOVED", "REPLACED"}
  BY <1>4 DEF TypeFits, ChurnType
<1>10. {"ADDED", "REPLACED"} \subseteq ChurnType /\ {"REMOVED", "REPLACED"} \subseteq ChurnType
  BY DEF ChurnType
<1>11. /\ Fetched(row, [q EXCEPT !.provider = p, !.role = "gainer"]) <=>
            Fetched(row, q) /\ row.new = p
       /\ Fetched(row, [q EXCEPT !.provider = p, !.role = "loser"]) <=>
            Fetched(row, q) /\ row.old = p
  BY <1>5, <1>7, <1>9, <1>10 DEF RoleTypes
<1>12. /\ MovementGain(row, f, p) <=> Fetched(row, q) /\ row.new = p
       /\ MovementLoss(row, f, p) <=> Fetched(row, q) /\ row.old = p
  BY <1>5, <1>6 DEF MovementGain, MovementLoss
<1>13. /\ Fetched(row, q) /\ PivotGain(row, p) <=> Fetched(row, q) /\ row.new = p
       /\ Fetched(row, q) /\ PivotLoss(row, p) <=> Fetched(row, q) /\ row.old = p
  BY <1>5, <1>9 DEF PivotGain, PivotLoss
<1> QED
  BY <1>1, <1>8, <1>11, <1>12, <1>13

LEMMA FittingNamesBoth ==
    ASSUME NEW row, TypeFits(row.type, row.old, row.new)
    PROVE  NamesBothSides(row)
<1>1. CASE row.type = "REPLACED"
  BY <1>1 DEF NamesBothSides, Named, TypeFits
<1>2. CASE row.type = "ADDED"
  BY <1>2 DEF NamesBothSides, Named, TypeFits
<1>3. CASE row.type = "REMOVED"
  BY <1>3 DEF NamesBothSides, Named, TypeFits
<1>4. CASE row.type \notin ChurnType
  BY <1>4 DEF NamesBothSides, Named, TypeFits, ChurnType
<1> QED
  BY <1>1, <1>2, <1>3, <1>4 DEF ChurnType

RowFits(row) == row.reviewed \/ TypeFits(row.type, row.old, row.new)

(* A row whose sides are those of its type reads alike in every view. *)
LEMMA FittingIsUndisputed ==
    ASSUME NEW row \in Row, RowFits(row)
    PROVE  row \notin DisputedRows
<1>1. ASSUME NEW x \in Readings(row) PROVE ReadAlike(x)
  <2>1. /\ x.old = row.old /\ x.new = row.new /\ x.reviewed = row.reviewed
        /\ \/ x.type = row.type /\ row.type \in ChurnType
           \/ x.type \in Technical /\ row.type = "UPDATE"
    <3>1. CASE row.type = "UPDATE"
      <4>1. PICK t \in Technical : x = [row EXCEPT !.type = t]
        BY <1>1, <3>1 DEF Readings
      <4> QED
        BY <3>1, <4>1 DEF Row
    <3>2. CASE row.type # "UPDATE"
      <4>1. x = row
        BY <1>1, <3>2 DEF Readings
      <4> QED
        BY <3>2, <4>1 DEF Row, ChangeTypes
    <3> QED
      BY <3>1, <3>2
  <2>2. x.type \in ChurnType \cup Technical
    BY <2>1
  <2>3. x.reviewed \/ TypeFits(x.type, x.old, x.new)
    <3>1. row.type = "UPDATE" => row.type \notin ChurnType
      BY DEF ChurnType
    <3>2. x.type \in Technical => x.type \notin ChurnType /\ x.type \notin {"ADDED", "REMOVED", "REPLACED"}
      BY DEF ChurnType, Technical
    <3> QED
      BY <2>1, <3>1, <3>2 DEF RowFits, TypeFits
  <2> QED
    BY <2>2, <2>3, EveryPillCounts, EverySelectionShows, EveryHiddenIsReviewed,
       FittingFiguresMatch, FittingNamesBoth DEF ReadAlike
<1>2. SUFFICES ASSUME row \in DisputedRows PROVE FALSE
  OBVIOUS
<1>3. PICK w \in Row : row \in {w : r \in {x \in Readings(w) : ~ReadAlike(x)}}
  BY <1>2 DEF DisputedRows
<1> QED
  BY <1>1, <1>3

(* The sides of a row, and of an update that will replace its type with them,  *)
(* are those of the type; only an admin's own type parts them.                 *)
FitsInv ==
    /\ \A i \in DOMAIN rows : RowFits(rows[i])
    /\ \A k \in DOMAIN req.todo :
          TypeFits(req.todo[k].type, req.todo[k].old, req.todo[k].new)

LEMMA ChangeTypeFits ==
    ASSUME NEW old, NEW new, old # Null \/ new # Null
    PROVE  TypeFits(ChangeType(old, new), old, new)
  BY DEF ChangeType, TypeFits, ChurnType

LEMMA UpdateFits == TypeFits("UPDATE", Null, Null)
  BY DEF TypeFits

LEMMA RowOfFits ==
    ASSUME NEW t, NEW day, NEW row \in RowOf(t, day)
    PROVE  RowFits(row)
<1>1. PICK s : s = Sides(t, req.added, req.onb)
  OBVIOUS
<1>2. \/ /\ s.old # Null \/ s.new # Null
         /\ row = HistoryRow(t, day, ChangeType(s.old, s.new), s.old, s.new)
      \/ row = HistoryRow(t, day, "UPDATE", Null, Null)
  BY <1>1 DEF RowOf
<1>3. ASSUME NEW type, NEW old, NEW new, TypeFits(type, old, new),
             row = HistoryRow(t, day, type, old, new)
      PROVE  RowFits(row)
  BY <1>3 DEF HistoryRow, RowFits
<1>4. CASE s.old # Null \/ s.new # Null
  BY <1>2, <1>3, <1>4, ChangeTypeFits, UpdateFits
<1> QED
  BY <1>2, <1>3, <1>4, UpdateFits

LEMMA RereadFits ==
    ASSUME NEW i, NEW added, NEW onb, NEW u \in Reread(i, added, onb)
    PROVE  TypeFits(u.type, u.old, u.new)
<1>1. PICK s : s = Sides(rows[i].text, added, onb)
  OBVIOUS
<1>2. \/ /\ s.old # Null \/ s.new # Null
         /\ u = [row |-> i, type |-> ChangeType(s.old, s.new), old |-> s.old, new |-> s.new]
      \/ u = [row |-> i, type |-> "UPDATE", old |-> Null, new |-> Null]
  BY <1>1 DEF Reread, RereadAs
<1>3. CASE s.old # Null \/ s.new # Null
  BY <1>2, <1>3, ChangeTypeFits, UpdateFits
<1> QED
  BY <1>2, <1>3, UpdateFits

LEMMA StartPassFits ==
    ASSUME TypeInv, FitsInv, StartPass
    PROVE  FitsInv'
<1>1. PICK order \in PassOrders, onb \in OnboardingChoices :
         req' = [IdleRequest EXCEPT !.pc = "pass", !.todo = Updates(order, onb)]
  BY DEF StartPass
<1>2. onb \in Holder
  BY ChoicesAreHolders DEF TypeInv
<1>3. PICK r : r = Reading(LiveGains, order, onb)
  OBVIOUS
<1>4. PICK N : N = Len(order)
  OBVIOUS
<1>5. LiveGains \in SUBSET Provider
  BY DEF LiveGains
<1>6. WritesReadings(r, order, onb, N)
  BY <1>2, <1>3, <1>4, <1>5, ReadingWrites
<1>7. PICK todo : todo = r[N].todo
  OBVIOUS
<1>8. req'.todo = todo
  <2>1. req' = [IdleRequest EXCEPT !.pc = "pass", !.todo = todo]
    BY <1>1, <1>3, <1>4, <1>7 DEF Updates, UpdatesFrom
  <2>2. todo \in Seq(Update)
    BY <1>2, <1>3, <1>4, <1>7, UpdatesType DEF Updates, UpdatesFrom
  <2> QED
    BY <2>1, <2>2, NewRequests
<1>9. \A k \in DOMAIN todo : TypeFits(todo[k].type, todo[k].old, todo[k].new)
  BY <1>6, <1>7, RereadFits DEF WritesReadings
<1>10. rows' = rows
  BY DEF StartPass, db
<1> QED
  BY <1>8, <1>9, <1>10 DEF FitsInv

LEMMA ApplyBatchFits ==
    ASSUME TypeInv, FitsInv, ApplyBatch
    PROVE  FitsInv'
<1>1. PICK n \in Nat : Batched(n)
  BY ApplyBatchStep
<1>2. /\ req' \in Request
      /\ DOMAIN rows' = DOMAIN rows
      /\ \A i \in DOMAIN rows : rows'[i] \in Row
  BY ApplyBatchStep DEF Rewritten
<1>3. PICK L : L = Len(req.todo)
  OBVIOUS
<1>4. /\ L \in Nat /\ DOMAIN req.todo = 1..L /\ n <= L
      /\ DOMAIN req'.todo = 1..(L - n)
      /\ \A k \in 1..(L - n) : req'.todo[k] = req.todo[k + n]
  <2>1. req.todo \in Seq(Update) /\ req'.todo \in Seq(Update)
    BY <1>2 DEF TypeInv, Request
  <2>2. Len(req'.todo) = L - n /\ n <= L /\ \A k \in 1..(L - n) : req'.todo[k] = req.todo[k + n]
    BY <1>1, <1>3 DEF Batched
  <2> QED
    BY <1>3, <2>1, <2>2
<1>5. \A k \in DOMAIN req'.todo :
         TypeFits(req'.todo[k].type, req'.todo[k].old, req'.todo[k].new)
  <2>1. \A k \in 1..(L - n) : k + n \in 1..L
    BY <1>4
  <2> QED
    BY <1>4, <2>1 DEF FitsInv
<1>6. ASSUME NEW i \in DOMAIN rows PROVE RowFits(rows'[i])
  <2>1. rows[i] \in Row /\ RowFits(rows[i])
    BY DEF TypeInv, FitsInv
  <2>2. CASE rows'[i] = rows[i]
    BY <2>1, <2>2
  <2>3. CASE rows'[i] # rows[i]
    <3>1. PICK k \in 1..n :
            rows'[i] = [rows[i] EXCEPT !.type = req.todo[k].type,
                                       !.old = req.todo[k].old,
                                       !.new = req.todo[k].new]
      BY <1>1, <2>3 DEF Batched
    <3>2. k \in DOMAIN req.todo
      BY <1>4
    <3>3. TypeFits(req.todo[k].type, req.todo[k].old, req.todo[k].new)
      BY <3>2 DEF FitsInv
    <3>4. /\ rows'[i].type = req.todo[k].type /\ rows'[i].old = req.todo[k].old
          /\ rows'[i].new = req.todo[k].new
      BY <2>1, <3>1 DEF Row
    <3> QED
      BY <3>3, <3>4 DEF RowFits
  <2> QED
    BY <2>2, <2>3
<1> QED
  BY <1>2, <1>5, <1>6 DEF FitsInv

LEMMA BeginFileFits ==
    ASSUME TypeInv, FitsInv, NEW d, NEW replace, NEW day, BeginFile(d, replace, day)
    PROVE  FitsInv'
<1>1. PICK new : new = IF d \in Provider THEN d ELSE Null
  OBVIOUS
<1>2. PICK type : type = ChangeType(current, new)
  OBVIOUS
<1>3. PICK live : live = [source |-> "LIVE", type |-> type, old |-> current, new |-> new,
            onboarding |-> type = "ADDED" /\ (replace \/ ~loaded),
            text |-> Null, day |-> day, reviewed |-> FALSE]
  OBVIOUS
<1>4. rows' = rows \/ (current # new /\ rows' = Append(rows, live))
  BY <1>1, <1>2, <1>3 DEF BeginFile
<1>5. req'.todo = <<>>
  BY NewRequests DEF BeginFile
<1>6. DOMAIN req'.todo = {}
  BY <1>5
<1>7. \A i \in DOMAIN rows' : RowFits(rows'[i])
  <2>1. CASE rows' = rows
    BY <2>1 DEF FitsInv
  <2>2. CASE current # new /\ rows' = Append(rows, live)
    <3>1. TypeFits(type, current, new)
      BY <1>2, <2>2, ChangeTypeFits
    <3>2. live.type = type /\ live.old = current /\ live.new = new
      BY <1>3
    <3>3. RowFits(live)
      BY <3>1, <3>2 DEF RowFits
    <3>4. RowsAreASequence
      BY DEF TypeInv, RowsAreASequence
    <3> QED
      BY <2>2, <3>3, <3>4, AppendRow DEF FitsInv
  <2> QED
    BY <1>4, <2>1, <2>2
<1> QED
  BY <1>6, <1>7 DEF FitsInv

LEMMA FitsNext == TypeInv /\ FitsInv /\ [Next]_vars => FitsInv'
<1> SUFFICES ASSUME TypeInv, FitsInv, [Next]_vars PROVE FitsInv'
  OBVIOUS
<1>a. ASSUME rows' = rows, req'.todo = req.todo \/ req'.todo = <<>> PROVE FitsInv'
  <2>1. DOMAIN req'.todo = {} \/ req'.todo = req.todo
    BY <1>a
  <2> QED
    BY <1>a, <2>1 DEF FitsInv
<1>b. ASSUME req' = req, Rewritten, \A i \in DOMAIN rows : RowFits(rows'[i]) PROVE FitsInv'
  BY <1>b DEF FitsInv, Rewritten
<1>1. ASSUME NEW d, NEW replace, NEW day, BeginFile(d, replace, day) PROVE FitsInv'
  BY <1>1, BeginFileFits
<1>2. ASSUME NEW onb, ReadRows(onb) PROVE FitsInv'
  <2>1. rows' = rows /\ req'.todo = req.todo
    BY <1>2 DEF ReadRows, db, TypeInv, Request
  <2> QED
    BY <1>a, <2>1
<1>3. ASSUME NEW t, NEW day, RecordItem(t, day) PROVE FitsInv'
  <2>1. PICK row \in RowOf(t, day) : rows' = Append(rows, row)
    BY <1>3 DEF RecordItem
  <2>2. req'.todo = req.todo
    BY <1>3 DEF RecordItem, TypeInv, Request
  <2>3. RowsAreASequence
    BY DEF TypeInv, RowsAreASequence
  <2> QED
    BY <2>1, <2>2, <2>3, RowOfFits, AppendRow DEF FitsInv
<1>4. ASSUME NEW t, NEW day, SkipItem(t, day) PROVE FitsInv'
  <2>1. rows' = rows /\ req'.todo = req.todo
    BY <1>4 DEF SkipItem, db, TypeInv, Request
  <2> QED
    BY <1>a, <2>1
<1>5. CASE FinishFile \/ RequestDies \/ FinishPass
  <2>1. rows' = rows /\ req'.todo = <<>>
    BY <1>5, NewRequests DEF FinishFile, RequestDies, FinishPass, db
  <2> QED
    BY <1>a, <2>1
<1>6. CASE StartPass
  BY <1>6, StartPassFits
<1>7. CASE ApplyBatch
  BY <1>7, ApplyBatchFits
<1>8. ASSUME NEW p, ToggleAlias(p) PROVE FitsInv'
  BY <1>8, <1>a DEF ToggleAlias, Correct
<1>9. ASSUME NEW i \in DOMAIN rows, NEW type \in ChangeTypes, NEW onboarding \in BOOLEAN,
             Review(i, type, onboarding)
      PROVE  FitsInv'
  <2>1. Rewritten /\ \A j \in DOMAIN rows : rows'[j] = rows[j] \/ rows'[j].reviewed
    BY <1>9, ReviewStep
  <2>2. req' = req
    BY <1>9 DEF Review, Correct
  <2> QED
    BY <1>b, <2>1, <2>2 DEF FitsInv, RowFits
<1>10. CASE ReprocessOnboarding
  <2>1. Rewritten /\ \A j \in DOMAIN rows :
           rows'[j] = rows[j] \/ rows'[j] = [rows[j] EXCEPT !.onboarding = TRUE]
    BY <1>10, ReprocessStep
  <2>2. req' = req
    BY <1>10 DEF ReprocessOnboarding, Correct
  <2>3. ASSUME NEW j \in DOMAIN rows PROVE RowFits(rows'[j])
    <3>1. rows[j] \in Row /\ RowFits(rows[j])
      BY DEF TypeInv, FitsInv
    <3>2. /\ rows'[j].type = rows[j].type /\ rows'[j].old = rows[j].old
          /\ rows'[j].new = rows[j].new /\ rows'[j].reviewed = rows[j].reviewed
      BY <2>1, <3>1 DEF Row
    <3> QED
      BY <3>1, <3>2 DEF RowFits
  <2> QED
    BY <1>b, <2>1, <2>2, <2>3
<1>11. CASE UNCHANGED vars
  BY <1>11, <1>a DEF vars, db
<1> QED
  BY <1>1, <1>2, <1>3, <1>4, <1>5, <1>6, <1>7, <1>8, <1>9, <1>10, <1>11 DEF Next

LEMMA FitsInvariant == Spec => [](TypeInv /\ FitsInv)
<1>1. Init => FitsInv
  <2> SUFFICES ASSUME Init PROVE FitsInv
    OBVIOUS
  <2>1. rows = <<>> /\ req.todo = <<>>
    BY NewRequests DEF Init
  <2>2. DOMAIN rows = {} /\ DOMAIN req.todo = {}
    BY <2>1
  <2> QED
    BY <2>2 DEF FitsInv
<1> QED
  BY <1>1, FitsNext, TypeInvariant, PTL DEF Spec

(* Whatever files, passes that die half way, corrections and alias edits leave *)
(* in the log, the pills, the ledger, the charts, the pivot, the summary and   *)
(* the report read each row alike, but for the sides of a row whose type an    *)
(* admin chose.                                                                *)
THEOREM MarketViewsAgree == Spec => []MarketFiguresAgree
<1>1. TypeInv /\ FitsInv => MarketFiguresAgree
  <2> SUFFICES ASSUME TypeInv, FitsInv, NEW i \in DOMAIN rows
               PROVE  rows[i] \notin DisputedRows
    BY DEF MarketFiguresAgree
  <2>1. rows[i] \in Row /\ RowFits(rows[i])
    BY DEF TypeInv, FitsInv
  <2> QED
    BY <2>1, FittingIsUndisputed
<1> QED
  BY <1>1, FitsInvariant, PTL
=============================================================================
