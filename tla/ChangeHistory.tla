---------------------------- MODULE ChangeHistory ----------------------------
(***************************************************************************)
(* The market-intelligence log Ir21RoutingChange of one (MNO, service):    *)
(* backfillChangeHistory and reclassifyChangeHistoryTaxonomy of            *)
(* apps/api/src/upload/upload.service.ts and the two admin corrections of  *)
(* apps/api/src/analytics/ir21-routing-changes.service.ts.                 *)
(*                                                                         *)
(* No code relates the rows of two (MNO, service) groups, except the date  *)
(* of the earliest live row of the MNO: see ReprocessOnboarding.  Uploads  *)
(* and passes run one at a time here, as one operator would run them; the  *)
(* alias cache they read is process-wide, and changes at any moment.       *)
(* Ir21Ingest details what comes before backfillChangeHistory in a file.   *)
(***************************************************************************)
EXTENDS Integers, FiniteSets, Sequences, SequencesExt

CONSTANTS
    Provider,     \* rows of ProviderMaster
    Text,         \* descriptions a change history may hold
    Day,          \* the dates entries and files carry
    BatchSize,    \* updates per transaction of a reclassification pass
    Null,         \* an absent provider, text or date
    Unmapped,     \* a declared carrier no alias resolves
    Undeclared,   \* a file that names no carrier for the service
    MaxUploads, MaxItems, MaxPasses, MaxEdits, MaxFaults  \* bounds

Holder == Provider \cup {Null}
ChurnType == {"ADDED", "REMOVED", "REPLACED"}
ChangeTypes == ChurnType \cup {"UPDATE"}

(* ir21-change-history.util.ts: the carriers the text says were removed and   *)
(* added, and whether one of the non-carrier patterns matches it.  The four   *)
(* non-carrier types are one, "UPDATE".                                       *)
Description == [old : Holder, new : Holder, update : BOOLEAN]

ASSUME ConstantsAssumption ==
    /\ Text \subseteq Description
    /\ Day \subseteq Nat
    /\ BatchSize \in Nat \ {0}
    /\ Null \notin Provider \cup Text
    /\ {Unmapped, Undeclared} \cap Holder = {}
    /\ Unmapped # Undeclared
    /\ {MaxUploads, MaxItems, MaxPasses, MaxEdits, MaxFaults} \subseteq Nat

VARIABLES
    loaded,    \* the MNO has an MnoMasterConnectivity row
    current,   \* Ir21Connectivity.providerId
    known,     \* the providers whose names the alias cache resolves
    rows,      \* Ir21RoutingChange, oldest insertion first
    req,       \* the request in flight
    uploads, items, passes, edits, faults,
    won,       \* observer: winners named by the swaps of the file in flight
    disturbed, \* observer: something other than an upload changed a reading
    settled    \* observer: a pass has read, or read and written, what is there

db == <<loaded, current, known, rows>>
bounds == <<uploads, items, passes, edits, faults>>
vars == <<db, req, bounds, won, disturbed, settled>>

Row ==
    [source : {"LIVE", "HISTORY"}, type : ChangeTypes, old : Holder, new : Holder,
     onboarding : BOOLEAN, text : Text \cup {Null}, day : Day, reviewed : BOOLEAN]

Update == [row : Nat, type : ChangeTypes, old : Holder, new : Holder]

IdleRequest ==
    [pc |-> "idle", seen |-> {}, added |-> {}, onb |-> Null, done |-> {},
     todo |-> <<>>]

Init ==
    /\ loaded = FALSE /\ current = Null /\ known = Provider /\ rows = <<>>
    /\ req = IdleRequest
    /\ uploads = 0 /\ items = 0 /\ passes = 0 /\ edits = 0 /\ faults = 0
    /\ won = {} /\ disturbed = FALSE /\ settled = "no"

-----------------------------------------------------------------------------
(* What both readers of a description share.                                  *)

ChangeType(old, new) ==
    IF old = Null THEN "ADDED" ELSE IF new = Null THEN "REMOVED" ELSE "REPLACED"

ResolveOrQueue(name) == IF name \in known THEN name ELSE Unmapped

(* providerResolver.matchAlias over the cache. *)
Resolve(name) == IF name \in known THEN name ELSE Null

(* interpretChangeHistoryDescription found a carrier. *)
IsCarrier(t) == t.old # Null \/ t.new # Null

(* A row that names a winner and counts in the churn figures. *)
Gains(row, p) ==
    /\ row.new = p
    /\ row.type \in {"ADDED", "REPLACED"}
    /\ ~row.onboarding

(* ... or, if it onboards, does not count. *)
GainsOrOnboards(row, p) == row.new = p /\ row.type \in {"ADDED", "REPLACED"}

OnboardingRow(row) ==
    /\ row.source = "LIVE" /\ row.type = "ADDED"
    /\ row.onboarding /\ row.new # Null

(* onboardingAdditionByService: with several such rows the database decides   *)
(* which one is read last.                                                    *)
OnboardingChoices ==
    LET found == {rows[i].new : i \in {j \in DOMAIN rows : OnboardingRow(rows[j])}}
    IN IF found = {} THEN {Null} ELSE found

(* A removal with no successor is paired with the onboarding addition. *)
Reconcile(old, new, onb) ==
    IF old # Null /\ new = Null /\ onb # old THEN onb ELSE new

(* The provider ids a description stands for, given the gains on record. *)
Sides(t, added, onb) ==
    LET old == Resolve(t.old)
        named == Resolve(t.new)
        unclaimed == IF named \in added THEN Null ELSE named
    IN [old |-> old, new |-> Reconcile(old, unclaimed, onb)]

DedupKey(row) ==
    IF row.type = "UPDATE"
    THEN [type |-> row.type, old |-> Null, new |-> Null, text |-> row.text,
          day |-> row.day]
    ELSE [type |-> row.type, old |-> row.old, new |-> row.new, text |-> Null,
          day |-> row.day]

-----------------------------------------------------------------------------
(* An upload.                                                                 *)

(* applyServiceConnectivity, summed up: the live row is the difference of the *)
(* declaration with the grid, or with what a Replace Active Dataset wiped.    *)
BeginFile(d, replace, day) ==
    LET new == IF d \in Provider THEN d ELSE Null
        type == ChangeType(current, new)
        live == [source |-> "LIVE", type |-> type, old |-> current, new |-> new,
                 onboarding |-> type = "ADDED" /\ (replace \/ ~loaded),
                 text |-> Null, day |-> day, reviewed |-> FALSE]
        changed == d # Unmapped /\ current # new
    IN /\ req.pc = "idle"
       /\ uploads < MaxUploads
       /\ d \in known \cup {Unmapped, Undeclared}
       /\ uploads' = uploads + 1
       /\ rows' = IF changed THEN Append(rows, live) ELSE rows
       /\ current' = IF new # Null THEN new ELSE IF replace THEN Null ELSE current
       /\ loaded' = (loaded /\ ~replace)
       /\ req' = [IdleRequest EXCEPT !.pc = "read"]
       /\ settled' = IF changed THEN "no" ELSE settled
       /\ UNCHANGED <<known, items, passes, edits, faults, won, disturbed>>

(* hasAdditionRecorded: from every source, onboarding rows excepted. *)
GainsOnRecord == {p \in Provider : \E i \in DOMAIN rows : Gains(rows[i], p)}

(* The one query of backfillChangeHistory; all it knows comes from here. *)
ReadRows(onb) ==
    /\ req.pc = "read"
    /\ onb \in OnboardingChoices
    /\ req' = [req EXCEPT !.pc = "items", !.onb = onb, !.added = GainsOnRecord,
                          !.seen = {DedupKey(rows[i]) : i \in DOMAIN rows}]
    /\ UNCHANGED <<db, bounds, won, disturbed, settled>>

HistoryRowOfFirstFile(t, day, type, old, new) ==
    [source |-> "HISTORY", type |-> type, old |-> old, new |-> new,
     onboarding |-> ~loaded, text |-> t, day |-> day, reviewed |-> FALSE]

(* Never an onboarding row, whichever file it comes from. *)
HistoryRow(t, day, type, old, new) ==
    [source |-> "HISTORY", type |-> type, old |-> old, new |-> new,
     onboarding |-> FALSE, text |-> t, day |-> day, reviewed |-> FALSE]

(* The row an entry calls for, if any.  A carrier sentence whose names do not *)
(* resolve is dropped, whatever else it says.                                 *)
RowOf(t, day) ==
    LET s == Sides(t, req.added, req.onb)
    IN IF IsCarrier(t)
       THEN IF s.old = Null /\ s.new = Null THEN {}
            ELSE {HistoryRow(t, day, ChangeType(s.old, s.new), s.old, s.new)}
       ELSE IF t.update THEN {HistoryRow(t, day, "UPDATE", Null, Null)} ELSE {}

(* An entry of the file, chosen when the loop gets to it. *)
NextItem(t, day) ==
    /\ req.pc = "items"
    /\ <<t, day>> \notin req.done
    /\ items < MaxItems
    /\ items' = items + 1
    /\ won' = IF Resolve(t.old) # Null /\ Resolve(t.new) # Null
              THEN won \cup {t.new} ELSE won

RecordItemForgetting(t, day) ==
    /\ NextItem(t, day)
    /\ \E row \in RowOf(t, day) :
         /\ DedupKey(row) \notin req.seen
         /\ rows' = Append(rows, row)
         /\ req' = [req EXCEPT !.done = @ \cup {<<t, day>>},
                               !.seen = @ \cup {DedupKey(row)}]
    /\ settled' = "no"
    /\ UNCHANGED <<loaded, current, known, uploads, passes, edits, faults, disturbed>>

RecordItemUnseen(t, day) ==
    /\ NextItem(t, day)
    /\ \E row \in RowOf(t, day) :
         /\ DedupKey(row) \notin req.seen
         /\ rows' = Append(rows, row)
         /\ req' = [req EXCEPT !.done = @ \cup {<<t, day>>},
                               !.added = @ \cup ({row.new} \ {Null})]
    /\ settled' = "no"
    /\ UNCHANGED <<loaded, current, known, uploads, passes, edits, faults, disturbed>>

RecordItem(t, day) ==
    /\ NextItem(t, day)
    /\ \E row \in RowOf(t, day) :
         /\ DedupKey(row) \notin req.seen
         /\ rows' = Append(rows, row)
         /\ req' = [req EXCEPT !.done = @ \cup {<<t, day>>},
                               !.seen = @ \cup {DedupKey(row)},
                               !.added = @ \cup ({row.new} \ {Null})]
    /\ settled' = "no"
    /\ UNCHANGED <<loaded, current, known, uploads, passes, edits, faults, disturbed>>

SkipItem(t, day) ==
    /\ NextItem(t, day)
    /\ \A row \in RowOf(t, day) : DedupKey(row) \in req.seen
    /\ req' = [req EXCEPT !.done = @ \cup {<<t, day>>}]
    /\ UNCHANGED <<db, uploads, passes, edits, faults, disturbed, settled>>

(* A file without a change history skips the query. *)
FinishFile ==
    /\ req.pc \in {"read", "items"}
    /\ loaded' = TRUE
    /\ req' = IdleRequest
    /\ won' = {}
    /\ UNCHANGED <<current, known, rows, bounds, disturbed, settled>>

-----------------------------------------------------------------------------
(* A reclassification pass.                                                   *)

LiveGains ==
    {p \in Provider : \E i \in DOMAIN rows : rows[i].source = "LIVE" /\ Gains(rows[i], p)}

LiveGainsOrOnboardings ==
    {p \in Provider :
        \E i \in DOMAIN rows : rows[i].source = "LIVE" /\ GainsOrOnboards(rows[i], p)}

HistoryRows == {i \in DOMAIN rows : rows[i].source = "HISTORY"}

(* By date; rows of one date in the order the database returns them. *)
PassOrders ==
    {order \in SetToSeqs(HistoryRows) :
        \A i, j \in DOMAIN order :
            i < j => rows[order[i]].day <= rows[order[j]].day}

RereadKeepingSides(i, s) ==
    LET t == rows[i].text
    IN IF IsCarrier(t) /\ (s.old # Null \/ s.new # Null)
       THEN {[row |-> i, type |-> ChangeType(s.old, s.new), old |-> s.old, new |-> s.new]}
       ELSE IF t.update
       THEN {[row |-> i, type |-> "UPDATE", old |-> rows[i].old, new |-> rows[i].new]}
       ELSE {}

RereadAs(i, s) ==
    LET t == rows[i].text
    IN IF IsCarrier(t) /\ (s.old # Null \/ s.new # Null)
       THEN {[row |-> i, type |-> ChangeType(s.old, s.new), old |-> s.old, new |-> s.new]}
       ELSE IF t.update THEN {[row |-> i, type |-> "UPDATE", old |-> Null, new |-> Null]}
       ELSE {}

RereadUnpaired(i, added, onb) == RereadAs(i, Sides(rows[i].text, added, Null))

(* What the current rules make of the row, and nothing when no rule matches.  *)
Reread(i, added, onb) == RereadAs(i, Sides(rows[i].text, added, onb))

AlreadySo(u) ==
    /\ u.type = rows[u.row].type
    /\ u.old = rows[u.row].old
    /\ u.new = rows[u.row].new

PassStep(acc, i, onb) ==
    LET read == Reread(i, acc.added, onb)
    IN [added |-> acc.added \cup ({u.new : u \in read} \ {Null}),
        todo |-> acc.todo \o SetToSeq({u \in read : ~AlreadySo(u)})]

(* What is known and to be written once n rows of the order are read. *)
Reading(gains, order, onb) ==
    LET read[n \in 0..Len(order)] ==
            IF n = 0 THEN [added |-> gains, todo |-> <<>>]
            ELSE PassStep(read[n - 1], order[n], onb)
    IN read

UpdatesFrom(gains, order, onb) == Reading(gains, order, onb)[Len(order)].todo

UpdatesFromAllGains(order, onb) == UpdatesFrom(GainsOnRecord, order, onb)

UpdatesFromOnboardings(order, onb) == UpdatesFrom(LiveGainsOrOnboardings, order, onb)

Updates(order, onb) == UpdatesFrom(LiveGains, order, onb)

StartPass ==
    /\ req.pc = "idle"
    /\ passes < MaxPasses
    /\ passes' = passes + 1
    /\ \E order \in PassOrders, onb \in OnboardingChoices :
          req' = [IdleRequest EXCEPT !.pc = "pass", !.todo = Updates(order, onb)]
    /\ settled' = "reading"
    /\ UNCHANGED <<db, uploads, items, edits, faults, won, disturbed>>

(* One transaction of BatchSize updates. *)
ApplyBatch ==
    LET n == IF Len(req.todo) < BatchSize THEN Len(req.todo) ELSE BatchSize
        batch == {req.todo[i] : i \in 1 .. n}
    IN /\ req.pc = "pass"
       /\ req.todo # <<>>
       /\ rows' = [i \in DOMAIN rows |->
            IF \E u \in batch : u.row = i
            THEN LET u == CHOOSE v \in batch : v.row = i
                 IN [rows[i] EXCEPT !.type = u.type, !.old = u.old, !.new = u.new]
            ELSE rows[i]]
       /\ req' = [req EXCEPT !.todo = SubSeq(@, n + 1, Len(@))]
       /\ disturbed' = TRUE
       /\ UNCHANGED <<loaded, current, known, bounds, won, settled>>

FinishPass ==
    /\ req.pc = "pass"
    /\ req.todo = <<>>
    /\ req' = IdleRequest
    /\ settled' = IF settled = "reading" THEN "yes" ELSE settled
    /\ UNCHANGED <<db, bounds, won, disturbed>>

(* The request dies between two queries, of a crash or of a query that throws; *)
(* the rest of its work is lost.                                              *)
RequestDies ==
    /\ req.pc # "idle"
    /\ faults < MaxFaults
    /\ faults' = faults + 1
    /\ req' = IdleRequest
    /\ won' = {}
    /\ settled' = "no"
    /\ UNCHANGED <<db, uploads, items, passes, edits, disturbed>>

-----------------------------------------------------------------------------
(* The corrections an admin makes.                                            *)

Correct ==
    /\ edits < MaxEdits
    /\ edits' = edits + 1
    /\ disturbed' = TRUE
    /\ settled' = "no"
    /\ UNCHANGED <<loaded, current, req, uploads, items, passes, faults, won>>

(* An alias is added to a provider, or the provider's last one is removed. *)
ToggleAlias(p) ==
    /\ Correct
    /\ known' = IF p \in known THEN known \ {p} ELSE known \cup {p}
    /\ UNCHANGED rows

(* reclassify: the type, the flag when the dialog sends one, and nothing else. *)
Review(i, type, onboarding) ==
    /\ req.pc = "idle"
    /\ Correct
    /\ rows' = [rows EXCEPT ![i].type = type, ![i].onboarding = onboarding,
                            ![i].reviewed = TRUE]
    /\ UNCHANGED known

(* The UPDATE matches something only when the MNO's earliest live row is of    *)
(* this service.                                                              *)
ReprocessOnboarding ==
    LET live == {i \in DOMAIN rows : rows[i].source = "LIVE"}
        first == {i \in live : \A j \in live : rows[i].day <= rows[j].day}
        flagged == {i \in first : rows[i].type = "ADDED" /\ ~rows[i].onboarding}
    IN /\ req.pc = "idle"
       /\ flagged # {}
       /\ Correct
       /\ rows' = [i \in DOMAIN rows |->
                     IF i \in flagged THEN [rows[i] EXCEPT !.onboarding = TRUE]
                     ELSE rows[i]]
       /\ UNCHANGED known

-----------------------------------------------------------------------------
Next ==
    \/ \E d \in Provider \cup {Unmapped, Undeclared}, replace \in BOOLEAN, day \in Day :
          BeginFile(d, replace, day)
    \/ \E onb \in Holder : ReadRows(onb)
    \/ \E t \in Text, day \in Day : RecordItem(t, day)
    \/ \E t \in Text, day \in Day : SkipItem(t, day)
    \/ FinishFile
    \/ StartPass
    \/ ApplyBatch
    \/ FinishPass
    \/ RequestDies
    \/ \E p \in Provider : ToggleAlias(p)
    \/ \E i \in DOMAIN rows, type \in ChangeTypes, onboarding \in BOOLEAN :
          Review(i, type, onboarding)
    \/ ReprocessOnboarding

Spec == Init /\ [][Next]_vars

-----------------------------------------------------------------------------
(* Properties. *)

(* Every variable has its type. *)
TypeOK ==
    /\ loaded \in BOOLEAN /\ current \in Holder /\ known \subseteq Provider
    /\ rows \in Seq(Row)
    /\ req.pc \in {"idle", "read", "items", "pass"}
    /\ req.added \subseteq Provider /\ req.onb \in Holder
    /\ req.done \subseteq Text \X Day
    /\ req.todo \in Seq(Update)
    /\ \A i \in DOMAIN req.todo : req.todo[i].row \in HistoryRows
    /\ {uploads, items, passes, edits, faults} \subseteq Nat
    /\ won \subseteq Provider /\ disturbed \in BOOLEAN
    /\ settled \in {"no", "reading", "yes"}

Inserted == DOMAIN rows' \ DOMAIN rows

(* "Exact-dedup": an entry is never stored under the type, sides and day of a  *)
(* row already there, whatever rows this or earlier files and admins left.     *)
InsertsAreNew ==
    [][\A i \in Inserted : rows'[i].source = "HISTORY" =>
          \A j \in DOMAIN rows : DedupKey(rows[j]) # DedupKey(rows'[i])]_vars

(* "the addition is never counted twice": an entry that stores the winner its  *)
(* own text names stores it only when no counted row of the group, of either   *)
(* source, already gains it.                                                   *)
NamedGainOnce ==
    [][\A i \in Inserted :
          /\ rows'[i].source = "HISTORY"
          /\ rows'[i].new # Null
          /\ rows'[i].new = rows'[i].text.new
          /\ rows'[i].new # req.onb
          => \A j \in DOMAIN rows : ~Gains(rows[j], rows'[i].new)]_vars

(* While a file is in the loop, each win its swaps named is credited by a      *)
(* counted row: dedup, stripping and pairing together never leave the win to   *)
(* an onboarding row, unless an admin flagged it.                              *)
SwapIsCredited ==
    req.pc = "items" =>
        \A p \in won : \E i \in DOMAIN rows :
            Gains(rows[i], p) \/ (rows[i].new = p /\ rows[i].reviewed)

(* After a pass that read what is there, the same holds of every stored swap.  *)
PassCreditsEveryWin ==
    settled = "yes" =>
        \A i \in HistoryRows :
            LET t == rows[i].text
            IN Resolve(t.old) # Null /\ Resolve(t.new) # Null
               => \E j \in DOMAIN rows : Gains(rows[j], t.new)
                                          \/ (rows[j].new = t.new /\ rows[j].reviewed)

Dated == \A i, j \in HistoryRows : i # j => rows[i].day # rows[j].day

(* "Idempotent and safe to re-run": after a pass, whole or resumed after one   *)
(* that died between batches, a second one has nothing to write, when dates    *)
(* decide its order and one onboarding row its pairing.                        *)
SecondPassIsSilent ==
    settled = "yes" /\ Dated /\ Cardinality(OnboardingChoices) = 1 =>
        \A order \in PassOrders, onb \in OnboardingChoices : Updates(order, onb) = <<>>

(* The pass "mirrors" ingestion: rows that uploads alone have written, in the  *)
(* order of their dates and after the live rows, are what a pass makes of them. *)
FreshHistoryIsStable ==
    /\ ~disturbed
    /\ Dated
    /\ \A i, j \in DOMAIN rows :
          rows[j].source = "HISTORY" /\ i < j
            => rows[i].source = "LIVE" \/ rows[i].day < rows[j].day
    /\ \A i \in DOMAIN rows, j \in HistoryRows : rows[i].source = "LIVE" => i < j
    /\ Cardinality(OnboardingChoices) = 1
    => \A order \in PassOrders, onb \in OnboardingChoices : Updates(order, onb) = <<>>

(* "never re-inserts the same event twice", upload.service.ts:1092.  *)
OneRowPerEntry ==
    ~disturbed => \A i, j \in HistoryRows :
        i # j => <<rows[i].text, rows[i].day>> # <<rows[j].text, rows[j].day>>

GainingRows(p) == {i \in DOMAIN rows : Gains(rows[i], p)}

(* "a reclassified addition can't suddenly double-count a gain a live-diff row *)
(* (or an earlier history entry) already recorded", upload.service.ts:1307:    *)
(* where dates decide its order, a pass never turns one gain of a provider     *)
(* into two.                                                                   *)
PassCountsGainOnce ==
    [][req.pc = "pass" /\ Dated =>
          \A p \in Provider :
              Cardinality(GainingRows(p)) <= 1 => Cardinality(GainingRows(p)') <= 1]_vars

=============================================================================
