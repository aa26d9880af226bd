--------------------------- MODULE WebClientProofs ---------------------------
(***************************************************************************)
(* What the browser tabs of WebClient guarantee, for any number of tabs,    *)
(* searches, archives and other administrators, and any order of answers    *)
(* and faults.  To the accounts every step of theirs is a sign-up or        *)
(* nothing; the batches of an upload add up to its archive and keep every   *)
(* XML file with its PDF; and the search page shows the search of its URL.  *)
(*                                                                         *)
(* A step is about the upload, or about the search, or about neither        *)
(* (StepIsAboutOne), so that each invariant is proved of a handful of       *)
(* actions only.                                                            *)
(***************************************************************************)
EXTENDS WebClient, AccountsProofs, InductionLemmas

-----------------------------------------------------------------------------
(* The browser and the accounts together. *)

LEMMA LoginKeepsAccounts ==
    ASSUME NEW t \in Tabs, NEW u \in Users, NEW how, Login(t, u, how)
    PROVE  [AccountNext]_accountVars
  BY DEF Login, AnswerLogin, AccountNext

LEMMA TabsKeepAccounts ==
    ASSUME NEW t \in Tabs, Person(t) \/ Refresh(t) \/ SendFirst(t) \/ ServeBatch(t)
                            \/ Answer(t) \/ LoseCall(t)
    PROVE  [AccountNext]_accountVars
<1>1. CASE Person(t)
    <2>1. CASE \E u \in Users, how \in {"password", "wrong", "microsoft"} : Login(t, u, how)
        BY <2>1, LoginKeepsAccounts
    <2>2. CASE Logout(t) \/ Reload(t)
        BY <2>2 DEF Logout, Reload
    <2>3. CASE \E s \in Slots, q \in Searches : Search(t, s, q)
        BY <2>3 DEF Search
    <2>4. CASE \E archive \in Archives, replace \in BOOLEAN : StartUpload(t, archive, replace)
        BY <2>4 DEF StartUpload
    <2> QED
        BY <1>1, <2>1, <2>2, <2>3, <2>4 DEF Person
<1>2. CASE Refresh(t) \/ SendFirst(t)
    BY <1>2 DEF Refresh, SendFirst
<1>3. CASE ServeBatch(t)
    BY <1>3 DEF ServeBatch
<1>4. CASE Answer(t)
    <2>1. CASE DeliverLogin(t) \/ DeliverRefresh(t)
        BY <2>1 DEF DeliverLogin, DeliverRefresh, Deliver
    <2>2. CASE DeliverBatch(t)
        BY <2>2 DEF DeliverBatch
    <2>3. CASE \E s \in Slots : DeliverFind(t, s)
        BY <2>3 DEF DeliverFind
    <2> QED
        BY <1>4, <2>1, <2>2, <2>3 DEF Answer
<1>5. CASE LoseCall(t)
    BY <1>5 DEF LoseCall
<1> QED
    BY <1>1, <1>2, <1>3, <1>4, <1>5

LEMMA ClientStep == [Next]_vars => [AccountNext]_accountVars
<1> SUFFICES ASSUME [Next]_vars PROVE [AccountNext]_accountVars
    OBVIOUS
<1>1. CASE UNCHANGED vars
    BY <1>1 DEF vars
<1>2. CASE OtherAdmins
    BY <1>2 DEF OtherAdmins, AccountNext
<1>3. CASE OtherUpload \/ Tick
    BY <1>3 DEF OtherUpload, Tick
<1> QED
    BY <1>1, <1>2, <1>3, TabsKeepAccounts DEF Next

(* Seen from the accounts, the whole system of tabs, sign-ins, uploads and  *)
(* faults is the account module: it only ever signs somebody up or lets an  *)
(* administration request advance.                                          *)
THEOREM ClientImplementsAccounts == Safety => AccountSpec
<1>1. Init => AccountInit
    BY DEF Init
<1> QED
    BY <1>1, ClientStep, PTL DEF Safety, AccountSpec

(* The invariant of the run, for every instance of the whole system.        *)
THEOREM AdminRemainsWithClients == Spec => []AdminRemains
<1>1. Spec => Safety
    BY DEF Spec
<1> QED
    BY <1>1, ClientImplementsAccounts, AnAdminRemains

-----------------------------------------------------------------------------
(* How an archive is cut.                                                   *)

FilesOf(archive) == {archive[i] : i \in DOMAIN archive}

\* `find` stops at the first place there is.
LEMMA FirstOfPlaces ==
    ASSUME NEW places \in SUBSET Nat, places # {}
    PROVE  FirstOf(places) \in places /\ \A j \in places : FirstOf(places) <= j
<1>1. PICK e \in places : TRUE
    OBVIOUS
<1>2. \E i \in places : \A j \in places : i <= j
    BY <1>1, LeastNatural
<1>3. PICK f : f = FirstOf(places)
    OBVIOUS
<1> QED
    BY <1>2, <1>3 DEF FirstOf

LEMMA PlacesOfFiles ==
    ASSUME NEW S, NEW files \in Seq(S), NEW tadig, NEW used
    PROVE  PdfsWith(files, tadig, used) \in SUBSET Nat
  BY DEF PdfsWith

\* The PDF the server finds for a TADIG in the archive as a whole.
WholeMatch(archive, tadig) == archive[FirstOf(PdfsWith(archive, tadig, {}))]

\* The XML files whose pairing the split must keep.
OneMention(archive) == \A i \in DOMAIN archive : \A a, b \in archive[i].mentions : a = b
Clean(archive, xml) == Pairable(archive, xml) /\ OneMention(archive)

Alone(archive, g, x) ==
    /\ g = <<x>> /\ x.kind = "xml"
    /\ Clean(archive, x) => PdfsWith(archive, x.tadig, {}) = {}

Paired(archive, g, x, p) ==
    /\ g = <<x, p>> /\ x.kind = "xml" /\ p.kind = "pdf" /\ x.word \in p.mentions
    /\ Clean(archive, x) => p = WholeMatch(archive, x.tadig)

XmlGroup(archive, g) ==
    \E x \in FilesOf(archive) :
        Alone(archive, g, x) \/ \E p \in FilesOf(archive) : Paired(archive, g, x, p)

PdfGroup(archive, g) == \E p \in FilesOf(archive) : g = <<p>> /\ p.kind = "pdf"

\* Some sequence of the collection has the file.
Holds(seqs, file) == \E k \in DOMAIN seqs : \E m \in DOMAIN seqs[k] : seqs[k][m] = file

\* Once n files are read: the groups are right, a PDF is taken by an XML file
\* that names it, and nothing is left out.
PairedUpTo(archive, acc, n) ==
    /\ \A k \in DOMAIN acc.groups : XmlGroup(archive, acc.groups[k])
    /\ \A i \in DOMAIN archive : archive[i].kind = "pdf" /\ archive[i].name \in acc.used =>
          /\ Holds(acc.groups, archive[i])
          /\ \E m \in 1..n : archive[m].kind = "xml" /\ archive[m].word \in archive[i].mentions
    /\ \A m \in 1..n : archive[m].kind = "xml" => Holds(acc.groups, archive[m])

PairStates(archive) ==
    [groups : Seq(Seq(FilesOf(archive))), used : SUBSET {f.name : f \in FilesOf(archive)}]

LEMMA HoldsAppend ==
    ASSUME NEW S, NEW seqs \in Seq(Seq(S)), NEW g \in Seq(S)
    PROVE  /\ \A f : Holds(seqs, f) => Holds(Append(seqs, g), f)
           /\ \A m \in DOMAIN g : Holds(Append(seqs, g), g[m])
<1>1. PICK n : n = Len(seqs)
    OBVIOUS
<1>2. PICK a : a = Append(seqs, g)
    OBVIOUS
<1>3. /\ n \in Nat /\ DOMAIN seqs = 1..n /\ DOMAIN a = 1..(n + 1)
      /\ \A k \in 1..n : a[k] = seqs[k]
      /\ a[n + 1] = g
    BY <1>1, <1>2
<1>4. n + 1 \in DOMAIN a /\ \A k \in 1..n : k \in DOMAIN a
    BY <1>3
<1>5. ASSUME NEW f, Holds(seqs, f) PROVE Holds(a, f)
    <2>1. PICK k \in 1..n : \E m \in DOMAIN seqs[k] : seqs[k][m] = f
        BY <1>3, <1>5 DEF Holds
    <2>2. a[k] = seqs[k] /\ k \in DOMAIN a
        BY <1>3, <1>4
    <2> QED
        BY <2>1, <2>2 DEF Holds
<1>6. ASSUME NEW m \in DOMAIN g PROVE Holds(a, g[m])
    BY <1>3, <1>4, <1>6 DEF Holds
<1> QED
    BY <1>2, <1>5, <1>6

\* One more file read.
LEMMA PairFileStates ==
    ASSUME NEW archive, IsArchive(archive), NEW acc \in PairStates(archive), NEW n \in DOMAIN archive
    PROVE  PairFile(archive, acc, archive[n]) \in PairStates(archive)
<1>1. PICK F : F = FilesOf(archive)
    OBVIOUS
<1>2. archive \in Seq(F) /\ archive[n] \in F
    BY <1>1 DEF IsArchive, FilesOf
<1>3. PICK file : file = archive[n]
    OBVIOUS
<1>4. PICK found : found = PdfsWith(archive, file.word, acc.used)
    OBVIOUS
<1>5. PICK pdf : pdf = archive[FirstOf(found)]
    OBVIOUS
<1>6. /\ acc.groups \in Seq(Seq(F)) /\ acc.used \in SUBSET {f.name : f \in F}
      /\ acc = [groups |-> acc.groups, used |-> acc.used]
    BY <1>1 DEF PairStates
<1>7. CASE file.kind # "xml"
    BY <1>3, <1>4, <1>5, <1>7 DEF PairFile
<1>8. CASE file.kind = "xml" /\ found = {}
    <2>1. PICK groups : groups = Append(acc.groups, <<file>>)
        OBVIOUS
    <2>2. <<file>> \in Seq(F)
        BY <1>2, <1>3
    <2>3. groups \in Seq(Seq(F))
        BY <1>6, <2>1, <2>2
    <2>4. PairFile(archive, acc, file) = [acc EXCEPT !.groups = groups]
        BY <1>4, <1>8, <2>1 DEF PairFile
    <2> QED
        BY <1>1, <1>3, <1>6, <2>3, <2>4 DEF PairStates
<1>9. CASE file.kind = "xml" /\ found # {}
    <2>1. pdf \in F
        <3>1. found \in SUBSET Nat
            BY <1>2, <1>4, PlacesOfFiles
        <3>2. FirstOf(found) \in found
            BY <1>9, <3>1, FirstOfPlaces
        <3>3. FirstOf(found) \in DOMAIN archive
            BY <1>4, <3>2 DEF PdfsWith
        <3> QED
            BY <1>1, <1>5, <3>3 DEF FilesOf
    <2>2. PICK groups : groups = Append(acc.groups, <<file, pdf>>)
        OBVIOUS
    <2>3. <<file, pdf>> \in Seq(F)
        BY <1>2, <1>3, <2>1
    <2>4. groups \in Seq(Seq(F))
        BY <1>6, <2>2, <2>3
    <2>5. PICK used : used = acc.used \cup {pdf.name}
        OBVIOUS
    <2>6. used \in SUBSET {f.name : f \in F}
        BY <1>6, <2>1, <2>5
    <2>7. PairFile(archive, acc, file) = [groups |-> groups, used |-> used]
        BY <1>4, <1>5, <1>9, <2>2, <2>5 DEF PairFile
    <2> QED
        BY <1>1, <1>3, <2>4, <2>6, <2>7 DEF PairStates
<1> QED
    BY <1>3, <1>7, <1>8, <1>9

LEMMA PairFileStep ==
    ASSUME NEW archive, IsArchive(archive), NEW acc \in PairStates(archive),
           NEW n \in Nat, n + 1 \in DOMAIN archive, PairedUpTo(archive, acc, n)
    PROVE  PairedUpTo(archive, PairFile(archive, acc, archive[n + 1]), n + 1)
<1>1. PICK F : F = FilesOf(archive)
    OBVIOUS
<1>2. archive \in Seq(F) /\ \A i \in DOMAIN archive : archive[i] \in F
    BY <1>1 DEF IsArchive, FilesOf
<1>3. PICK file : file = archive[n + 1]
    OBVIOUS
<1>4. PICK found : found = PdfsWith(archive, file.word, acc.used)
    OBVIOUS
<1>5. PICK pdf : pdf = archive[FirstOf(found)]
    OBVIOUS
<1>6. acc.groups \in Seq(Seq(F)) /\ acc = [groups |-> acc.groups, used |-> acc.used]
    BY <1>1 DEF PairStates
<1>7. file \in F
    BY <1>2, <1>3
<1>8. 1..(n + 1) = (1..n) \cup {n + 1}
    OBVIOUS
\* Nobody takes a PDF of the TADIG of a file to be paired before it comes.
<1>9. ASSUME file.kind = "xml", Clean(archive, file)
      PROVE  found = PdfsWith(archive, file.tadig, {})
    <2>1. file.word = file.tadig
        BY <1>9 DEF Clean, Pairable
    <2>2. ASSUME NEW i \in DOMAIN archive, archive[i].kind = "pdf",
                 file.tadig \in archive[i].mentions, archive[i].name \in acc.used
          PROVE  FALSE
        <3>1. PICK m \in 1..n : archive[m].kind = "xml" /\ archive[m].word \in archive[i].mentions
            BY <2>2 DEF PairedUpTo
        <3>2. archive[m].word = file.tadig
            BY <1>9, <2>2, <3>1 DEF Clean, OneMention
        <3>3. m \in DOMAIN archive /\ m # n + 1
            BY <1>2
        <3>4. archive[m] # file
            BY <1>3, <3>3 DEF IsArchive
        <3>5. archive[m] \in {archive[k] : k \in DOMAIN archive} \ {file}
            BY <3>3, <3>4
        <3> QED
            BY <1>9, <3>2, <3>5 DEF Clean, Pairable
    <2> QED
        BY <1>4, <2>1, <2>2 DEF PdfsWith
<1>10. ASSUME NEW g \in Seq(F), XmlGroup(archive, g), NEW new, new.groups = Append(acc.groups, g)
       PROVE  /\ \A k \in DOMAIN new.groups : XmlGroup(archive, new.groups[k])
              /\ \A f : Holds(acc.groups, f) => Holds(new.groups, f)
              /\ \A m \in DOMAIN g : Holds(new.groups, g[m])
    <2>1. \A k \in DOMAIN new.groups : new.groups[k] = g \/
             (k \in DOMAIN acc.groups /\ new.groups[k] = acc.groups[k])
        BY <1>6, <1>10
    <2>2. \A k \in DOMAIN new.groups : XmlGroup(archive, new.groups[k])
        BY <1>10, <2>1 DEF PairedUpTo
    <2> QED
        BY <1>6, <1>10, <2>2, HoldsAppend
<1>11. CASE file.kind # "xml"
    <2>1. PairFile(archive, acc, file) = acc
        BY <1>11 DEF PairFile
    <2> QED
        BY <1>3, <1>8, <1>11, <2>1 DEF PairedUpTo
<1>12. CASE file.kind = "xml" /\ found = {}
    <2>1. PICK new : new = [acc EXCEPT !.groups = Append(@, <<file>>)]
        OBVIOUS
    <2>2. new.groups = Append(acc.groups, <<file>>) /\ new.used = acc.used
        BY <1>6, <2>1
    <2>3. Alone(archive, <<file>>, file)
        BY <1>9, <1>12 DEF Alone
    <2>4. XmlGroup(archive, <<file>>) /\ <<file>> \in Seq(F)
        BY <1>1, <1>7, <2>3 DEF XmlGroup
    <2>5. /\ \A k \in DOMAIN new.groups : XmlGroup(archive, new.groups[k])
          /\ \A f : Holds(acc.groups, f) => Holds(new.groups, f)
          /\ Holds(new.groups, file)
        <3>1. 1 \in DOMAIN <<file>> /\ <<file>>[1] = file
            OBVIOUS
        <3> QED
            BY <1>10, <2>2, <2>4, <3>1
    <2>6. PairFile(archive, acc, file) = new
        BY <1>4, <1>12, <2>1 DEF PairFile
    <2> QED
        BY <1>3, <1>8, <2>2, <2>5, <2>6 DEF PairedUpTo
<1>13. CASE file.kind = "xml" /\ found # {}
    <2>1. PICK new : new = [groups |-> Append(acc.groups, <<file, pdf>>),
                            used |-> acc.used \cup {pdf.name}]
        OBVIOUS
    <2>2. new.groups = Append(acc.groups, <<file, pdf>>) /\ new.used = acc.used \cup {pdf.name}
        BY <2>1
    <2>3. PICK e : e = FirstOf(found)
        OBVIOUS
    <2>4. e \in found
        <3>1. found \in SUBSET Nat
            BY <1>2, <1>4, PlacesOfFiles
        <3> QED
            BY <1>13, <2>3, <3>1, FirstOfPlaces
    <2>5. /\ e \in DOMAIN archive /\ pdf = archive[e] /\ pdf \in F
          /\ pdf.kind = "pdf" /\ file.word \in pdf.mentions
        BY <1>2, <1>4, <1>5, <2>3, <2>4 DEF PdfsWith
    <2>6. Paired(archive, <<file, pdf>>, file, pdf)
        BY <1>5, <1>9, <1>13, <2>5 DEF Paired, WholeMatch
    <2>7. XmlGroup(archive, <<file, pdf>>) /\ <<file, pdf>> \in Seq(F)
        BY <1>1, <1>7, <2>5, <2>6 DEF XmlGroup
    <2>8. /\ \A k \in DOMAIN new.groups : XmlGroup(archive, new.groups[k])
          /\ \A f : Holds(acc.groups, f) => Holds(new.groups, f)
          /\ Holds(new.groups, file) /\ Holds(new.groups, pdf)
        <3>1. /\ 1 \in DOMAIN <<file, pdf>> /\ <<file, pdf>>[1] = file
              /\ 2 \in DOMAIN <<file, pdf>> /\ <<file, pdf>>[2] = pdf
            OBVIOUS
        <3> QED
            BY <1>10, <2>2, <2>7, <3>1
    <2>9. PairFile(archive, acc, file) = new
        BY <1>4, <1>5, <1>13, <2>1 DEF PairFile
    <2>10. ASSUME NEW i \in DOMAIN archive, archive[i].kind = "pdf", archive[i].name \in new.used
           PROVE  /\ Holds(new.groups, archive[i])
                  /\ \E m \in 1..(n + 1) :
                        archive[m].kind = "xml" /\ archive[m].word \in archive[i].mentions
        <3>1. CASE archive[i].name \in acc.used
            BY <1>8, <2>8, <2>10, <3>1 DEF PairedUpTo
        <3>2. CASE archive[i].name = pdf.name
            <4>1. i = e
                BY <2>5, <3>2 DEF IsArchive
            <4> QED
                BY <1>3, <1>8, <1>13, <2>5, <2>8, <4>1
        <3> QED
            BY <2>2, <2>10, <3>1, <3>2
    <2>11. ASSUME NEW m \in 1..(n + 1), archive[m].kind = "xml" PROVE Holds(new.groups, archive[m])
        BY <1>3, <1>8, <2>8, <2>11 DEF PairedUpTo
    <2> QED
        BY <1>3, <2>8, <2>9, <2>10, <2>11 DEF PairedUpTo
<1> QED
    BY <1>11, <1>12, <1>13

\* Reading the archive from its first file to its last.
LEMMA PairingRecursion ==
    ASSUME NEW archive, IsArchive(archive)
    PROVE  /\ Len(archive) \in Nat /\ DOMAIN archive = 1..Len(archive)
           /\ Pairing(archive)[0] = [groups |-> <<>>, used |-> {}]
           /\ \A n \in 1..Len(archive) :
                Pairing(archive)[n] = PairFile(archive, Pairing(archive)[n - 1], archive[n])
<1> DEFINE X == PairStates(archive)
           base == [groups |-> <<>>, used |-> {}]
           P(h) == h = [n \in 0..Len(archive) |->
                          IF n = 0 THEN base ELSE PairFile(archive, h[n - 1], archive[n])]
<1>1. PICK N : N = Len(archive)
    OBVIOUS
<1>2. N \in Nat /\ DOMAIN archive = 1..N
    BY <1>1 DEF IsArchive
<1>3. base \in X
    BY DEF PairStates
<1>4. PICK st : st = [n \in 1..N |-> [acc \in X |-> PairFile(archive, acc, archive[n])]]
    OBVIOUS
<1>5. st \in [1..N -> [X -> X]]
    BY <1>2, <1>4, PairFileStates
<1>6. PICK g : Recursion(g, X, base, N, st)
    <2> HIDE DEF base, X
    <2> QED
        BY <1>2, <1>3, <1>5, RecursionSolvable
<1>7. P(g)
    <2>1. g \in [0..N -> X] /\ g[0] = base /\ \A n \in 1..N : g[n] = st[n][g[n - 1]]
        <3> HIDE DEF base, X
        <3> QED
            BY <1>6 DEF Recursion
    <2>2. ASSUME NEW n \in 1..N PROVE g[n] = PairFile(archive, g[n - 1], archive[n])
        <3>1. n - 1 \in 0..N
            BY <1>2
        <3>2. g[n - 1] \in X
            BY <2>1, <3>1
        <3> QED
            BY <1>4, <2>1, <3>2
    <2>3. ASSUME NEW n \in 0..N
          PROVE  g[n] = IF n = 0 THEN base ELSE PairFile(archive, g[n - 1], archive[n])
        <3>1. n = 0 \/ n \in 1..N
            BY <1>2
        <3> QED
            BY <2>1, <2>2, <3>1
    <2> QED
        BY <1>1, <2>1, <2>3
<1>8. Pairing(archive) = CHOOSE h : P(h)
    BY DEF Pairing
<1>9. P(CHOOSE h : P(h))
    <2> HIDE DEF P
    <2> QED
        BY <1>7
<1>10. PICK r : r = Pairing(archive)
    OBVIOUS
<1>11. P(r)
    BY <1>8, <1>9, <1>10
<1>12. r[0] = base
    <2>1. 0 \in 0..Len(archive)
        BY <1>1, <1>2
    <2> HIDE DEF base
    <2> QED
        BY <1>11, <2>1
<1>13. ASSUME NEW n \in 1..Len(archive) PROVE r[n] = PairFile(archive, r[n - 1], archive[n])
    <2>1. n \in 0..Len(archive) /\ n # 0
        BY <1>1, <1>2
    <2> HIDE DEF base
    <2> QED
        BY <1>11, <2>1
<1> QED
    BY <1>1, <1>2, <1>10, <1>12, <1>13

LEMMA PairUpPairs ==
    ASSUME NEW archive, IsArchive(archive)
    PROVE  /\ PairUp(archive) \in PairStates(archive)
           /\ PairedUpTo(archive, PairUp(archive), Len(archive))
<1>1. PICK r : r = Pairing(archive)
    OBVIOUS
<1>2. PICK N : N = Len(archive)
    OBVIOUS
<1>3. /\ N \in Nat /\ DOMAIN archive = 1..N
      /\ r[0] = [groups |-> <<>>, used |-> {}]
      /\ \A n \in 1..N : r[n] = PairFile(archive, r[n - 1], archive[n])
    BY <1>1, <1>2, PairingRecursion
<1> DEFINE S == {n \in 0..N : r[n] \in PairStates(archive) /\ PairedUpTo(archive, r[n], n)}
<1>4. 0 \in S
    <2>1. r[0] \in PairStates(archive)
        BY <1>3 DEF PairStates
    <2>2. r[0].groups = <<>> /\ r[0].used = {} /\ 1..0 = {}
        BY <1>3
    <2>3. PairedUpTo(archive, r[0], 0)
        BY <2>2 DEF PairedUpTo
    <2> QED
        BY <1>3, <2>1, <2>3
<1>5. ASSUME NEW n \in 0..N, n \in S /\ n < N PROVE n + 1 \in S
    <2>1. n \in Nat /\ n + 1 \in 1..N /\ (n + 1) - 1 = n /\ n + 1 \in 0..N
        BY <1>3, <1>5
    <2>2. r[n + 1] = PairFile(archive, r[n], archive[n + 1])
        BY <1>3, <2>1
    <2>3. r[n] \in PairStates(archive) /\ PairedUpTo(archive, r[n], n)
        BY <1>5
    <2> QED
        BY <1>3, <2>1, <2>2, <2>3, PairFileStates, PairFileStep
<1>6. 0..N \subseteq S
    <2> HIDE DEF S
    <2> QED
        BY <1>3, <1>4, <1>5, InductionUpTo
<1>7. N \in S
    BY <1>3, <1>6
<1> QED
    BY <1>1, <1>2, <1>7 DEF PairUp

\* The groups: those of the XML files, then the PDFs on their own.
Grouped(archive, groups) ==
    /\ groups \in Seq(Seq(FilesOf(archive)))
    /\ \A k \in DOMAIN groups : XmlGroup(archive, groups[k]) \/ PdfGroup(archive, groups[k])
    /\ \A k, l \in DOMAIN groups :
          k < l /\ XmlGroup(archive, groups[l]) => XmlGroup(archive, groups[k])

GroupedUpTo(archive, groups, n) ==
    /\ Grouped(archive, groups)
    /\ \A i \in DOMAIN archive :
          \/ archive[i].kind = "xml"
          \/ archive[i].kind = "pdf" /\ (archive[i].name \in PairUp(archive).used \/ i <= n)
          => Holds(groups, archive[i])

LEMMA GroupsDiffer ==
    ASSUME NEW archive, NEW g
    PROVE  ~(XmlGroup(archive, g) /\ PdfGroup(archive, g))
  BY DEF XmlGroup, PdfGroup, Alone, Paired

LEMMA AddAloneStep ==
    ASSUME NEW archive, IsArchive(archive), NEW groups, NEW n \in Nat, n + 1 \in DOMAIN archive,
           GroupedUpTo(archive, groups, n)
    PROVE  GroupedUpTo(archive, AddAlone(groups, PairUp(archive).used, archive[n + 1]), n + 1)
<1>1. PICK F : F = FilesOf(archive)
    OBVIOUS
<1>2. PICK file : file = archive[n + 1]
    OBVIOUS
<1>3. PICK used : used = PairUp(archive).used
    OBVIOUS
<1>4. file \in F /\ groups \in Seq(Seq(F)) /\ DOMAIN archive \subseteq Nat
    BY <1>1, <1>2 DEF FilesOf, GroupedUpTo, Grouped, IsArchive
<1>5. PICK new : new = AddAlone(groups, used, file)
    OBVIOUS
<1>6. \A i \in DOMAIN archive : i <= n + 1 => i <= n \/ i = n + 1
    BY <1>4
<1>7. CASE file.kind = "pdf" /\ file.name \notin used
    <2>1. PICK g : g = <<file>>
        OBVIOUS
    <2>2. new = Append(groups, g) /\ g \in Seq(F)
        BY <1>4, <1>5, <1>7, <2>1 DEF AddAlone
    <2>3. PdfGroup(archive, g) /\ ~XmlGroup(archive, g)
        BY <1>1, <1>4, <1>7, <2>1, GroupsDiffer DEF PdfGroup
    <2>4. PICK N : N = Len(groups)
        OBVIOUS
    <2>5. /\ N \in Nat /\ DOMAIN groups = 1..N /\ DOMAIN new = 1..(N + 1)
          /\ new \in Seq(Seq(F)) /\ new[N + 1] = g /\ \A k \in 1..N : new[k] = groups[k]
        BY <1>4, <2>2, <2>4
    <2>6. \A k \in 1..(N + 1) : k \in 1..N \/ k = N + 1
        BY <2>5
    <2>7. Grouped(archive, new)
        <3>1. \A k \in DOMAIN new : XmlGroup(archive, new[k]) \/ PdfGroup(archive, new[k])
            BY <2>3, <2>5, <2>6 DEF GroupedUpTo, Grouped
        <3>2. ASSUME NEW k \in DOMAIN new, NEW l \in DOMAIN new, k < l, XmlGroup(archive, new[l])
              PROVE  XmlGroup(archive, new[k])
            <4>1. l \in 1..N
                BY <2>3, <2>5, <2>6, <3>2
            <4>2. k \in 1..N
                BY <2>5, <3>2, <4>1
            <4> QED
                BY <2>5, <3>2, <4>1, <4>2 DEF GroupedUpTo, Grouped
        <3> QED
            BY <1>1, <2>5, <3>1, <3>2 DEF Grouped
    <2>8. \A f : Holds(groups, f) => Holds(new, f)
        BY <1>4, <2>2, HoldsAppend
    <2>9. Holds(new, file)
        <3>1. 1 \in DOMAIN g /\ g[1] = file
            BY <2>1
        <3> QED
            BY <1>4, <2>2, <3>1, HoldsAppend
    <2> QED
        BY <1>2, <1>3, <1>5, <1>6, <2>7, <2>8, <2>9 DEF GroupedUpTo
<1>8. CASE ~(file.kind = "pdf" /\ file.name \notin used)
    <2>1. new = groups
        BY <1>5, <1>8 DEF AddAlone
    <2> QED
        BY <1>2, <1>3, <1>5, <1>6, <1>8, <2>1 DEF GroupedUpTo
<1> QED
    BY <1>7, <1>8

LEMMA AddingRecursion ==
    ASSUME NEW archive, IsArchive(archive)
    PROVE  /\ Adding(archive)[0] = PairUp(archive).groups
           /\ \A n \in 1..Len(archive) :
                Adding(archive)[n] =
                    AddAlone(Adding(archive)[n - 1], PairUp(archive).used, archive[n])
<1>1. PICK base : base = PairUp(archive).groups
    OBVIOUS
<1>2. PICK used : used = PairUp(archive).used
    OBVIOUS
<1>3. PICK N : N = Len(archive)
    OBVIOUS
<1>4. PICK X : X = Seq(Seq(FilesOf(archive)))
    OBVIOUS
<1> DEFINE P(h) == h = [n \in 0..N |->
                          IF n = 0 THEN base ELSE AddAlone(h[n - 1], used, archive[n])]
<1>5. N \in Nat /\ DOMAIN archive = 1..N /\ base \in X
    BY <1>1, <1>3, <1>4, PairingRecursion, PairUpPairs DEF PairStates
<1>6. PICK st : st = [n \in 1..N |-> [acc \in X |-> AddAlone(acc, used, archive[n])]]
    OBVIOUS
<1>7. st \in [1..N -> [X -> X]]
    <2>1. ASSUME NEW n \in 1..N, NEW acc \in X PROVE AddAlone(acc, used, archive[n]) \in X
        <3>1. <<archive[n]>> \in Seq(FilesOf(archive))
            BY <1>5, <2>1 DEF FilesOf
        <3> QED
            BY <1>4, <2>1, <3>1 DEF AddAlone
    <2> QED
        BY <1>6, <2>1
<1>8. PICK g : Recursion(g, X, base, N, st)
    BY <1>5, <1>7, RecursionSolvable
<1>9. P(g)
    <2>1. g \in [0..N -> X] /\ g[0] = base /\ \A n \in 1..N : g[n] = st[n][g[n - 1]]
        BY <1>8 DEF Recursion
    <2>2. ASSUME NEW n \in 1..N PROVE g[n] = AddAlone(g[n - 1], used, archive[n])
        <3>1. n - 1 \in 0..N
            BY <1>5
        <3>2. g[n - 1] \in X
            BY <2>1, <3>1
        <3> QED
            BY <1>6, <2>1, <3>2
    <2>3. ASSUME NEW n \in 0..N
          PROVE  g[n] = IF n = 0 THEN base ELSE AddAlone(g[n - 1], used, archive[n])
        <3>1. n = 0 \/ n \in 1..N
            BY <1>5
        <3> QED
            BY <2>1, <2>2, <3>1
    <2> QED
        BY <2>1, <2>3
<1>10. Adding(archive) = CHOOSE h : P(h)
    BY <1>1, <1>2, <1>3 DEF Adding
<1>11. P(CHOOSE h : P(h))
    <2> HIDE DEF P
    <2> QED
        BY <1>9
<1>12. PICK r : r = Adding(archive)
    OBVIOUS
<1>13. P(r)
    BY <1>10, <1>11, <1>12
<1>14. r[0] = base
    BY <1>5, <1>13
<1>15. ASSUME NEW n \in 1..N PROVE r[n] = AddAlone(r[n - 1], used, archive[n])
    <2>1. n \in 0..N /\ n # 0
        BY <1>5
    <2> QED
        BY <1>13, <2>1
<1> QED
    BY <1>1, <1>2, <1>3, <1>12, <1>14, <1>15

LEMMA GroupsAreRight ==
    ASSUME NEW archive, IsArchive(archive)
    PROVE  /\ Grouped(archive, Groups(archive))
           /\ \A f \in FilesOf(archive) : f.kind \in {"xml", "pdf"} => Holds(Groups(archive), f)
<1>1. PICK r : r = Adding(archive)
    OBVIOUS
<1>2. PICK N : N = Len(archive)
    OBVIOUS
<1>3. PICK pairs : pairs = PairUp(archive)
    OBVIOUS
<1>4. /\ N \in Nat /\ DOMAIN archive = 1..N /\ r[0] = pairs.groups
      /\ \A n \in 1..N : r[n] = AddAlone(r[n - 1], pairs.used, archive[n])
    BY <1>1, <1>2, <1>3, PairingRecursion, AddingRecursion
<1> DEFINE S == {n \in 0..N : GroupedUpTo(archive, r[n], n)}
<1>5. 0 \in S
    <2>1. /\ pairs.groups \in Seq(Seq(FilesOf(archive)))
          /\ PairedUpTo(archive, pairs, N)
        BY <1>2, <1>3, PairUpPairs DEF PairStates
    <2>2. Grouped(archive, pairs.groups)
        BY <2>1 DEF Grouped, PairedUpTo
    <2>3. \A i \in DOMAIN archive : ~(i <= 0)
        BY <1>4
    <2>4. GroupedUpTo(archive, r[0], 0)
        BY <1>3, <1>4, <2>1, <2>2, <2>3 DEF GroupedUpTo, PairedUpTo
    <2> QED
        BY <1>4, <2>4
<1>6. ASSUME NEW n \in 0..N, n \in S /\ n < N PROVE n + 1 \in S
    <2>1. n \in Nat /\ n + 1 \in 1..N /\ (n + 1) - 1 = n /\ n + 1 \in 0..N
        BY <1>4, <1>6
    <2>2. r[n + 1] = AddAlone(r[n], pairs.used, archive[n + 1])
        BY <1>4, <2>1
    <2> QED
        BY <1>3, <1>4, <1>6, <2>1, <2>2, AddAloneStep
<1>7. 0..N \subseteq S
    <2> HIDE DEF S
    <2> QED
        BY <1>4, <1>5, <1>6, InductionUpTo
<1>8. GroupedUpTo(archive, Groups(archive), N)
    BY <1>1, <1>2, <1>4, <1>7 DEF Groups
<1>9. ASSUME NEW f \in FilesOf(archive), f.kind \in {"xml", "pdf"}
      PROVE  Holds(Groups(archive), f)
    <2>1. PICK i \in DOMAIN archive : f = archive[i]
        BY DEF FilesOf
    <2>2. i <= N
        BY <1>4
    <2> QED
        BY <1>8, <1>9, <2>1, <2>2 DEF GroupedUpTo
<1> QED
    BY <1>8, <1>9 DEF GroupedUpTo

\* A PDF that comes right after an XML file that names it, which is the one the
\* server would have found.
Led(archive, files, j) ==
    /\ j - 1 \in DOMAIN files /\ files[j - 1].kind = "xml"
    /\ files[j - 1].word \in files[j].mentions
    /\ Clean(archive, files[j - 1]) => files[j] = WholeMatch(archive, files[j - 1].tadig)

AllLed(archive, files) == \A j \in DOMAIN files : files[j].kind = "pdf" => Led(archive, files, j)

\* What a batch needs for its XML files to find their PDFs in it.
Sound(archive, files) ==
    \A i \in DOMAIN files : files[i].kind = "xml" =>
        /\ Clean(archive, files[i]) /\ PdfsWith(archive, files[i].tadig, {}) # {} =>
              i + 1 \in DOMAIN files /\ files[i + 1] = WholeMatch(archive, files[i].tadig)
        /\ \A j \in DOMAIN files : j < i /\ files[j].kind = "pdf" => Led(archive, files, j)

LEMMA WholeMatchIsPdf ==
    ASSUME NEW archive, IsArchive(archive), NEW tadig, PdfsWith(archive, tadig, {}) # {}
    PROVE  /\ WholeMatch(archive, tadig).kind = "pdf"
           /\ tadig \in WholeMatch(archive, tadig).mentions
<1>1. PICK found : found = PdfsWith(archive, tadig, {})
    OBVIOUS
<1>2. found \in SUBSET Nat
    BY <1>1, PlacesOfFiles DEF IsArchive
<1>3. FirstOf(found) \in found
    BY <1>1, <1>2, FirstOfPlaces
<1> QED
    BY <1>1, <1>3 DEF WholeMatch, PdfsWith

LEMMA SoundBatchMatches ==
    ASSUME NEW archive, IsArchive(archive), NEW files \in Seq(FilesOf(archive)),
           Sound(archive, files), NEW i \in DOMAIN files, files[i].kind = "xml",
           Clean(archive, files[i])
    PROVE  MatchPdf(files[i].tadig, files) = MatchPdf(files[i].tadig, archive)
<1>1. PICK tadig : tadig = files[i].tadig
    OBVIOUS
<1>2. PICK whole : whole = PdfsWith(archive, tadig, {})
    OBVIOUS
<1>3. PICK here : here = PdfsWith(files, tadig, {})
    OBVIOUS
<1>4. \A j \in DOMAIN files : files[j] \in FilesOf(archive)
    OBVIOUS
<1>5. CASE whole = {}
    <2>1. here = {}
        <3> SUFFICES ASSUME NEW j \in here PROVE FALSE
            OBVIOUS
        <3>1. /\ j \in DOMAIN files /\ files[j].kind = "pdf" /\ tadig \in files[j].mentions
            BY <1>3 DEF PdfsWith
        <3>2. PICK k \in DOMAIN archive : files[j] = archive[k]
            BY <1>4, <3>1 DEF FilesOf
        <3> QED
            BY <1>2, <1>5, <3>1, <3>2 DEF PdfsWith
    <2> QED
        BY <1>1, <1>2, <1>3, <1>5, <2>1 DEF MatchPdf
<1>6. CASE whole # {}
    <2>1. PICK p : p = WholeMatch(archive, tadig)
        OBVIOUS
    <2>2. p.kind = "pdf" /\ tadig \in p.mentions
        BY <1>2, <1>6, <2>1, WholeMatchIsPdf
    <2>3. i + 1 \in DOMAIN files /\ files[i + 1] = p
        BY <1>1, <1>2, <1>6, <2>1 DEF Sound
    <2>4. i + 1 \in here
        BY <1>3, <2>2, <2>3 DEF PdfsWith
    <2>5. PICK e : e = FirstOf(here)
        OBVIOUS
    <2>6. here \in SUBSET Nat
        BY <1>3, PlacesOfFiles
    <2>7. e \in here /\ e <= i + 1 /\ e \in Nat
        BY <2>4, <2>5, <2>6, FirstOfPlaces
    <2>8. e \in DOMAIN files /\ files[e].kind = "pdf" /\ tadig \in files[e].mentions
        BY <1>3, <2>7 DEF PdfsWith
    <2>9. files[e] = p
        <3>1. i \in Nat /\ (e = i + 1 \/ e = i \/ e < i)
            BY <2>7
        <3>2. CASE e = i + 1
            BY <2>3, <3>2
        <3>3. CASE e = i
            BY <2>8, <3>3
        <3>4. CASE e < i
            <4>1. Led(archive, files, e)
                BY <2>8, <3>4 DEF Sound
            <4>2. PICK x : x = files[e - 1]
                OBVIOUS
            <4>3. /\ x \in FilesOf(archive) /\ x.kind = "xml" /\ x.word \in files[e].mentions
                  /\ Clean(archive, x) => files[e] = WholeMatch(archive, x.tadig)
                BY <1>4, <4>1, <4>2 DEF Led
            <4>4. x.word = tadig
                <5>1. PICK k \in DOMAIN archive : files[e] = archive[k]
                    BY <1>4, <2>8 DEF FilesOf
                <5> QED
                    BY <2>8, <4>3, <5>1 DEF Clean, OneMention
            <4>5. x = files[i]
                BY <1>1, <4>3, <4>4 DEF Clean, Pairable, FilesOf
            <4> QED
                BY <1>1, <2>1, <4>3, <4>5
        <3> QED
            BY <3>1, <3>2, <3>3, <3>4
    <2>10. MatchPdf(tadig, files) = p.name
        BY <1>3, <2>4, <2>5, <2>9 DEF MatchPdf
    <2>11. MatchPdf(tadig, archive) = p.name
        BY <1>2, <1>6, <2>1 DEF MatchPdf, WholeMatch
    <2> QED
        BY <1>1, <2>10, <2>11
<1> QED
    BY <1>5, <1>6

\* A group joins the current batch.
LEMMA GroupJoins ==
    ASSUME NEW archive, IsArchive(archive), NEW files \in Seq(FilesOf(archive)),
           Sound(archive, files), NEW g \in Seq(FilesOf(archive)),
           XmlGroup(archive, g) \/ PdfGroup(archive, g),
           XmlGroup(archive, g) => AllLed(archive, files)
    PROVE  /\ files \o g \in Seq(FilesOf(archive))
           /\ Sound(archive, files \o g)
           /\ XmlGroup(archive, g) => AllLed(archive, files \o g)
           /\ \A j \in DOMAIN files : \E m \in DOMAIN (files \o g) : (files \o g)[m] = files[j]
           /\ \A j \in DOMAIN g : \E m \in DOMAIN (files \o g) : (files \o g)[m] = g[j]
<1>1. PICK n : n = Len(files)
    OBVIOUS
<1>2. PICK c : c = files \o g
    OBVIOUS
<1>3. /\ n \in Nat /\ Len(g) \in Nat /\ DOMAIN files = 1..n /\ DOMAIN g = 1..Len(g)
      /\ c \in Seq(FilesOf(archive)) /\ DOMAIN c = 1..(n + Len(g))
      /\ \A j \in 1..n : c[j] = files[j]
      /\ \A j \in 1..Len(g) : c[n + j] = g[j]
    BY <1>1, <1>2
<1>4. \A j \in 1..n : j \in DOMAIN c
    BY <1>3
<1>5. \A j \in 1..Len(g) : n + j \in DOMAIN c
    BY <1>3
<1>6. /\ \A j \in DOMAIN files : \E m \in DOMAIN c : c[m] = files[j]
      /\ \A j \in DOMAIN g : \E m \in DOMAIN c : c[m] = g[j]
    BY <1>3, <1>4, <1>5
\* What held in the batch holds in the longer one.
<1>7. ASSUME NEW j \in 1..n, Led(archive, files, j) PROVE Led(archive, c, j)
    <2>1. j - 1 \in 1..n /\ j - 1 \in DOMAIN c
        BY <1>3, <1>7 DEF Led
    <2> QED
        BY <1>3, <1>7, <2>1 DEF Led
<1>8. ASSUME NEW i \in 1..n, c[i].kind = "xml"
      PROVE  /\ Clean(archive, c[i]) /\ PdfsWith(archive, c[i].tadig, {}) # {} =>
                   i + 1 \in DOMAIN c /\ c[i + 1] = WholeMatch(archive, c[i].tadig)
             /\ \A j \in DOMAIN c : j < i /\ c[j].kind = "pdf" => Led(archive, c, j)
    <2>1. files[i].kind = "xml" /\ c[i] = files[i]
        BY <1>3, <1>8
    <2>2. ASSUME Clean(archive, c[i]), PdfsWith(archive, c[i].tadig, {}) # {}
          PROVE  i + 1 \in DOMAIN c /\ c[i + 1] = WholeMatch(archive, c[i].tadig)
        <3>1. i + 1 \in DOMAIN files /\ files[i + 1] = WholeMatch(archive, files[i].tadig)
            BY <1>3, <2>1, <2>2 DEF Sound
        <3> QED
            BY <1>3, <1>4, <2>1, <3>1
    <2>3. ASSUME NEW j \in DOMAIN c, j < i, c[j].kind = "pdf" PROVE Led(archive, c, j)
        <3>1. j \in 1..n
            BY <1>3, <2>3
        <3>2. files[j].kind = "pdf"
            BY <1>3, <2>3, <3>1
        <3> QED
            BY <1>3, <1>7, <2>1, <2>3, <3>1, <3>2 DEF Sound
    <2> QED
        BY <2>2, <2>3
<1>9. CASE PdfGroup(archive, g)
    <2>1. PICK p : g = <<p>> /\ p.kind = "pdf"
        BY <1>9 DEF PdfGroup
    <2>2. Len(g) = 1 /\ g[1] = p
        BY <2>1
    <2>3. DOMAIN c = 1..(n + 1) /\ c[n + 1].kind = "pdf"
        BY <1>3, <2>1, <2>2
    <2>4. \A i \in DOMAIN c : c[i].kind = "xml" => i \in 1..n
        BY <1>3, <2>3
    <2>5. Sound(archive, c)
        BY <1>8, <2>4 DEF Sound
    <2>6. ~XmlGroup(archive, g)
        BY <1>9, GroupsDiffer
    <2> QED
        BY <1>2, <1>3, <1>6, <2>5, <2>6
<1>10. CASE XmlGroup(archive, g)
    <2>1. PICK x \in FilesOf(archive) :
            Alone(archive, g, x) \/ \E p \in FilesOf(archive) : Paired(archive, g, x, p)
        BY <1>10 DEF XmlGroup
    <2>2. ASSUME NEW j \in 1..n, c[j].kind = "pdf" PROVE Led(archive, c, j)
        <3>1. files[j].kind = "pdf"
            BY <1>3, <2>2
        <3> QED
            BY <1>3, <1>7, <1>10, <3>1 DEF AllLed
    <2>3. CASE Alone(archive, g, x)
        <3>1. Len(g) = 1 /\ g[1] = x
            BY <2>3 DEF Alone
        <3>2. DOMAIN c = 1..(n + 1) /\ c[n + 1] = x
            BY <1>3, <3>1
        <3>3. x.kind = "xml" /\ x.kind # "pdf" /\ (Clean(archive, x) => PdfsWith(archive, x.tadig, {}) = {})
            BY <2>3 DEF Alone
        <3>4. \A i \in DOMAIN c : i \in 1..n \/ i = n + 1
            BY <1>3, <3>2
        <3>5. AllLed(archive, c)
            BY <2>2, <3>2, <3>3, <3>4 DEF AllLed
        <3>6. Sound(archive, c)
            <4> SUFFICES ASSUME NEW i \in DOMAIN c, c[i].kind = "xml"
                         PROVE  /\ Clean(archive, c[i]) /\ PdfsWith(archive, c[i].tadig, {}) # {} =>
                                      i + 1 \in DOMAIN c /\ c[i + 1] = WholeMatch(archive, c[i].tadig)
                                /\ \A j \in DOMAIN c : j < i /\ c[j].kind = "pdf" => Led(archive, c, j)
                BY DEF Sound
            <4>1. CASE i \in 1..n
                BY <1>8, <4>1
            <4>2. CASE i = n + 1
                BY <3>2, <3>3, <3>5, <4>2 DEF AllLed
            <4> QED
                BY <3>4, <4>1, <4>2
        <3> QED
            BY <1>2, <1>3, <1>6, <3>5, <3>6
    <2>4. ASSUME NEW p \in FilesOf(archive), Paired(archive, g, x, p)
          PROVE  Sound(archive, c) /\ AllLed(archive, c)
        <3>1. Len(g) = 2 /\ g[1] = x /\ g[2] = p
            BY <2>4 DEF Paired
        <3>2. DOMAIN c = 1..(n + 2) /\ c[n + 1] = x /\ c[n + 2] = p
            BY <1>3, <3>1
        <3>3. /\ x.kind = "xml" /\ x.kind # "pdf" /\ p.kind = "pdf" /\ p.kind # "xml"
              /\ x.word \in p.mentions
              /\ Clean(archive, x) => p = WholeMatch(archive, x.tadig)
            BY <2>4 DEF Paired
        <3>4. \A i \in DOMAIN c : i \in 1..n \/ i = n + 1 \/ i = n + 2
            BY <1>3, <3>2
        <3>5. n + 1 \in DOMAIN c /\ n + 2 \in DOMAIN c /\ (n + 2) - 1 = n + 1 /\ (n + 1) + 1 = n + 2
            BY <1>3, <3>2
        <3>6. Led(archive, c, n + 2)
            BY <3>2, <3>3, <3>5 DEF Led
        <3>7. AllLed(archive, c)
            BY <2>2, <3>2, <3>3, <3>4, <3>6 DEF AllLed
        <3>8. Sound(archive, c)
            <4> SUFFICES ASSUME NEW i \in DOMAIN c, c[i].kind = "xml"
                         PROVE  /\ Clean(archive, c[i]) /\ PdfsWith(archive, c[i].tadig, {}) # {} =>
                                      i + 1 \in DOMAIN c /\ c[i + 1] = WholeMatch(archive, c[i].tadig)
                                /\ \A j \in DOMAIN c : j < i /\ c[j].kind = "pdf" => Led(archive, c, j)
                BY DEF Sound
            <4>1. CASE i \in 1..n
                BY <1>8, <4>1
            <4>2. CASE i = n + 1
                BY <3>2, <3>3, <3>5, <3>7, <4>2 DEF AllLed
            <4>3. i # n + 2
                BY <3>2, <3>3
            <4> QED
                BY <3>4, <4>1, <4>2, <4>3
        <3> QED
            BY <3>7, <3>8
    <2> QED
        BY <1>2, <1>3, <1>6, <2>1, <2>3, <2>4
<1> QED
    BY <1>9, <1>10

PackStates(archive) ==
    [batches : Seq(Seq(FilesOf(archive))), current : Seq(FilesOf(archive))]

Kept(acc, file) ==
    Holds(acc.batches, file) \/ \E m \in DOMAIN acc.current : acc.current[m] = file

\* Once n groups are placed: every batch is sound, and as long as no PDF came on
\* its own, each in the current one has its XML file.
PackedUpTo(archive, groups, acc, n) ==
    /\ \A k \in DOMAIN acc.batches : Sound(archive, acc.batches[k])
    /\ Sound(archive, acc.current)
    /\ (\A k \in 1..n : XmlGroup(archive, groups[k])) => AllLed(archive, acc.current)
    /\ \A k \in 1..n : \A m \in DOMAIN groups[k] : Kept(acc, groups[k][m])

LEMMA PlaceStates ==
    ASSUME NEW archive, NEW acc \in PackStates(archive), NEW g \in Seq(FilesOf(archive))
    PROVE  Place(acc, g) \in PackStates(archive)
<1>1. PICK F : F = FilesOf(archive)
    OBVIOUS
<1>2. /\ acc.batches \in Seq(Seq(F)) /\ acc.current \in Seq(F)
      /\ acc = [batches |-> acc.batches, current |-> acc.current]
    BY <1>1 DEF PackStates
<1>3. PICK longer : longer = Append(acc.batches, acc.current)
    OBVIOUS
<1>4. PICK joined : joined = acc.current \o g
    OBVIOUS
<1>5. longer \in Seq(Seq(F)) /\ joined \in Seq(F)
    BY <1>1, <1>2, <1>3, <1>4
<1>6. \/ Place(acc, g) = [batches |-> longer, current |-> g]
      \/ Place(acc, g) = [batches |-> acc.batches, current |-> joined]
    BY <1>2, <1>3, <1>4 DEF Place
<1> QED
    BY <1>1, <1>2, <1>5, <1>6 DEF PackStates

LEMMA PlaceStep ==
    ASSUME NEW archive, IsArchive(archive), NEW groups, Grouped(archive, groups),
           NEW acc \in PackStates(archive), NEW n \in Nat, n + 1 \in DOMAIN groups,
           PackedUpTo(archive, groups, acc, n)
    PROVE  PackedUpTo(archive, groups, Place(acc, groups[n + 1]), n + 1)
<1>1. PICK F : F = FilesOf(archive)
    OBVIOUS
<1>2. PICK g : g = groups[n + 1]
    OBVIOUS
<1>3. /\ groups \in Seq(Seq(F)) /\ g \in Seq(F)
      /\ XmlGroup(archive, g) \/ PdfGroup(archive, g)
    BY <1>1, <1>2 DEF Grouped
<1>4. \A k \in 1..n : k \in DOMAIN groups /\ k < n + 1
    BY <1>3
<1>5. XmlGroup(archive, g) => \A k \in 1..n : XmlGroup(archive, groups[k])
    BY <1>2, <1>4 DEF Grouped
<1>6. /\ acc.batches \in Seq(Seq(F)) /\ acc.current \in Seq(F)
      /\ acc = [batches |-> acc.batches, current |-> acc.current]
    BY <1>1 DEF PackStates
<1>7. 1..(n + 1) = (1..n) \cup {n + 1}
    OBVIOUS
<1>8. PICK new : new = Place(acc, g)
    OBVIOUS
<1>9. (\A k \in 1..(n + 1) : XmlGroup(archive, groups[k])) => XmlGroup(archive, g)
    BY <1>2, <1>7
<1>10. CASE new.batches = Append(acc.batches, acc.current) /\ new.current = g
    <2>1. <<>> \in Seq(F) /\ <<>> \o g = g /\ DOMAIN <<>> = {}
        BY <1>3
    <2>2. Sound(archive, <<>>) /\ AllLed(archive, <<>>)
        BY <2>1 DEF Sound, AllLed
    <2>3. PICK none : none = <<>>
        OBVIOUS
    <2>4. /\ none \in Seq(F) /\ none \o g = g /\ Sound(archive, none) /\ AllLed(archive, none)
        BY <2>1, <2>2, <2>3
    <2>5. Sound(archive, g) /\ (XmlGroup(archive, g) => AllLed(archive, g))
        BY <1>1, <1>3, <2>4, GroupJoins
    <2>6. \A k \in DOMAIN new.batches : new.batches[k] = acc.current \/
             (k \in DOMAIN acc.batches /\ new.batches[k] = acc.batches[k])
        BY <1>6, <1>10
    <2>7. \A k \in DOMAIN new.batches : Sound(archive, new.batches[k])
        BY <2>6 DEF PackedUpTo
    <2>8. \A f : Kept(acc, f) => Kept(new, f)
        BY <1>6, <1>10, HoldsAppend DEF Kept
    <2>9. \A m \in DOMAIN g : Kept(new, g[m])
        BY <1>10 DEF Kept
    <2> QED
        BY <1>2, <1>7, <1>8, <1>9, <1>10, <2>5, <2>7, <2>8, <2>9 DEF PackedUpTo
<1>11. CASE new.batches = acc.batches /\ new.current = acc.current \o g
    <2>1. XmlGroup(archive, g) => AllLed(archive, acc.current)
        BY <1>5 DEF PackedUpTo
    <2>2. /\ Sound(archive, new.current)
          /\ XmlGroup(archive, g) => AllLed(archive, new.current)
          /\ \A j \in DOMAIN acc.current : \E m \in DOMAIN new.current : new.current[m] = acc.current[j]
          /\ \A j \in DOMAIN g : \E m \in DOMAIN new.current : new.current[m] = g[j]
        <3>1. PICK cur : cur = acc.current
            OBVIOUS
        <3>2. cur \in Seq(F) /\ Sound(archive, cur) /\ (XmlGroup(archive, g) => AllLed(archive, cur))
            BY <1>6, <2>1, <3>1 DEF PackedUpTo
        <3>3. /\ Sound(archive, cur \o g)
              /\ XmlGroup(archive, g) => AllLed(archive, cur \o g)
              /\ \A j \in DOMAIN cur : \E m \in DOMAIN (cur \o g) : (cur \o g)[m] = cur[j]
              /\ \A j \in DOMAIN g : \E m \in DOMAIN (cur \o g) : (cur \o g)[m] = g[j]
            BY <1>1, <1>3, <3>2, GroupJoins
        <3>4. new.current = cur \o g
            BY <1>11, <3>1
        <3> QED
            BY <3>1, <3>3, <3>4
    <2>3. \A f : Kept(acc, f) => Kept(new, f)
        BY <1>11, <2>2 DEF Kept
    <2>4. \A m \in DOMAIN g : Kept(new, g[m])
        BY <2>2 DEF Kept
    <2> QED
        BY <1>2, <1>7, <1>8, <1>9, <1>11, <2>2, <2>3, <2>4 DEF PackedUpTo
<1>12. \/ new.batches = Append(acc.batches, acc.current) /\ new.current = g
       \/ new.batches = acc.batches /\ new.current = acc.current \o g
    BY <1>6, <1>8 DEF Place
<1> QED
    BY <1>10, <1>11, <1>12

LEMMA PackingRecursion ==
    ASSUME NEW archive, NEW groups \in Seq(Seq(FilesOf(archive)))
    PROVE  /\ Packing(groups)[0] = [batches |-> <<>>, current |-> <<>>]
           /\ \A n \in 1..Len(groups) :
                Packing(groups)[n] = Place(Packing(groups)[n - 1], groups[n])
<1>1. PICK base : base = [batches |-> <<>>, current |-> <<>>]
    OBVIOUS
<1>2. PICK N : N = Len(groups)
    OBVIOUS
<1>3. PICK X : X = PackStates(archive)
    OBVIOUS
<1> DEFINE P(h) == h = [n \in 0..N |-> IF n = 0 THEN base ELSE Place(h[n - 1], groups[n])]
<1>4. N \in Nat /\ DOMAIN groups = 1..N /\ \A n \in 1..N : groups[n] \in Seq(FilesOf(archive))
    BY <1>2
<1>5. base \in X
    BY <1>1, <1>3 DEF PackStates
<1>6. PICK st : st = [n \in 1..N |-> [acc \in X |-> Place(acc, groups[n])]]
    OBVIOUS
<1>7. st \in [1..N -> [X -> X]]
    BY <1>3, <1>4, <1>6, PlaceStates
<1>8. PICK g : Recursion(g, X, base, N, st)
    BY <1>4, <1>5, <1>7, RecursionSolvable
<1>9. P(g)
    <2>1. g \in [0..N -> X] /\ g[0] = base /\ \A n \in 1..N : g[n] = st[n][g[n - 1]]
        BY <1>8 DEF Recursion
    <2>2. ASSUME NEW n \in 1..N PROVE g[n] = Place(g[n - 1], groups[n])
        <3>1. n - 1 \in 0..N
            BY <1>4
        <3>2. g[n - 1] \in X
            BY <2>1, <3>1
        <3> QED
            BY <1>6, <2>1, <3>2
    <2>3. ASSUME NEW n \in 0..N PROVE g[n] = IF n = 0 THEN base ELSE Place(g[n - 1], groups[n])
        <3>1. n = 0 \/ n \in 1..N
            BY <1>4
        <3> QED
            BY <2>1, <2>2, <3>1
    <2> QED
        BY <2>1, <2>3
<1>10. Packing(groups) = CHOOSE h : P(h)
    BY <1>1, <1>2 DEF Packing
<1>11. P(CHOOSE h : P(h))
    <2> HIDE DEF P
    <2> QED
        BY <1>9
<1>12. PICK r : r = Packing(groups)
    OBVIOUS
<1>13. P(r)
    BY <1>10, <1>11, <1>12
<1>14. r[0] = base
    BY <1>4, <1>13
<1>15. ASSUME NEW n \in 1..N PROVE r[n] = Place(r[n - 1], groups[n])
    <2>1. n \in 0..N /\ n # 0
        BY <1>4
    <2> QED
        BY <1>13, <2>1
<1> QED
    BY <1>1, <1>2, <1>12, <1>14, <1>15

\* What the page sends of a large archive.
LEMMA SplitIsSound ==
    ASSUME NEW archive, IsArchive(archive)
    PROVE  /\ Split(archive) \in Seq(Seq(FilesOf(archive)))
           /\ \A n \in DOMAIN Split(archive) : Sound(archive, Split(archive)[n])
           /\ \A f \in FilesOf(archive) : f.kind \in {"xml", "pdf"} => Holds(Split(archive), f)
<1>1. PICK F : F = FilesOf(archive)
    OBVIOUS
<1>2. PICK groups : groups = Groups(archive)
    OBVIOUS
<1>3. /\ Grouped(archive, groups) /\ groups \in Seq(Seq(F))
      /\ \A f \in F : f.kind \in {"xml", "pdf"} => Holds(groups, f)
    BY <1>1, <1>2, GroupsAreRight DEF Grouped
<1>4. PICK N : N = Len(groups)
    OBVIOUS
<1>5. PICK r : r = Packing(groups)
    OBVIOUS
<1>6. /\ N \in Nat /\ DOMAIN groups = 1..N
      /\ r[0] = [batches |-> <<>>, current |-> <<>>]
      /\ \A n \in 1..N : r[n] = Place(r[n - 1], groups[n])
    BY <1>1, <1>3, <1>4, <1>5, PackingRecursion
<1> DEFINE S == {n \in 0..N : r[n] \in PackStates(archive)
                              /\ PackedUpTo(archive, groups, r[n], n)}
<1>7. 0 \in S
    <2>1. r[0] \in PackStates(archive)
        BY <1>6 DEF PackStates
    <2>2. r[0].batches = <<>> /\ r[0].current = <<>> /\ DOMAIN <<>> = {} /\ 1..0 = {}
        BY <1>6
    <2>3. DOMAIN r[0].batches = {} /\ DOMAIN r[0].current = {}
        BY <2>2
    <2>4. PackedUpTo(archive, groups, r[0], 0)
        BY <2>2, <2>3 DEF PackedUpTo, Sound, AllLed
    <2> QED
        BY <1>6, <2>1, <2>4
<1>8. ASSUME NEW n \in 0..N, n \in S /\ n < N PROVE n + 1 \in S
    <2>1. n \in Nat /\ n + 1 \in 1..N /\ (n + 1) - 1 = n /\ n + 1 \in 0..N
        BY <1>6, <1>8
    <2>2. r[n + 1] = Place(r[n], groups[n + 1])
        BY <1>6, <2>1
    <2>3. groups[n + 1] \in Seq(FilesOf(archive))
        BY <1>1, <1>3, <1>6, <2>1
    <2> QED
        BY <1>3, <1>6, <1>8, <2>1, <2>2, <2>3, PlaceStates, PlaceStep
<1>9. 0..N \subseteq S
    <2> HIDE DEF S
    <2> QED
        BY <1>6, <1>7, <1>8, InductionUpTo
<1>10. PICK acc : acc = r[N]
    OBVIOUS
<1>11. acc \in PackStates(archive) /\ PackedUpTo(archive, groups, acc, N)
    BY <1>6, <1>9, <1>10
<1>12. acc.batches \in Seq(Seq(F)) /\ acc.current \in Seq(F)
    BY <1>1, <1>11 DEF PackStates
<1>13. ASSUME NEW f \in F, f.kind \in {"xml", "pdf"} PROVE Kept(acc, f)
    <2>1. Holds(groups, f)
        BY <1>3, <1>13
    <2>2. PICK k \in 1..N : \E m \in DOMAIN groups[k] : groups[k][m] = f
        BY <1>6, <2>1 DEF Holds
    <2> QED
        BY <1>11, <2>2 DEF PackedUpTo
<1>14. PICK s : s = Split(archive)
    OBVIOUS
<1>15. s = IF acc.current = <<>> THEN acc.batches ELSE Append(acc.batches, acc.current)
    BY <1>2, <1>4, <1>5, <1>10, <1>14 DEF Split
<1>16. CASE acc.current = <<>>
    <2>1. DOMAIN acc.current = {}
        BY <1>16
    <2>2. s = acc.batches
        BY <1>15, <1>16
    <2> QED
        BY <1>1, <1>11, <1>12, <1>13, <1>14, <2>1, <2>2 DEF PackedUpTo, Kept
<1>17. CASE acc.current # <<>>
    <2>1. s = Append(acc.batches, acc.current)
        BY <1>15, <1>17
    <2>2. \A k \in DOMAIN s : s[k] = acc.current \/ (k \in DOMAIN acc.batches /\ s[k] = acc.batches[k])
        BY <1>12, <2>1
    <2>3. \A k \in DOMAIN s : Sound(archive, s[k])
        BY <1>11, <2>2 DEF PackedUpTo
    <2>4. \A f : Kept(acc, f) => Holds(s, f)
        BY <1>12, <2>1, HoldsAppend DEF Kept
    <2>5. s \in Seq(Seq(F))
        BY <1>12, <2>1
    <2> QED
        BY <1>1, <1>13, <1>14, <2>3, <2>4, <2>5
<1> QED
    BY <1>16, <1>17

\* What the page sends, of one request or of many: files of the archive, all of
\* them that carry something, and the pairs of the whole.
LEMMA BatchesAreSound ==
    ASSUME NEW archive \in Archives
    PROVE  /\ Batches(archive) \in Seq(Seq(FilesOf(archive)))
           /\ \A f \in FilesOf(archive) : f.kind \in {"xml", "pdf"} => Holds(Batches(archive), f)
           /\ \A n \in DOMAIN Batches(archive) :
                \A i \in DOMAIN Batches(archive)[n] :
                    LET file == Batches(archive)[n][i] IN
                    file.kind = "xml" /\ Clean(archive, file) =>
                        MatchPdf(file.tadig, Batches(archive)[n]) = MatchPdf(file.tadig, archive)
<1>1. IsArchive(archive)
    BY ClientConstants
<1>2. PICK b : b = Batches(archive)
    OBVIOUS
<1>3. CASE b = Split(archive)
    <2>1. /\ b \in Seq(Seq(FilesOf(archive)))
          /\ \A n \in DOMAIN b : Sound(archive, b[n])
          /\ \A f \in FilesOf(archive) : f.kind \in {"xml", "pdf"} => Holds(b, f)
        BY <1>1, <1>3, SplitIsSound
    <2>2. ASSUME NEW n \in DOMAIN b, NEW i \in DOMAIN b[n], b[n][i].kind = "xml", Clean(archive, b[n][i])
          PROVE  MatchPdf(b[n][i].tadig, b[n]) = MatchPdf(b[n][i].tadig, archive)
        <3>1. b[n] \in Seq(FilesOf(archive)) /\ Sound(archive, b[n])
            BY <2>1
        <3> QED
            BY <1>1, <2>2, <3>1, SoundBatchMatches
    <2> QED
        BY <1>2, <2>1, <2>2
<1>4. CASE b = <<archive>>
    <2>1. archive \in Seq(FilesOf(archive))
        BY <1>1 DEF IsArchive, FilesOf
    <2>2. /\ b \in Seq(Seq(FilesOf(archive))) /\ DOMAIN b = {1} /\ b[1] = archive
        BY <1>4, <2>1
    <2>3. \A f \in FilesOf(archive) : Holds(b, f)
        BY <2>2 DEF Holds, FilesOf
    <2> QED
        BY <1>2, <2>2, <2>3
<1> QED
    BY <1>2, <1>3, <1>4 DEF Batches

-----------------------------------------------------------------------------
(* What the tabs remember.                                                  *)

AnsweredCalls == {c \in Calls : c.status = "ok" => c.session # Null}
MadeFinds == {f \in Finds : f.leg = "fallback" => f.query \in Empty}
Pages == [url : Searches \cup {Null}, results : Searches \cup {Null},
          fallback : Searches \cup {Null}, late : BOOLEAN]

Parts == UNION {{Batches(a)[n] : n \in DOMAIN Batches(a)} : a \in Archives}
AllTadigs == UNION {Tadigs(a) : a \in Archives \cup OtherArchives}

Cards == [pc : {"busy", "done", "error"}, archive : Archives,
          batches : {Batches(a) : a \in Archives}, next : Nat \ {0}, replace : BOOLEAN,
          before : SUBSET AllTadigs, alone : BOOLEAN]

\* A card that has not failed points at a batch its archive was cut into.
Uploads ==
    {u \in Cards : /\ u.batches = Batches(u.archive)
                   /\ u.pc # "error" => u.next \in DOMAIN u.batches}

Requests == [token : Tokens, status : {"sent", "ok", "error"}, live : BOOLEAN,
             files : Parts, replace : BOOLEAN]

Memory == [shown : UserRecords \cup {Null}, login : AnsweredCalls \cup {Null},
           refresh : AnsweredCalls \cup {Null}, find : [Slots -> MadeFinds \cup {Null}],
           page : Pages, upload : Uploads \cup {NoUpload}]

ClientTyped ==
    /\ TypedAccounts
    /\ stored \in Tokens
    /\ tab \in [Tabs -> Memory]
    /\ batch \in [Tabs -> Requests \cup {Null}]
    /\ dataset \subseteq AllTadigs
    /\ now \in Nat /\ events \in Nat /\ now <= events /\ events <= MaxEvents

LEMMA UserOfType == ASSUME NEW session \in Tokens PROVE UserOf(session) \in UserRecords \cup {Null}
  BY DEF UserOf, Tokens, SessionRecords, UserRecords

LEMMA LoadedType == ASSUME NEW session \in Tokens PROVE Loaded(session) \in Memory
<1>1. UserOf(session) \in UserRecords \cup {Null}
    BY UserOfType
<1>2. [s \in Slots |-> Null] \in [Slots -> MadeFinds \cup {Null}]
    OBVIOUS
<1>3. NoPage \in Pages
    BY DEF NoPage, Pages
<1> QED
    BY <1>1, <1>2, <1>3 DEF Loaded, Memory

LEMMA EvictedType ==
    ASSUME ClientTyped, NEW token, NEW memory \in Memory
    PROVE  Dropped(token) \in Tokens /\ Evicted(token, memory) \in Memory
<1>1. Dropped(token) \in Tokens
    BY DEF Dropped, ClientTyped, Tokens
<1> QED
    BY <1>1, LoadedType DEF Evicted

\* A step that keeps the accounts typed and writes one tab.
LEMMA OneTab ==
    ASSUME ClientTyped, NEW t \in Tabs, NEW m \in Memory, tab' = [tab EXCEPT ![t] = m]
    PROVE  tab' \in [Tabs -> Memory]
  BY DEF ClientTyped

LEMMA OrphanedType ==
    ASSUME ClientTyped, NEW t \in Tabs, NEW memory, Orphaned(t, memory)
    PROVE  batch' \in [Tabs -> Requests \cup {Null}]
<1>1. PICK b : b = batch[t]
    OBVIOUS
<1>2. b \in Requests \cup {Null}
    BY <1>1 DEF ClientTyped
<1>3. CASE memory.upload = NoUpload /\ b # Null
    <2>1. PICK c : c = [b EXCEPT !.live = FALSE]
        OBVIOUS
    <2>2. c \in Requests
        BY <1>2, <1>3, <2>1 DEF Requests
    <2>3. batch' = [batch EXCEPT ![t] = c]
        BY <1>1, <1>3, <2>1 DEF Orphaned
    <2> QED
        BY <2>2, <2>3 DEF ClientTyped
<1>4. CASE ~(memory.upload = NoUpload /\ b # Null)
    BY <1>1, <1>4 DEF Orphaned, ClientTyped
<1> QED
    BY <1>3, <1>4

LEMMA HappensType ==
    ASSUME ClientTyped, Happens
    PROVE  events' \in Nat /\ events' = events + 1 /\ events' <= MaxEvents
<1>1. edited \in Nat /\ events \in Nat /\ MaxEvents \in Nat /\ MaxMixed \in Nat /\ MaxMixed <= MaxEvents
    BY ClientConstants DEF ClientTyped, TypedAccounts, AccountTypeOK
<1>2. events + edited < MaxEvents \/ events + edited < MaxMixed
    BY DEF Happens
<1> QED
    BY <1>1, <1>2 DEF Happens

LEMMA ClientInit == Init => ClientTyped
<1> SUFFICES ASSUME Init PROVE ClientTyped
    OBVIOUS
<1>1. TypedAccounts
    BY TypedInit DEF Init
<1>2. stored \in Tokens
    BY RememberedTokens DEF Init
<1>3. tab \in [Tabs -> Memory]
    BY <1>2, LoadedType DEF Init
<1>4. batch \in [Tabs -> Requests \cup {Null}]
    BY DEF Init
<1> QED
    BY <1>1, <1>2, <1>3, <1>4, ClientConstants DEF Init, ClientTyped

LEMMA LoginType ==
    ASSUME ClientTyped, TypedAccounts', NEW t \in Tabs, NEW u \in Users, NEW how, Login(t, u, how)
    PROVE  ClientTyped'
<1>1. ASSUME NEW role \in Roles PROVE Session(u, role) \in SessionRecords
    BY <1>1 DEF Session, SessionRecords, ClientTyped
<1>2. ASSUME NEW status \in {"unauthorized", "error"}, Replied(t, status, Null)
      PROVE  tab' \in [Tabs -> Memory]
    <2>1. PICK c : c = Call(status, Null)
        OBVIOUS
    <2>2. c \in AnsweredCalls
        BY <2>1 DEF Call, AnsweredCalls, Calls, Statuses, Tokens, ClientTyped
    <2>3. PICK m : m = [tab[t] EXCEPT !.login = c]
        OBVIOUS
    <2>4. m \in Memory
        BY <2>2, <2>3 DEF ClientTyped, Memory
    <2>5. tab' = [tab EXCEPT ![t] = m]
        BY <1>2, <2>1, <2>3 DEF Replied
    <2> QED
        BY <2>4, <2>5, OneTab
<1>3. ASSUME NEW role \in Roles, Replied(t, "ok", Session(u, role))
      PROVE  tab' \in [Tabs -> Memory]
    <2>1. PICK c : c = Call("ok", Session(u, role))
        OBVIOUS
    <2>2. c \in AnsweredCalls
        BY <1>1, <2>1, NullIsNoRecord DEF Call, AnsweredCalls, Calls, Statuses, Tokens, ClientTyped
    <2>3. PICK m : m = [tab[t] EXCEPT !.login = c]
        OBVIOUS
    <2>4. m \in Memory
        BY <2>2, <2>3 DEF ClientTyped, Memory
    <2>5. tab' = [tab EXCEPT ![t] = m]
        BY <1>3, <2>1, <2>3 DEF Replied
    <2> QED
        BY <2>4, <2>5, OneTab
<1>4. account[u] # Null => account[u].role \in Roles
    BY DEF ClientTyped, TypedAccounts, AccountTypeOK, Account
<1>5. SignUp(u) => account'[u].role \in Roles
    BY DEF SignUp, ClientTyped, TypedAccounts, AccountTypeOK, Roles
<1>6. tab' \in [Tabs -> Memory]
    BY <1>2, <1>3, <1>4, <1>5 DEF Login, AnswerLogin
<1>7. events' \in Nat /\ events' = events + 1 /\ events' <= MaxEvents
    BY HappensType DEF Login
<1> QED
    BY <1>6, <1>7 DEF ClientTyped, Login

LEMMA RefreshType ==
    ASSUME ClientTyped, NEW t \in Tabs, Refresh(t)
    PROVE  ClientTyped'
<1>1. PICK c : c = IF Valid(stored) THEN Call("ok", Session(stored.user, RenewedRole(stored)))
                                    ELSE Call("unauthorized", Null)
    OBVIOUS
<1>2. c \in AnsweredCalls
    <2>1. CASE Valid(stored)
        <3>1. stored \in SessionRecords /\ account[stored.user] # Null
            BY <2>1 DEF Valid, Admitted, ClientTyped, Tokens
        <3>2. stored.user \in Users /\ RenewedRole(stored) \in Roles
            BY <3>1 DEF RenewedRole, SessionRecords, ClientTyped, TypedAccounts, AccountTypeOK, Account
        <3>3. Session(stored.user, RenewedRole(stored)) \in SessionRecords
            BY <3>2 DEF Session, SessionRecords, ClientTyped
        <3> QED
            BY <1>1, <2>1, <3>3, NullIsNoRecord
               DEF Call, AnsweredCalls, Calls, Statuses, Tokens, ClientTyped
    <2>2. CASE ~Valid(stored)
        BY <1>1, <2>2 DEF Call, AnsweredCalls, Calls, Statuses, Tokens, ClientTyped
    <2> QED
        BY <2>1, <2>2
<1>3. PICK m : m = [tab[t] EXCEPT !.refresh = c]
    OBVIOUS
<1>4. m \in Memory
    BY <1>2, <1>3 DEF ClientTyped, Memory
<1>5. tab' \in [Tabs -> Memory]
    BY <1>1, <1>3, <1>4, OneTab DEF Refresh
<1>6. TypedAccounts'
    BY TypedStep DEF Refresh, ClientTyped
<1> QED
    BY <1>5, <1>6 DEF ClientTyped, Refresh

LEMMA DeliverType ==
    ASSUME ClientTyped, NEW t \in Tabs, NEW call \in AnsweredCalls, NEW memory \in Memory,
           Deliver(t, call, memory)
    PROVE  ClientTyped'
<1>1. call.status = "ok" => call.session \in SessionRecords
    BY DEF AnsweredCalls, Calls, Tokens
<1>2. stored' \in Tokens
    BY <1>1, EvictedType DEF Deliver, ClientTyped, Tokens, AnsweredCalls, Calls, Statuses
<1>3. PICK after : after = CASE call.status = "ok" -> [memory EXCEPT !.shown = UserOf(call.session)]
                             [] call.status = "unauthorized" -> Evicted(call.token, memory)
                             [] OTHER -> memory
    OBVIOUS
<1>4. after \in Memory
    <2>1. CASE call.status = "ok"
        <3>1. UserOf(call.session) \in UserRecords \cup {Null}
            BY <1>1, <2>1, UserOfType DEF Tokens
        <3> QED
            BY <1>3, <2>1, <3>1 DEF Memory
    <2>2. CASE call.status = "unauthorized"
        BY <1>3, <2>2, EvictedType
    <2>3. CASE call.status # "ok" /\ call.status # "unauthorized"
        BY <1>3, <2>3
    <2> QED
        BY <2>1, <2>2, <2>3
<1>5. tab' = [tab EXCEPT ![t] = after] /\ Orphaned(t, after)
    BY <1>3 DEF Deliver
<1>6. tab' \in [Tabs -> Memory] /\ batch' \in [Tabs -> Requests \cup {Null}]
    BY <1>4, <1>5, OneTab, OrphanedType
<1>7. TypedAccounts'
    BY TypedStep DEF Deliver, ClientTyped
<1> QED
    BY <1>2, <1>6, <1>7 DEF ClientTyped, Deliver

LEMMA AnswersType ==
    ASSUME ClientTyped, NEW t \in Tabs, DeliverLogin(t) \/ DeliverRefresh(t)
    PROVE  ClientTyped'
<1>1. tab[t] \in Memory /\ tab[t].login \in AnsweredCalls \cup {Null}
      /\ tab[t].refresh \in AnsweredCalls \cup {Null}
    BY DEF ClientTyped, Memory
<1>2. [tab[t] EXCEPT !.login = Null] \in Memory /\ [tab[t] EXCEPT !.refresh = Null] \in Memory
    BY <1>1 DEF Memory
<1>3. CASE DeliverLogin(t)
    <2>1. tab[t].login # Null
        BY <1>3 DEF DeliverLogin, Deliver
    <2> QED
        BY <1>1, <1>2, <1>3, <2>1, DeliverType DEF DeliverLogin
<1>4. CASE DeliverRefresh(t)
    <2>1. tab[t].refresh # Null
        BY <1>4 DEF DeliverRefresh, Deliver
    <2> QED
        BY <1>1, <1>2, <1>4, <2>1, DeliverType DEF DeliverRefresh
<1> QED
    BY <1>3, <1>4

LEMMA UnmountedType ==
    ASSUME NEW find \in [Slots -> MadeFinds \cup {Null}]
    PROVE  /\ Unmounted(find) \in [Slots -> MadeFinds \cup {Null}]
           /\ \A s \in Slots : Unmounted(find)[s] = Null \/ ~Unmounted(find)[s].live
<1>1. ASSUME NEW f \in MadeFinds PROVE [f EXCEPT !.live = FALSE] \in MadeFinds
                                       /\ ~[f EXCEPT !.live = FALSE].live
    BY <1>1 DEF MadeFinds, Finds
<1> QED
    BY <1>1 DEF Unmounted

LEMMA LogoutType ==
    ASSUME ClientTyped, NEW t \in Tabs, Logout(t)
    PROVE  ClientTyped'
<1>1. PICK m : m = [tab[t] EXCEPT !.shown = Null, !.page = NoPage, !.find = Unmounted(tab[t].find)]
    OBVIOUS
<1>2. tab[t] \in Memory /\ tab[t].find \in [Slots -> MadeFinds \cup {Null}]
    BY DEF ClientTyped, Memory
<1>3. Unmounted(tab[t].find) \in [Slots -> MadeFinds \cup {Null}] /\ NoPage \in Pages
    BY <1>2, UnmountedType DEF NoPage, Pages
<1>4. m \in Memory
    BY <1>1, <1>2, <1>3 DEF Memory
<1>5. tab' = [tab EXCEPT ![t] = m]
    BY <1>1, <1>2 DEF Logout, Memory, ClientTyped
<1>6. TypedAccounts'
    BY TypedStep DEF Logout, ClientTyped
<1>7. events' \in Nat /\ events' = events + 1 /\ events' <= MaxEvents
    BY HappensType DEF Logout
<1> QED
    BY <1>4, <1>5, <1>6, <1>7, OneTab DEF ClientTyped, Logout, Tokens

LEMMA ReloadType ==
    ASSUME ClientTyped, NEW t \in Tabs, Reload(t)
    PROVE  ClientTyped'
<1>1. tab' \in [Tabs -> Memory] /\ batch' \in [Tabs -> Requests \cup {Null}]
    BY LoadedType, OneTab, OrphanedType DEF Reload, ClientTyped
<1>2. TypedAccounts'
    BY TypedStep DEF Reload, ClientTyped
<1>3. events' \in Nat /\ events' = events + 1 /\ events' <= MaxEvents
    BY HappensType DEF Reload
<1> QED
    BY <1>1, <1>2, <1>3 DEF ClientTyped, Reload

LEMMA QueryType ==
    ASSUME ClientTyped, NEW q \in Searches, NEW leg \in {"main", "fallback"}, NEW live \in BOOLEAN,
           leg = "fallback" => q \in Empty
    PROVE  Query(q, leg, live) \in MadeFinds
<1>1. (IF Valid(stored) THEN "ok" ELSE "unauthorized") \in Statuses
    BY DEF Statuses
<1> QED
    BY <1>1 DEF Query, MadeFinds, Finds, ClientTyped

LEMMA SearchType ==
    ASSUME ClientTyped, NEW t \in Tabs, NEW s \in Slots, NEW q \in Searches, Search(t, s, q)
    PROVE  ClientTyped'
<1>1. PICK f : f = [tab[t].find EXCEPT ![s] = Query(q, "main", TRUE)]
    OBVIOUS
<1>2. PICK p : p = [tab[t].page EXCEPT !.url = q]
    OBVIOUS
<1>3. tab[t] \in Memory /\ f \in [Slots -> MadeFinds \cup {Null}]
    BY <1>1, QueryType DEF ClientTyped, Memory
<1>4. p \in Pages
    BY <1>2 DEF ClientTyped, Memory, Pages
<1>5. PICK m : m = [tab[t] EXCEPT !.page = p, !.find = f]
    OBVIOUS
<1>6. m \in Memory
    BY <1>3, <1>4, <1>5 DEF Memory
<1>7. tab' = [tab EXCEPT ![t] = m]
    BY <1>1, <1>2, <1>3, <1>5 DEF Search, Memory, ClientTyped
<1>8. TypedAccounts'
    BY TypedStep DEF Search, ClientTyped
<1>9. events' \in Nat /\ events' = events + 1 /\ events' <= MaxEvents
    BY HappensType DEF Search
<1> QED
    BY <1>6, <1>7, <1>8, <1>9, OneTab DEF ClientTyped, Search

LEMMA SettledType ==
    ASSUME NEW page \in Pages, NEW call \in MadeFinds
    PROVE  [Settled(page, call) EXCEPT !.late = Late(page, call)] \in Pages
<1>1. call.query \in Searches /\ call.status \in Statuses
    BY DEF MadeFinds, Finds
<1>2. Late(page, call) \in BOOLEAN
    BY DEF Late, Pages
<1>3. PICK n : n = IF call.query \in Recoverable THEN call.query ELSE Null
    OBVIOUS
<1>4. PICK o : o = IF call.query \in Empty THEN page.fallback ELSE Null
    OBVIOUS
<1>5. n \in Searches \cup {Null} /\ o \in Searches \cup {Null}
    BY <1>1, <1>3, <1>4 DEF Pages
<1>6. \/ Settled(page, call) = page
      \/ Settled(page, call) = [page EXCEPT !.results = call.query, !.fallback = o]
      \/ Settled(page, call) = [page EXCEPT !.fallback = n]
    BY <1>3, <1>4 DEF Settled
<1>7. Settled(page, call) \in Pages
    BY <1>1, <1>5, <1>6 DEF Pages
<1> QED
    BY <1>2, <1>7 DEF Pages

\* The memory of a tab whose search has been answered, before a 401 evicts it.
Answered(t, s) ==
    [tab[t] EXCEPT
        !.find[s] = IF AsksAgain(tab[t].find[s])
                    THEN Query(tab[t].find[s].query, "fallback", tab[t].find[s].live) ELSE Null,
        !.page = IF tab[t].find[s].live
                 THEN [Settled(tab[t].page, tab[t].find[s]) EXCEPT
                          !.late = Late(tab[t].page, tab[t].find[s])]
                 ELSE tab[t].page]

LEMMA AnsweredType ==
    ASSUME ClientTyped, NEW t \in Tabs, NEW s \in Slots, NEW call, call = tab[t].find[s],
           call # Null, NEW m, m = Answered(t, s)
    PROVE  /\ m \in Memory /\ call \in MadeFinds /\ m.upload = tab[t].upload
           /\ m.find = [tab[t].find EXCEPT ![s] =
                           IF AsksAgain(call) THEN Query(call.query, "fallback", call.live) ELSE Null]
           /\ m.page = IF call.live
                       THEN [Settled(tab[t].page, call) EXCEPT !.late = Late(tab[t].page, call)]
                       ELSE tab[t].page
<1>1. PICK mem : mem = tab[t]
    OBVIOUS
<1>2. mem \in Memory /\ call \in MadeFinds /\ mem.page \in Pages
    BY <1>1 DEF ClientTyped, Memory
<1>3. PICK next : next = IF AsksAgain(call) THEN Query(call.query, "fallback", call.live) ELSE Null
    OBVIOUS
<1>4. next \in MadeFinds \cup {Null}
    BY <1>2, <1>3, QueryType DEF AsksAgain, MadeFinds, Finds
<1>5. PICK p : p = IF call.live
                   THEN [Settled(mem.page, call) EXCEPT !.late = Late(mem.page, call)]
                   ELSE mem.page
    OBVIOUS
<1>6. p \in Pages
    BY <1>2, <1>5, SettledType
<1>7. PICK f : f = [mem.find EXCEPT ![s] = next]
    OBVIOUS
<1>8. f \in [Slots -> MadeFinds \cup {Null}]
    BY <1>2, <1>4, <1>7 DEF Memory
<1>9. m = [mem EXCEPT !.find = f, !.page = p]
    BY <1>1, <1>2, <1>3, <1>5, <1>7 DEF Answered, Memory
<1>10. m \in Memory /\ m.find = f /\ m.page = p /\ m.upload = mem.upload
    BY <1>2, <1>6, <1>8, <1>9 DEF Memory
<1> QED
    BY <1>1, <1>2, <1>3, <1>5, <1>7, <1>10

LEMMA DeliverFindType ==
    ASSUME ClientTyped, NEW t \in Tabs, NEW s \in Slots, DeliverFind(t, s)
    PROVE  ClientTyped'
<1>1. PICK call : call = tab[t].find[s]
    OBVIOUS
<1>2. PICK m : m = Answered(t, s)
    OBVIOUS
<1>3. PICK after : after = IF call.status = "unauthorized" THEN Evicted(call.token, m) ELSE m
    OBVIOUS
<1>4. call # Null
    BY <1>1 DEF DeliverFind
<1>5. after \in Memory
    BY <1>1, <1>2, <1>3, <1>4, AnsweredType, EvictedType
<1>6. /\ stored' = (IF call.status = "unauthorized" THEN Dropped(call.token) ELSE stored)
      /\ tab' = [tab EXCEPT ![t] = after] /\ Orphaned(t, after)
    BY <1>1, <1>2, <1>3 DEF DeliverFind, Answered
<1>7. stored' \in Tokens
    BY <1>6, <1>5, <1>4, <1>1, <1>2, AnsweredType, EvictedType DEF ClientTyped
<1>8. tab' \in [Tabs -> Memory] /\ batch' \in [Tabs -> Requests \cup {Null}]
    BY <1>5, <1>6, OneTab, OrphanedType
<1>9. TypedAccounts'
    BY TypedStep DEF DeliverFind, ClientTyped
<1> QED
    BY <1>7, <1>8, <1>9 DEF ClientTyped, DeliverFind

\* A live request is the one for the batch its page is waiting for.
Rides(upload, call) ==
    call # Null /\ call.live =>
        /\ upload.pc = "busy"
        /\ call.files = upload.batches[upload.next]
        /\ call.replace = Replaces(upload)

RidesOn == \A t \in Tabs : Rides(tab[t].upload, batch[t])

LEMMA UploadOfType ==
    ASSUME ClientTyped, NEW t \in Tabs
    PROVE  /\ tab[t] \in Memory
           /\ tab[t].upload # NoUpload => tab[t].upload \in Uploads
           /\ tab[t].upload.pc # "idle" <=> tab[t].upload # NoUpload
  BY DEF ClientTyped, Memory, Uploads, Cards, NoUpload

\* Writing the upload card of one tab.
LEMMA OneUpload ==
    ASSUME ClientTyped, NEW t \in Tabs, NEW u \in Uploads, tab' = [tab EXCEPT ![t].upload = u]
    PROVE  tab' \in [Tabs -> Memory]
<1>1. PICK m : m = [tab[t] EXCEPT !.upload = u]
    OBVIOUS
<1>2. m \in Memory
    BY <1>1 DEF ClientTyped, Memory
<1>3. tab' = [tab EXCEPT ![t] = m]
    BY <1>1
<1> QED
    BY <1>2, <1>3, OneTab

LEMMA RequestType ==
    ASSUME ClientTyped, NEW upload \in Uploads, upload.pc = "busy"
    PROVE  Request(upload) \in Requests
<1>1. upload.batches[upload.next] \in Parts
    <2>1. /\ upload.archive \in Archives /\ upload.batches = Batches(upload.archive)
          /\ upload.next \in DOMAIN upload.batches
        BY DEF Uploads, Cards
    <2> QED
        BY <2>1 DEF Parts
<1>2. Replaces(upload) \in BOOLEAN
    BY DEF Replaces, Uploads, Cards
<1> QED
    BY <1>1, <1>2 DEF Request, Requests, ClientTyped

LEMMA StartUploadType ==
    ASSUME ClientTyped, NEW t \in Tabs, NEW archive \in Archives, NEW replace \in BOOLEAN,
           StartUpload(t, archive, replace)
    PROVE  ClientTyped'
<1>1. PICK pc \in {"busy", "error"} :
        /\ pc = "busy" => Batches(archive) # <<>>
        /\ tab' = [tab EXCEPT ![t].upload =
                [pc |-> pc, archive |-> archive, batches |-> Batches(archive), next |-> 1,
                 replace |-> replace, before |-> dataset, alone |-> TRUE]]
    BY DEF StartUpload
<1>. DEFINE u == [pc |-> pc, archive |-> archive, batches |-> Batches(archive), next |-> 1,
                  replace |-> replace, before |-> dataset, alone |-> TRUE]
<1>2. u \in Uploads
    <2>1. u \in Cards
        BY DEF Cards, ClientTyped
    <2> QED
        BY <1>1, <2>1 DEF Uploads
<1>3. tab' \in [Tabs -> Memory]
    BY <1>1, <1>2, OneUpload
<1>4. TypedAccounts'
    BY TypedStep DEF StartUpload, ClientTyped
<1>5. events' \in Nat /\ events' = events + 1 /\ events' <= MaxEvents
    BY HappensType DEF StartUpload
<1> QED
    BY <1>3, <1>4, <1>5 DEF ClientTyped, StartUpload

LEMMA SendFirstType ==
    ASSUME ClientTyped, NEW t \in Tabs, SendFirst(t)
    PROVE  ClientTyped'
<1>1. tab[t].upload \in Uploads /\ tab[t].upload.pc = "busy"
    BY UploadOfType DEF SendFirst
<1>2. batch' \in [Tabs -> Requests \cup {Null}]
    BY <1>1, RequestType DEF SendFirst, ClientTyped
<1>3. TypedAccounts'
    BY TypedStep DEF SendFirst, ClientTyped
<1> QED
    BY <1>2, <1>3 DEF ClientTyped, SendFirst

\* The batches of an archive are about the MNOs of the archive, and all of them.
LEMMA BatchesAddUp ==
    ASSUME NEW archive \in Archives
    PROVE  Tadigs(archive) = UNION {Tadigs(Batches(archive)[n]) : n \in DOMAIN Batches(archive)}
<1>1. PICK b : b = Batches(archive)
    OBVIOUS
<1>2. /\ b \in Seq(Seq(FilesOf(archive)))
      /\ \A f \in FilesOf(archive) : f.kind \in {"xml", "pdf"} => Holds(b, f)
    BY <1>1, BatchesAreSound
<1>3. ASSUME NEW d \in Tadigs(archive) PROVE \E n \in DOMAIN b : d \in Tadigs(b[n])
    <2>1. PICK i \in DOMAIN archive : archive[i].kind = "xml" /\ d = archive[i].tadig
        BY <1>3 DEF Tadigs
    <2>2. Holds(b, archive[i])
        BY <1>2, <2>1 DEF FilesOf
    <2> QED
        BY <2>1, <2>2 DEF Holds, Tadigs
<1>4. ASSUME NEW n \in DOMAIN b, NEW d \in Tadigs(b[n]) PROVE d \in Tadigs(archive)
    <2>1. PICK m \in DOMAIN b[n] : b[n][m].kind = "xml" /\ d = b[n][m].tadig
        BY <1>4 DEF Tadigs
    <2>2. b[n] \in Seq(FilesOf(archive))
        BY <1>2
    <2>3. PICK i \in DOMAIN archive : b[n][m] = archive[i]
        BY <2>2 DEF FilesOf
    <2> QED
        BY <2>1, <2>3 DEF Tadigs
<1> QED
    BY <1>1, <1>3, <1>4

LEMMA PartsAddNothing ==
    ASSUME NEW files \in Parts
    PROVE  Tadigs(files) \subseteq AllTadigs
<1>1. PICK archive \in Archives : \E n \in DOMAIN Batches(archive) : files = Batches(archive)[n]
    BY DEF Parts
<1>2. Tadigs(files) \subseteq Tadigs(archive)
    BY <1>1, BatchesAddUp
<1> QED
    BY <1>2 DEF AllTadigs

\* A request applied touches no more of the tabs than that they are not alone.
LEMMA ApplyType ==
    ASSUME ClientTyped, NEW t, NEW files \in Parts \cup OtherArchives, NEW replace \in BOOLEAN,
           Apply(t, files, replace)
    PROVE  tab' \in [Tabs -> Memory] /\ dataset' \subseteq AllTadigs
<1>1. Tadigs(files) \subseteq AllTadigs
    BY PartsAddNothing DEF AllTadigs
<1>2. dataset' \subseteq AllTadigs
    BY <1>1 DEF Apply, ClientTyped
<1>3. ASSUME NEW p \in Tabs PROVE tab'[p] \in Memory
    <2>1. CASE p # t /\ tab[p].upload # NoUpload
        <3>1. PICK u : u = [tab[p].upload EXCEPT !.alone = FALSE]
            OBVIOUS
        <3>2. u \in Uploads
            BY <2>1, <3>1, UploadOfType DEF Uploads, Cards
        <3>3. tab'[p] = [tab[p] EXCEPT !.upload = u]
            BY <2>1, <3>1 DEF Apply
        <3> QED
            BY <3>2, <3>3, UploadOfType DEF Memory
    <2>2. CASE ~(p # t /\ tab[p].upload # NoUpload)
        BY <2>2, UploadOfType DEF Apply
    <2> QED
        BY <2>1, <2>2
<1> QED
    BY <1>2, <1>3 DEF Apply

LEMMA ServeBatchType ==
    ASSUME ClientTyped, NEW t \in Tabs, ServeBatch(t)
    PROVE  ClientTyped'
<1>1. PICK call : call = batch[t]
    OBVIOUS
<1>2. call \in Requests
    BY <1>1 DEF ServeBatch, ClientTyped
<1>3. PICK s : s = IF Valid(call.token) /\ IsAdmin(call.token.user) THEN "ok" ELSE "error"
    OBVIOUS
<1>4. batch' = [batch EXCEPT ![t].status = s]
    BY <1>1, <1>3 DEF ServeBatch
<1>5. [call EXCEPT !.status = s] \in Requests
    BY <1>2, <1>3 DEF Requests
<1>6. batch' \in [Tabs -> Requests \cup {Null}]
    BY <1>1, <1>4, <1>5 DEF ClientTyped
<1>7. tab' \in [Tabs -> Memory] /\ dataset' \subseteq AllTadigs
    <2>1. call.files \in Parts \cup OtherArchives /\ call.replace \in BOOLEAN
        BY <1>2 DEF Requests
    <2>2. CASE Valid(call.token) /\ IsAdmin(call.token.user)
        BY <1>1, <2>1, <2>2, ApplyType DEF ServeBatch
    <2>3. CASE ~(Valid(call.token) /\ IsAdmin(call.token.user))
        BY <1>1, <2>3 DEF ServeBatch, ClientTyped
    <2> QED
        BY <2>2, <2>3
<1>8. TypedAccounts'
    BY TypedStep DEF ServeBatch, ClientTyped
<1> QED
    BY <1>6, <1>7, <1>8 DEF ClientTyped, ServeBatch

LEMMA ContinuedType ==
    ASSUME NEW upload \in Uploads
    PROVE  /\ GivenUp(upload) \in Uploads
           /\ upload.pc = "busy" => Continued(upload) \in Uploads
<1>1. GivenUp(upload) \in Uploads
    BY DEF GivenUp, Uploads, Cards
<1>2. CASE upload.pc = "busy" /\ upload.next = Len(upload.batches)
    BY <1>1, <1>2 DEF Continued, Uploads, Cards
<1>3. CASE upload.pc = "busy" /\ upload.next # Len(upload.batches)
    <2>1. PICK b : b = upload.batches
        OBVIOUS
    <2>2. b \in Seq(Seq(FilesOf(upload.archive))) /\ upload.next \in DOMAIN b
        BY <1>3, <2>1, BatchesAreSound DEF Uploads, Cards
    <2>3. upload.next + 1 \in DOMAIN b
        BY <1>3, <2>1, <2>2
    <2>4. Continued(upload) = [upload EXCEPT !.next = upload.next + 1]
        BY <1>3 DEF Continued
    <2> QED
        BY <1>1, <1>3, <2>1, <2>3, <2>4 DEF Uploads, Cards
<1> QED
    BY <1>1, <1>2, <1>3

LEMMA DeliverBatchType ==
    ASSUME ClientTyped, RidesOn, NEW t \in Tabs, DeliverBatch(t)
    PROVE  ClientTyped'
<1>1. PICK call : call = batch[t]
    OBVIOUS
<1>2. call \in Requests
    BY <1>1 DEF DeliverBatch, ClientTyped
<1>3. PICK u : u = IF call.status = "ok" THEN Continued(tab[t].upload) ELSE GivenUp(tab[t].upload)
    OBVIOUS
<1>4. tab' \in [Tabs -> Memory] /\ batch' \in [Tabs -> Requests \cup {Null}]
    <2>1. CASE call.live
        <3>1. tab[t].upload \in Uploads /\ tab[t].upload.pc = "busy"
            BY <1>1, <1>2, <2>1, UploadOfType DEF RidesOn, Rides, DeliverBatch
        <3>2. u \in Uploads
            BY <1>3, <3>1, ContinuedType
        <3>3. u.pc = "busy" => Request(u) \in Requests
            BY <3>2, RequestType
        <3>4. tab' = [tab EXCEPT ![t].upload = u]
              /\ batch' = [batch EXCEPT ![t] =
                    IF call.status = "ok" /\ u.pc = "busy" THEN Request(u) ELSE Null]
            BY <1>1, <1>3, <2>1 DEF DeliverBatch
        <3> QED
            BY <3>2, <3>3, <3>4, OneUpload DEF ClientTyped
    <2>2. CASE ~call.live
        BY <1>1, <2>2 DEF DeliverBatch, ClientTyped
    <2> QED
        BY <2>1, <2>2
<1>5. TypedAccounts'
    BY TypedStep DEF DeliverBatch, ClientTyped
<1> QED
    BY <1>4, <1>5 DEF ClientTyped, DeliverBatch

LEMMA BrokenType ==
    /\ \A c \in AnsweredCalls : LostSession(c) \in AnsweredCalls
    /\ \A f \in MadeFinds : Broken(f) \in MadeFinds
    /\ \A r \in Requests : Broken(r) \in Requests
<1>1. ASSUME NEW c \in AnsweredCalls PROVE LostSession(c) \in AnsweredCalls
    BY DEF LostSession, AnsweredCalls, Calls, Statuses, Tokens
<1>2. ASSUME NEW f \in MadeFinds PROVE Broken(f) \in MadeFinds
    BY DEF Broken, MadeFinds, Finds, Statuses
<1>3. ASSUME NEW r \in Requests PROVE Broken(r) \in Requests
    BY DEF Broken, Requests
<1> QED
    BY <1>1, <1>2, <1>3

LEMMA LoseCallType ==
    ASSUME ClientTyped, NEW t \in Tabs, LoseCall(t)
    PROVE  ClientTyped'
<1>1. PICK mem : mem = tab[t]
    OBVIOUS
<1>2. mem \in Memory
    BY <1>1 DEF ClientTyped
<1>3. tab' \in [Tabs -> Memory] /\ batch' \in [Tabs -> Requests \cup {Null}]
    <2>1. CASE /\ Live(mem.login)
               /\ tab' = [tab EXCEPT ![t].login = LostSession(@)] /\ UNCHANGED batch
        <3>1. mem.login \in AnsweredCalls
            BY <1>2, <2>1 DEF Memory, Live
        <3>2. PICK m : m = [mem EXCEPT !.login = LostSession(mem.login)]
            OBVIOUS
        <3>3. m \in Memory
            BY <1>2, <3>1, <3>2, BrokenType DEF Memory
        <3>4. tab' = [tab EXCEPT ![t] = m]
            BY <1>1, <2>1, <3>2 DEF ClientTyped
        <3> QED
            BY <2>1, <3>3, <3>4, OneTab DEF ClientTyped
    <2>2. CASE /\ Live(mem.refresh)
               /\ tab' = [tab EXCEPT ![t].refresh = LostSession(@)] /\ UNCHANGED batch
        <3>1. mem.refresh \in AnsweredCalls
            BY <1>2, <2>2 DEF Memory, Live
        <3>2. PICK m : m = [mem EXCEPT !.refresh = LostSession(mem.refresh)]
            OBVIOUS
        <3>3. m \in Memory
            BY <1>2, <3>1, <3>2, BrokenType DEF Memory
        <3>4. tab' = [tab EXCEPT ![t] = m]
            BY <1>1, <2>2, <3>2 DEF ClientTyped
        <3> QED
            BY <2>2, <3>3, <3>4, OneTab DEF ClientTyped
    <2>3. ASSUME NEW s \in Slots, Live(mem.find[s]),
                 tab' = [tab EXCEPT ![t].find[s] = Broken(@)], UNCHANGED batch
          PROVE  tab' \in [Tabs -> Memory] /\ batch' \in [Tabs -> Requests \cup {Null}]
        <3>1. mem.find[s] \in MadeFinds
            BY <1>2, <2>3 DEF Memory, Live
        <3>2. PICK f : f = [mem.find EXCEPT ![s] = Broken(mem.find[s])]
            OBVIOUS
        <3>3. f \in [Slots -> MadeFinds \cup {Null}]
            BY <1>2, <3>1, <3>2, BrokenType DEF Memory
        <3>4. PICK m : m = [mem EXCEPT !.find = f]
            OBVIOUS
        <3>5. m \in Memory
            BY <1>2, <3>3, <3>4 DEF Memory
        <3>6. tab' = [tab EXCEPT ![t] = m]
            BY <1>1, <2>3, <3>2, <3>4 DEF ClientTyped
        <3> QED
            BY <2>3, <3>5, <3>6, OneTab DEF ClientTyped
    <2>4. CASE /\ Live(batch[t])
               /\ batch' = [batch EXCEPT ![t] = Broken(@)] /\ UNCHANGED tab
        BY <2>4, BrokenType DEF ClientTyped, Live
    <2> QED
        BY <1>1, <2>1, <2>2, <2>3, <2>4 DEF LoseCall
<1>4. TypedAccounts'
    BY TypedStep DEF LoseCall, ClientTyped
<1>5. events' \in Nat /\ events' = events + 1 /\ events' <= MaxEvents
    BY HappensType DEF LoseCall
<1> QED
    BY <1>3, <1>4, <1>5 DEF ClientTyped, LoseCall

LEMMA EnvironmentType ==
    ASSUME ClientTyped, TypedAccounts', OtherAdmins \/ OtherUpload \/ Tick
    PROVE  ClientTyped'
<1>1. CASE OtherAdmins
    BY <1>1 DEF OtherAdmins, clientVars, ClientTyped
<1>2. CASE OtherUpload
    <2>1. tab' \in [Tabs -> Memory] /\ dataset' \subseteq AllTadigs
        BY <1>2, ApplyType DEF OtherUpload
    <2>2. events' \in Nat /\ events' = events + 1 /\ events' <= MaxEvents
        BY <1>2, HappensType DEF OtherUpload
    <2> QED
        BY <1>2, <2>1, <2>2 DEF ClientTyped, OtherUpload
<1>3. CASE Tick
    <2>1. events' \in Nat /\ events' = events + 1 /\ events' <= MaxEvents
        BY <1>3, HappensType DEF Tick
    <2> QED
        BY <1>3, <2>1 DEF ClientTyped, Tick
<1> QED
    BY <1>1, <1>2, <1>3

LEMMA ClientTypedStep == ClientTyped /\ RidesOn /\ [Next]_vars => ClientTyped'
<1> SUFFICES ASSUME ClientTyped, RidesOn, [Next]_vars PROVE ClientTyped'
    OBVIOUS
<1>1. TypedAccounts'
    BY ClientStep, TypedStep DEF ClientTyped
<1>2. CASE UNCHANGED vars
    BY <1>1, <1>2 DEF vars, clientVars, ClientTyped
<1>3. ASSUME NEW t \in Tabs, Person(t) PROVE ClientTyped'
    BY <1>1, <1>3, LoginType, LogoutType, ReloadType, SearchType, StartUploadType DEF Person
<1>4. ASSUME NEW t \in Tabs, Refresh(t) \/ SendFirst(t) \/ ServeBatch(t) \/ Answer(t) \/ LoseCall(t)
      PROVE  ClientTyped'
    BY <1>4, RefreshType, SendFirstType, ServeBatchType, AnswersType, DeliverFindType,
       DeliverBatchType, LoseCallType DEF Answer
<1>5. CASE OtherAdmins \/ OtherUpload \/ Tick
    BY <1>1, <1>5, EnvironmentType
<1> QED
    BY <1>2, <1>3, <1>4, <1>5 DEF Next

-----------------------------------------------------------------------------
(* What a step that is not about the upload leaves of it: all, or only the  *)
(* request of a page that is gone.  And what a step that is not about the   *)
(* search leaves of it.                                                     *)

UploadsLeftAlone ==
    /\ dataset' = dataset
    /\ \A p \in Tabs :
        \/ tab'[p].upload = tab[p].upload /\ batch'[p] = batch[p]
        \/ /\ tab'[p].upload = NoUpload
           /\ batch'[p] = IF batch[p] = Null THEN Null ELSE [batch[p] EXCEPT !.live = FALSE]

SearchesLeftAlone ==
    \A p \in Tabs :
        \/ tab'[p].page = tab[p].page /\ tab'[p].find = tab[p].find
        \/ tab'[p].page.url = Null

LEMMA EvictedKeeps ==
    ASSUME ClientTyped, NEW token, NEW memory \in Memory
    PROVE  \/ Evicted(token, memory) = memory
           \/ Evicted(token, memory).upload = NoUpload /\ Evicted(token, memory).page.url = Null
  BY DEF Evicted, Loaded, NoPage

LEMMA OrphanedLeaves ==
    ASSUME ClientTyped, NEW t \in Tabs, NEW m \in Memory, tab' = [tab EXCEPT ![t] = m],
           m.upload = tab[t].upload \/ m.upload = NoUpload, Orphaned(t, m), dataset' = dataset
    PROVE  UploadsLeftAlone
<1>1. ASSUME NEW p \in Tabs, p # t
      PROVE  tab'[p].upload = tab[p].upload /\ batch'[p] = batch[p]
    BY <1>1 DEF ClientTyped, Orphaned
<1>2. CASE m.upload = NoUpload
    <2>1. tab'[t].upload = NoUpload
          /\ batch'[t] = IF batch[t] = Null THEN Null ELSE [batch[t] EXCEPT !.live = FALSE]
        BY <1>2 DEF ClientTyped, Orphaned
    <2> QED
        BY <1>1, <2>1 DEF UploadsLeftAlone
<1>3. CASE m.upload = tab[t].upload /\ m.upload # NoUpload
    <2>1. tab'[t].upload = tab[t].upload /\ batch'[t] = batch[t]
        BY <1>3 DEF ClientTyped, Orphaned
    <2> QED
        BY <1>1, <2>1 DEF UploadsLeftAlone
<1> QED
    BY <1>2, <1>3

LEMMA SearchOfOneTab ==
    ASSUME ClientTyped, NEW t \in Tabs, NEW m \in Memory, tab' = [tab EXCEPT ![t] = m],
           (m.page = tab[t].page /\ m.find = tab[t].find) \/ m.page.url = Null
    PROVE  SearchesLeftAlone
  BY DEF SearchesLeftAlone, ClientTyped

LEMMA AnswersLeaveAlone ==
    ASSUME ClientTyped, NEW t \in Tabs, DeliverLogin(t) \/ DeliverRefresh(t)
    PROVE  UploadsLeftAlone /\ SearchesLeftAlone
<1>1. ASSUME NEW call \in AnsweredCalls, NEW memory \in Memory, Deliver(t, call, memory),
             memory.upload = tab[t].upload, memory.page = tab[t].page, memory.find = tab[t].find
      PROVE  UploadsLeftAlone /\ SearchesLeftAlone
    <2>1. PICK after : after = CASE call.status = "ok" -> [memory EXCEPT !.shown = UserOf(call.session)]
                                 [] call.status = "unauthorized" -> Evicted(call.token, memory)
                                 [] OTHER -> memory
        OBVIOUS
    <2>2. /\ after \in Memory
          /\ \/ /\ after.upload = memory.upload /\ after.page = memory.page
                /\ after.find = memory.find
             \/ after.upload = NoUpload /\ after.page.url = Null
        <3>1. CASE call.status = "ok"
            <4>1. call.session \in Tokens
                BY DEF AnsweredCalls, Calls
            <4>2. UserOf(call.session) \in UserRecords \cup {Null}
                BY <4>1, UserOfType
            <4> QED
                BY <2>1, <3>1, <4>2 DEF Memory
        <3>2. CASE call.status = "unauthorized"
            BY <2>1, <3>2, EvictedKeeps, EvictedType
        <3>3. CASE call.status # "ok" /\ call.status # "unauthorized"
            BY <2>1, <3>3
        <3> QED
            BY <3>1, <3>2, <3>3
    <2>3. tab' = [tab EXCEPT ![t] = after] /\ Orphaned(t, after) /\ dataset' = dataset
        BY <1>1, <2>1 DEF Deliver
    <2> QED
        BY <1>1, <2>2, <2>3, OrphanedLeaves, SearchOfOneTab
<1>2. tab[t] \in Memory /\ tab[t].login \in AnsweredCalls \cup {Null}
      /\ tab[t].refresh \in AnsweredCalls \cup {Null}
    BY DEF ClientTyped, Memory
<1>3. ASSUME DeliverLogin(t) PROVE UploadsLeftAlone /\ SearchesLeftAlone
    <2>1. PICK m : m = [tab[t] EXCEPT !.login = Null]
        OBVIOUS
    <2>2. m \in Memory /\ m.upload = tab[t].upload /\ m.page = tab[t].page /\ m.find = tab[t].find
        BY <1>2, <2>1 DEF Memory
    <2>3. tab[t].login # Null /\ Deliver(t, tab[t].login, m)
        BY <1>3, <2>1 DEF DeliverLogin, Deliver
    <2> QED
        BY <1>1, <1>2, <2>2, <2>3
<1>4. ASSUME DeliverRefresh(t) PROVE UploadsLeftAlone /\ SearchesLeftAlone
    <2>1. PICK m : m = [tab[t] EXCEPT !.refresh = Null]
        OBVIOUS
    <2>2. m \in Memory /\ m.upload = tab[t].upload /\ m.page = tab[t].page /\ m.find = tab[t].find
        BY <1>2, <2>1 DEF Memory
    <2>3. tab[t].refresh # Null /\ Deliver(t, tab[t].refresh, m)
        BY <1>4, <2>1 DEF DeliverRefresh, Deliver
    <2> QED
        BY <1>1, <1>2, <2>2, <2>3
<1> QED
    BY <1>3, <1>4

LEMMA SessionsLeaveAlone ==
    ASSUME ClientTyped, NEW t \in Tabs,
           \/ \E u \in Users, how \in {"password", "wrong", "microsoft"} : Login(t, u, how)
           \/ Refresh(t) \/ Logout(t) \/ Reload(t)
    PROVE  UploadsLeftAlone /\ SearchesLeftAlone
<1>1. ASSUME NEW u \in Users, NEW how, Login(t, u, how)
      PROVE  UploadsLeftAlone /\ SearchesLeftAlone
    <2>1. PICK c : tab' = [tab EXCEPT ![t].login = c]
        BY <1>1 DEF Login, AnswerLogin, Replied
    <2> QED
        BY <1>1, <2>1 DEF Login, UploadsLeftAlone, SearchesLeftAlone, ClientTyped, Memory
<1>2. CASE Refresh(t)
    <2>1. PICK c : tab' = [tab EXCEPT ![t].refresh = c]
        BY <1>2 DEF Refresh
    <2> QED
        BY <1>2, <2>1 DEF Refresh, UploadsLeftAlone, SearchesLeftAlone, ClientTyped, Memory
<1>3. CASE Logout(t)
    <2>1. PICK f : tab' = [tab EXCEPT ![t].shown = Null, ![t].page = NoPage, ![t].find = f]
        BY <1>3 DEF Logout
    <2>2. \A p \in Tabs : /\ tab'[p].upload = tab[p].upload
                          /\ p # t => tab'[p].page = tab[p].page /\ tab'[p].find = tab[p].find
                          /\ p = t => tab'[p].page = NoPage
        BY <2>1 DEF ClientTyped, Memory
    <2>3. UploadsLeftAlone
        BY <1>3, <2>2 DEF Logout, UploadsLeftAlone
    <2>4. NoPage.url = Null
        BY DEF NoPage
    <2>5. SearchesLeftAlone
        BY <2>2, <2>4 DEF SearchesLeftAlone
    <2> QED
        BY <2>3, <2>5
<1>4. CASE Reload(t)
    <2>1. PICK m : m = Loaded(stored)
        OBVIOUS
    <2>2. m \in Memory /\ m.upload = NoUpload /\ m.page.url = Null
        BY <2>1, LoadedType DEF ClientTyped, Loaded, NoPage
    <2> QED
        BY <1>4, <2>1, <2>2, OrphanedLeaves, SearchOfOneTab DEF Reload
<1> QED
    BY <1>1, <1>2, <1>3, <1>4

LEMMA SearchingLeavesUploads ==
    ASSUME ClientTyped, NEW t \in Tabs, NEW s \in Slots,
           (\E q \in Searches : Search(t, s, q)) \/ DeliverFind(t, s)
    PROVE  UploadsLeftAlone
<1>1. ASSUME NEW q \in Searches, Search(t, s, q) PROVE UploadsLeftAlone
    <2>1. PICK c : tab' = [tab EXCEPT ![t].page.url = q, ![t].find[s] = c]
        BY <1>1 DEF Search
    <2>2. \A p \in Tabs : tab'[p].upload = tab[p].upload
        <3>1. PICK mem : mem = tab[t]
            OBVIOUS
        <3>2. PICK m : m = [mem EXCEPT !.page.url = q, !.find[s] = c]
            OBVIOUS
        <3>3. m.upload = mem.upload
            BY <3>1, <3>2 DEF ClientTyped, Memory
        <3>4. tab' = [tab EXCEPT ![t] = m]
            BY <2>1, <3>1, <3>2 DEF ClientTyped, Memory
        <3> QED
            BY <3>1, <3>3, <3>4 DEF ClientTyped
    <2> QED
        BY <1>1, <2>2 DEF Search, UploadsLeftAlone
<1>2. CASE DeliverFind(t, s)
    <2>1. PICK call : call = tab[t].find[s]
        OBVIOUS
    <2>2. PICK m : m = Answered(t, s)
        OBVIOUS
    <2>3. PICK after : after = IF call.status = "unauthorized" THEN Evicted(call.token, m) ELSE m
        OBVIOUS
    <2>4. call # Null /\ tab' = [tab EXCEPT ![t] = after] /\ Orphaned(t, after) /\ dataset' = dataset
        BY <1>2, <2>1, <2>2, <2>3 DEF DeliverFind, Answered
    <2>5. m \in Memory /\ m.upload = tab[t].upload
        <3>1. m \in Memory
            BY <2>1, <2>2, <2>4, AnsweredType
        <3>2. m.upload = tab[t].upload
            BY <2>2 DEF Answered, ClientTyped, Memory
        <3> QED
            BY <3>1, <3>2
    <2>6. after \in Memory /\ (after.upload = m.upload \/ after.upload = NoUpload)
        BY <2>3, <2>5, EvictedType, EvictedKeeps
    <2> QED
        BY <2>4, <2>5, <2>6, OrphanedLeaves
<1> QED
    BY <1>1, <1>2

\* The request of an upload, or the call of a search, is lost to the network.
RequestLost(t) ==
    /\ batch[t] # Null
    /\ batch' = [batch EXCEPT ![t] = Broken(@)] /\ tab' = tab /\ dataset' = dataset
FindLost(t, s) ==
    /\ tab[t].find[s] # Null
    /\ tab' = [tab EXCEPT ![t].find[s] = Broken(@)] /\ batch' = batch /\ dataset' = dataset

LEMMA LoseCallCases ==
    ASSUME ClientTyped, NEW t \in Tabs, LoseCall(t)
    PROVE  \/ UploadsLeftAlone /\ SearchesLeftAlone
           \/ RequestLost(t) /\ SearchesLeftAlone
           \/ UploadsLeftAlone /\ \E s \in Slots : FindLost(t, s)
<1>1. PICK mem : mem = tab[t]
    OBVIOUS
<1>2. mem \in Memory
    BY <1>1 DEF ClientTyped
<1>3. ASSUME NEW c, tab' = [tab EXCEPT ![t].login = c] \/ tab' = [tab EXCEPT ![t].refresh = c],
             batch' = batch
      PROVE  UploadsLeftAlone /\ SearchesLeftAlone
    <2>1. PICK m : /\ m = [mem EXCEPT !.login = c] \/ m = [mem EXCEPT !.refresh = c]
                   /\ tab' = [tab EXCEPT ![t] = m]
        BY <1>1, <1>3
    <2>2. m.upload = mem.upload /\ m.page = mem.page /\ m.find = mem.find
        BY <1>2, <2>1 DEF Memory
    <2>3. \A p \in Tabs : tab'[p].upload = tab[p].upload /\ tab'[p].page = tab[p].page
                          /\ tab'[p].find = tab[p].find
        BY <1>1, <2>1, <2>2 DEF ClientTyped
    <2>4. dataset' = dataset
        BY DEF LoseCall
    <2> QED
        BY <1>3, <2>3, <2>4 DEF UploadsLeftAlone, SearchesLeftAlone
<1>4. ASSUME NEW s \in Slots, Live(mem.find[s]),
             tab' = [tab EXCEPT ![t].find[s] = Broken(@)], UNCHANGED batch
      PROVE  UploadsLeftAlone /\ FindLost(t, s)
    <2>1. PICK m : m = [mem EXCEPT !.find[s] = Broken(mem.find[s])]
        OBVIOUS
    <2>2. m.upload = mem.upload
        BY <1>2, <2>1 DEF Memory
    <2>3. tab' = [tab EXCEPT ![t] = m]
        BY <1>1, <1>2, <1>4, <2>1 DEF ClientTyped, Memory
    <2>4. \A p \in Tabs : tab'[p].upload = tab[p].upload
        BY <1>1, <2>2, <2>3 DEF ClientTyped
    <2>5. dataset' = dataset
        BY DEF LoseCall
    <2> QED
        BY <1>1, <1>4, <2>4, <2>5 DEF UploadsLeftAlone, FindLost, Live
<1>5. ASSUME Live(batch[t]), batch' = [batch EXCEPT ![t] = Broken(@)], UNCHANGED tab
      PROVE  RequestLost(t) /\ SearchesLeftAlone
    <2>1. dataset' = dataset
        BY DEF LoseCall
    <2> QED
        BY <1>5, <2>1 DEF RequestLost, SearchesLeftAlone, Live
<1>6. \/ \E c : (tab' = [tab EXCEPT ![t].login = c] \/ tab' = [tab EXCEPT ![t].refresh = c])
                /\ batch' = batch
      \/ \E s \in Slots : /\ Live(mem.find[s])
                          /\ tab' = [tab EXCEPT ![t].find[s] = Broken(@)] /\ UNCHANGED batch
      \/ /\ Live(batch[t])
         /\ batch' = [batch EXCEPT ![t] = Broken(@)] /\ UNCHANGED tab
    BY <1>1 DEF LoseCall
<1> QED
    BY <1>3, <1>4, <1>5, <1>6

LEMMA UploadingLeavesSearches ==
    ASSUME ClientTyped, NEW t \in Tabs,
           \/ \E archive \in Archives, replace \in BOOLEAN : StartUpload(t, archive, replace)
           \/ SendFirst(t) \/ ServeBatch(t) \/ DeliverBatch(t)
    PROVE  SearchesLeftAlone
<1>1. ASSUME NEW u, tab' = [tab EXCEPT ![t].upload = u] PROVE SearchesLeftAlone
    BY <1>1 DEF SearchesLeftAlone, ClientTyped, Memory
<1>2. ASSUME NEW p, NEW files, NEW replace, Apply(p, files, replace) PROVE SearchesLeftAlone
    <2>1. ASSUME NEW q \in Tabs PROVE tab'[q].page = tab[q].page /\ tab'[q].find = tab[q].find
        BY <1>2, <2>1 DEF Apply, ClientTyped, Memory
    <2> QED
        BY <2>1 DEF SearchesLeftAlone
<1>3. UNCHANGED tab => SearchesLeftAlone
    BY DEF SearchesLeftAlone
<1>4. \/ \E u : tab' = [tab EXCEPT ![t].upload = u]
      \/ \E p, files, replace : Apply(p, files, replace)
      \/ UNCHANGED tab
    BY DEF StartUpload, SendFirst, ServeBatch, DeliverBatch
<1> QED
    BY <1>1, <1>2, <1>3, <1>4

UploadStep ==
    \/ \E t \in Tabs :
        \/ \E archive \in Archives, replace \in BOOLEAN : StartUpload(t, archive, replace)
        \/ SendFirst(t) \/ ServeBatch(t) \/ DeliverBatch(t) \/ RequestLost(t)
    \/ OtherUpload
SearchStep ==
    \E t \in Tabs, s \in Slots :
        (\E q \in Searches : Search(t, s, q)) \/ DeliverFind(t, s) \/ FindLost(t, s)

\* Each step is about the upload, or about the search, or about neither.
LEMMA StepIsAboutOne ==
    ASSUME ClientTyped, [Next]_vars
    PROVE  (UploadsLeftAlone \/ UploadStep) /\ (SearchesLeftAlone \/ SearchStep)
<1>1. CASE UNCHANGED vars \/ OtherAdmins \/ Tick
    <2>1. tab' = tab /\ batch' = batch /\ dataset' = dataset
        BY <1>1 DEF vars, clientVars, OtherAdmins, Tick
    <2> QED
        BY <2>1 DEF UploadsLeftAlone, SearchesLeftAlone
<1>2. ASSUME NEW t \in Tabs, Person(t) \/ Refresh(t)
      PROVE  (UploadsLeftAlone \/ UploadStep) /\ (SearchesLeftAlone \/ SearchStep)
    BY <1>2, SessionsLeaveAlone, SearchingLeavesUploads, UploadingLeavesSearches
       DEF Person, UploadStep, SearchStep
<1>3. ASSUME NEW t \in Tabs, Answer(t)
      PROVE  (UploadsLeftAlone \/ UploadStep) /\ (SearchesLeftAlone \/ SearchStep)
    BY <1>3, AnswersLeaveAlone, SearchingLeavesUploads, UploadingLeavesSearches
       DEF Answer, UploadStep, SearchStep
<1>4. ASSUME NEW t \in Tabs, SendFirst(t) \/ ServeBatch(t)
      PROVE  (UploadsLeftAlone \/ UploadStep) /\ (SearchesLeftAlone \/ SearchStep)
    BY <1>4, UploadingLeavesSearches DEF UploadStep
<1>5. ASSUME NEW t \in Tabs, LoseCall(t)
      PROVE  (UploadsLeftAlone \/ UploadStep) /\ (SearchesLeftAlone \/ SearchStep)
    BY <1>5, LoseCallCases DEF UploadStep, SearchStep
<1>6. ASSUME OtherUpload PROVE UploadStep /\ (SearchesLeftAlone \/ SearchStep)
    <2>1. ASSUME NEW q \in Tabs PROVE tab'[q].page = tab[q].page /\ tab'[q].find = tab[q].find
        BY <1>6, <2>1 DEF OtherUpload, Apply, ClientTyped, Memory
    <2> QED
        BY <1>6, <2>1 DEF UploadStep, SearchesLeftAlone
<1> QED
    BY <1>1, <1>2, <1>3, <1>4, <1>5, <1>6 DEF Next

-----------------------------------------------------------------------------
(* The upload in step with the dataset.                                     *)

\* While nobody else uploads the dataset holds the batches before the current
\* one, or that one too; it does once the batch is answered with success.  A
\* batch applied twice would not show: only the first can purge.
EitherSide(upload, data) ==
    data = DatasetAfter(upload, upload.next - 1) \/ data = DatasetAfter(upload, upload.next)

InStep(upload, call, data) ==
    upload # NoUpload /\ upload.alone =>
        /\ upload.pc = "done" => data = DatasetAfter(upload, Len(upload.batches))
        /\ upload.pc # "done" => EitherSide(upload, data)
        /\ call # Null /\ call.live /\ call.status = "ok"
                => data = DatasetAfter(upload, upload.next)

UploadInv ==
    /\ ClientTyped
    /\ RidesOn
    /\ \A t \in Tabs : InStep(tab[t].upload, batch[t], dataset)

\* One more batch: a replacing upload starts from nothing, once.
LEMMA NextBatch ==
    ASSUME NEW upload \in Uploads
    PROVE  DatasetAfter(upload, upload.next)
               = (IF Replaces(upload) THEN {} ELSE DatasetAfter(upload, upload.next - 1))
                    \cup Tadigs(upload.batches[upload.next])
<1>1. PICK n : n = upload.next
    OBVIOUS
<1>2. PICK T : T = [i \in Nat |-> Tadigs(upload.batches[i])]
    OBVIOUS
<1>3. n \in Nat /\ n >= 1 /\ upload.replace \in BOOLEAN
    BY <1>1 DEF Uploads, Cards
<1>4. PICK B : B = IF upload.replace THEN {} ELSE upload.before
    OBVIOUS
<1>5. ASSUME NEW m \in Nat PROVE DatasetAfter(upload, m)
                                    = IF m = 0 THEN upload.before ELSE B \cup UNION {T[i] : i \in 1..m}
    <2>1. \A i \in 1..m : Tadigs(upload.batches[i]) = T[i]
        BY <1>2, <1>5
    <2>2. {Tadigs(upload.batches[i]) : i \in 1..m} = {T[i] : i \in 1..m}
        BY <2>1
    <2> QED
        BY <1>4, <2>2 DEF DatasetAfter
<1>6. CASE n = 1
    <2>1. UNION {T[i] : i \in 1..1} = T[1]
        OBVIOUS
    <2>2. DatasetAfter(upload, 1) = B \cup T[1]
        BY <1>5, <2>1
    <2>3. DatasetAfter(upload, 0) = upload.before
        BY <1>5
    <2>4. Replaces(upload) <=> upload.replace
        BY <1>1, <1>3, <1>6 DEF Replaces
    <2> QED
        BY <1>1, <1>2, <1>4, <1>6, <2>2, <2>3, <2>4
<1>7. CASE n > 1
    <2>1. PICK earlier : earlier = {T[i] : i \in 1..(n - 1)}
        OBVIOUS
    <2>2. PICK all : all = {T[i] : i \in 1..n}
        OBVIOUS
    <2>3. all = earlier \cup {T[n]}
        <3>1. 1..n = (1..(n - 1)) \cup {n}
            BY <1>3, <1>7
        <3> QED
            BY <2>1, <2>2, <3>1
    <2>4. B \cup UNION all = (B \cup UNION earlier) \cup T[n]
        BY <2>3
    <2>5. DatasetAfter(upload, n) = B \cup UNION all
        BY <1>3, <1>5, <1>7, <2>2
    <2>6. DatasetAfter(upload, n - 1) = B \cup UNION earlier
        <3>1. n - 1 \in Nat /\ n - 1 # 0
            BY <1>3, <1>7
        <3> QED
            BY <1>5, <2>1, <3>1
    <2>7. ~Replaces(upload)
        BY <1>1, <1>3, <1>7 DEF Replaces
    <2>8. T[n] = Tadigs(upload.batches[n])
        BY <1>2, <1>3
    <2> QED
        BY <1>1, <2>4, <2>5, <2>6, <2>7, <2>8
<1> QED
    BY <1>3, <1>6, <1>7

LEMMA UploadInitially == Init => UploadInv
<1> SUFFICES ASSUME Init PROVE UploadInv
    OBVIOUS
<1>1. \A t \in Tabs : tab[t].upload = NoUpload /\ batch[t] = Null
    BY DEF Init, Loaded
<1> QED
    BY <1>1, ClientInit DEF UploadInv, RidesOn, Rides, InStep

LEMMA LeftAloneInStep ==
    ASSUME UploadInv, UploadsLeftAlone, NEW p \in Tabs
    PROVE  Rides(tab'[p].upload, batch'[p]) /\ InStep(tab'[p].upload, batch'[p], dataset')
<1>1. CASE tab'[p].upload = tab[p].upload /\ batch'[p] = batch[p]
    BY <1>1 DEF UploadInv, RidesOn, UploadsLeftAlone
<1>2. CASE /\ tab'[p].upload = NoUpload
           /\ batch'[p] = IF batch[p] = Null THEN Null ELSE [batch[p] EXCEPT !.live = FALSE]
    <2>1. batch'[p] = Null \/ ~batch'[p].live
        BY <1>2 DEF UploadInv, ClientTyped, Requests
    <2> QED
        BY <1>2, <2>1 DEF Rides, InStep
<1> QED
    BY <1>1, <1>2 DEF UploadsLeftAlone

LEMMA StartInStep ==
    ASSUME UploadInv, NEW t \in Tabs, NEW archive \in Archives, NEW replace \in BOOLEAN,
           StartUpload(t, archive, replace), NEW p \in Tabs
    PROVE  Rides(tab'[p].upload, batch'[p]) /\ InStep(tab'[p].upload, batch'[p], dataset')
<1>1. PICK pc \in {"busy", "error"} :
        /\ pc = "busy" => Batches(archive) # <<>>
        /\ tab' = [tab EXCEPT ![t].upload =
                [pc |-> pc, archive |-> archive, batches |-> Batches(archive), next |-> 1,
                 replace |-> replace, before |-> dataset, alone |-> TRUE]]
    BY DEF StartUpload
<1>. DEFINE u == [pc |-> pc, archive |-> archive, batches |-> Batches(archive), next |-> 1,
                  replace |-> replace, before |-> dataset, alone |-> TRUE]
<1>2. /\ tab' = [tab EXCEPT ![t].upload = u] /\ batch' = batch /\ dataset' = dataset
      /\ tab[t].upload.pc # "busy"
    BY <1>1 DEF StartUpload
<1>3. u.pc \in {"busy", "error"} /\ u.next - 1 = 0 /\ u.before = dataset
    OBVIOUS
<1>. HIDE DEF u
<1>4. DatasetAfter(u, u.next - 1) = dataset
    BY <1>3 DEF DatasetAfter
<1>5. batch[t] = Null \/ ~batch[t].live
    BY <1>2 DEF UploadInv, RidesOn, Rides
<1>6. Rides(u, batch[t]) /\ InStep(u, batch[t], dataset)
    BY <1>3, <1>4, <1>5 DEF Rides, InStep, EitherSide
<1>7. tab'[t].upload = u /\ (p # t => tab'[p].upload = tab[p].upload)
    BY <1>2 DEF UploadInv, ClientTyped, Memory
<1> QED
    BY <1>2, <1>6, <1>7 DEF RidesOn, UploadInv

\* What a request asks for is what its page waits for.
LEMMA RequestRides ==
    ASSUME NEW u \in Uploads, NEW data, u.pc = "busy", u.alone => EitherSide(u, data)
    PROVE  Rides(u, Request(u)) /\ InStep(u, Request(u), data)
<1>1. /\ Request(u).files = u.batches[u.next] /\ Request(u).replace = Replaces(u)
      /\ Request(u).status = "sent"
    BY DEF Request
<1> QED
    BY <1>1 DEF Rides, InStep

LEMMA SendInStep ==
    ASSUME UploadInv, NEW t \in Tabs, SendFirst(t), NEW p \in Tabs
    PROVE  Rides(tab'[p].upload, batch'[p]) /\ InStep(tab'[p].upload, batch'[p], dataset')
<1>1. PICK u : u = tab[t].upload
    OBVIOUS
<1>2. u \in Uploads /\ u.pc = "busy"
    BY <1>1, UploadOfType DEF SendFirst, UploadInv
<1>3. u.alone => EitherSide(u, dataset)
    BY <1>1, <1>2, UploadOfType DEF UploadInv, InStep
<1>4. Rides(u, Request(u)) /\ InStep(u, Request(u), dataset)
    BY <1>2, <1>3, RequestRides
<1>5. tab' = tab /\ batch' = [batch EXCEPT ![t] = Request(u)] /\ dataset' = dataset
    BY <1>1 DEF SendFirst
<1> QED
    BY <1>1, <1>4, <1>5 DEF RidesOn, UploadInv, ClientTyped

\* An upload that is no longer alone promises nothing; its request still fits.
LEMMA CrowdedInStep ==
    ASSUME NEW u \in Uploads, NEW call, NEW data, NEW later, Rides(u, call),
           later = [u EXCEPT !.alone = FALSE]
    PROVE  Rides(later, call) /\ InStep(later, call, data)
<1>1. /\ later.pc = u.pc /\ later.batches = u.batches /\ later.next = u.next
      /\ later.replace = u.replace /\ ~later.alone
    BY DEF Uploads, Cards
<1> QED
    BY <1>1 DEF Rides, Replaces, InStep

\* The other uploads when somebody's request is applied.
LEMMA ApplyCrowds ==
    ASSUME UploadInv, NEW t, NEW files, NEW replace, Apply(t, files, replace),
           NEW p \in Tabs, p # t, batch'[p] = batch[p]
    PROVE  Rides(tab'[p].upload, batch'[p]) /\ InStep(tab'[p].upload, batch'[p], dataset')
<1>1. CASE tab[p].upload = NoUpload
    <2>1. tab'[p].upload = NoUpload
        BY <1>1 DEF Apply
    <2>2. Rides(tab[p].upload, batch[p])
        BY DEF UploadInv, RidesOn
    <2> QED
        BY <1>1, <2>1, <2>2 DEF InStep
<1>2. CASE tab[p].upload # NoUpload
    <2>1. PICK u : u = tab[p].upload
        OBVIOUS
    <2>2. PICK later : later = [u EXCEPT !.alone = FALSE]
        OBVIOUS
    <2>3. u \in Uploads /\ Rides(u, batch[p])
        BY <1>2, <2>1, UploadOfType DEF UploadInv, RidesOn
    <2>4. tab'[p].upload = later
        BY <1>2, <2>1, <2>2 DEF Apply, UploadInv, ClientTyped, Memory
    <2> QED
        BY <2>2, <2>3, <2>4, CrowdedInStep
<1> QED
    BY <1>1, <1>2

\* The server applies the batch the page is at, or refuses.
LEMMA ServedInStep ==
    ASSUME NEW u \in Uploads, NEW call \in Requests, NEW data, Rides(u, call), InStep(u, call, data),
           call # Null, call.live, NEW status \in {"ok", "error"},
           NEW served, served = [call EXCEPT !.status = status],
           NEW after, after = IF status = "ok"
                              THEN (IF call.replace THEN {} ELSE data) \cup Tadigs(call.files)
                              ELSE data
    PROVE  Rides(u, served) /\ InStep(u, served, after)
<1>1. /\ served.live /\ served.files = call.files /\ served.replace = call.replace
      /\ served.status = status
    BY DEF Requests
<1>2. u.pc = "busy" /\ call.files = u.batches[u.next] /\ call.replace = Replaces(u)
    BY DEF Rides
<1>3. Rides(u, served)
    BY <1>1, <1>2 DEF Rides
<1>4. ASSUME u.alone PROVE InStep(u, served, after)
    <2>1. EitherSide(u, data)
        BY <1>2, <1>4 DEF InStep, Uploads, Cards, NoUpload
    <2>2. status = "ok" => after = DatasetAfter(u, u.next)
        <3>1. PICK T, D : T = Tadigs(u.batches[u.next]) /\ D = DatasetAfter(u, u.next - 1)
            OBVIOUS
        <3>2. DatasetAfter(u, u.next) = (IF Replaces(u) THEN {} ELSE D) \cup T
            BY <3>1, NextBatch
        <3>3. data = D \/ data = DatasetAfter(u, u.next)
            BY <2>1, <3>1 DEF EitherSide
        <3>4. status = "ok" => after = (IF Replaces(u) THEN {} ELSE data) \cup T
            BY <1>2, <3>1
        <3> QED
            BY <3>2, <3>3, <3>4
    <2>3. status # "ok" => after = data
        OBVIOUS
    <2> QED
        BY <1>1, <1>2, <2>1, <2>2, <2>3 DEF InStep, EitherSide
<1>5. ~u.alone => InStep(u, served, after)
    BY DEF InStep
<1> QED
    BY <1>3, <1>4, <1>5

LEMMA ServeInStep ==
    ASSUME UploadInv, NEW t \in Tabs, ServeBatch(t), NEW p \in Tabs
    PROVE  Rides(tab'[p].upload, batch'[p]) /\ InStep(tab'[p].upload, batch'[p], dataset')
<1>1. PICK call : call = batch[t]
    OBVIOUS
<1>2. PICK status : status = IF Valid(call.token) /\ IsAdmin(call.token.user) THEN "ok" ELSE "error"
    OBVIOUS
<1>3. PICK served : served = [call EXCEPT !.status = status]
    OBVIOUS
<1>4. call \in Requests /\ call # Null
    BY <1>1 DEF ServeBatch, UploadInv, ClientTyped
<1>5. batch' = [batch EXCEPT ![t] = served]
    BY <1>1, <1>2, <1>3 DEF ServeBatch
<1>6. batch'[t] = served /\ (p # t => batch'[p] = batch[p])
    BY <1>5 DEF UploadInv, ClientTyped
<1>7. Rides(tab[t].upload, call) /\ InStep(tab[t].upload, call, dataset)
    BY <1>1 DEF UploadInv, RidesOn
<1>8. CASE status = "error"
    <2>1. tab' = tab /\ dataset' = dataset
        BY <1>1, <1>2, <1>8 DEF ServeBatch
    <2>2. CASE p = t /\ call.live
        <3>1. tab[t].upload \in Uploads
            BY <1>4, <1>7, <2>2, UploadOfType DEF Rides, UploadInv
        <3> QED
            BY <1>3, <1>4, <1>6, <1>7, <1>8, <2>1, <2>2, <3>1, ServedInStep
    <2>3. CASE p = t /\ ~call.live
        <3>1. ~served.live
            BY <1>3, <1>4, <2>3 DEF Requests
        <3> QED
            BY <1>6, <1>7, <2>1, <2>3, <3>1 DEF Rides, InStep
    <2>4. CASE p # t
        BY <1>6, <2>1, <2>4 DEF UploadInv, RidesOn
    <2> QED
        BY <2>2, <2>3, <2>4
<1>9. CASE status = "ok"
    <2>1. Apply(IF call.live THEN t ELSE Null, call.files, call.replace)
        BY <1>1, <1>2, <1>9 DEF ServeBatch
    <2>2. CASE p # t
        <3>1. p # IF call.live THEN t ELSE Null
            BY <2>2, NullIsNoRecord
        <3> QED
            BY <1>6, <2>1, <2>2, <3>1, ApplyCrowds
    <2>3. CASE p = t /\ call.live
        <3>1. tab[t].upload \in Uploads
            BY <1>4, <1>7, <2>3, UploadOfType DEF Rides, UploadInv
        <3>2. /\ tab'[t].upload = tab[t].upload
              /\ dataset' = (IF call.replace THEN {} ELSE dataset) \cup Tadigs(call.files)
            BY <2>1, <2>3 DEF Apply
        <3> QED
            BY <1>3, <1>4, <1>6, <1>7, <1>9, <2>3, <3>1, <3>2, ServedInStep
    <2>4. CASE p = t /\ ~call.live
        <3>1. ~served.live
            BY <1>3, <1>4, <2>4 DEF Requests
        <3>2. tab[t].upload # NoUpload => ~tab'[t].upload.alone
            BY <2>1, <2>4, UploadOfType, NullIsNoRecord DEF Apply, UploadInv, Memory, Uploads, Cards
        <3>3. tab[t].upload = NoUpload => tab'[t].upload = NoUpload
            BY <2>1, <2>4 DEF Apply
        <3> QED
            BY <1>6, <2>4, <3>1, <3>2, <3>3 DEF Rides, InStep
    <2> QED
        BY <2>2, <2>3, <2>4
<1> QED
    BY <1>2, <1>8, <1>9

\* A success answered moves the page one batch on, or to the end.
LEMMA ContinuedInStep ==
    ASSUME NEW u \in Uploads, u.pc = "busy", NEW data,
           u.alone => data = DatasetAfter(u, u.next), NEW on, on = Continued(u)
    PROVE  /\ on \in Uploads /\ on.pc \in {"busy", "done"}
           /\ InStep(on, Null, data)
           /\ on.pc = "busy" /\ on.alone => EitherSide(on, data)
<1>1. on \in Uploads /\ on.alone = u.alone /\ on.batches = u.batches /\ on.before = u.before
      /\ on.replace = u.replace
    BY ContinuedType DEF Continued, Uploads, Cards
<1>2. \A n \in Nat : DatasetAfter(on, n) = DatasetAfter(u, n)
    BY <1>1 DEF DatasetAfter
<1>3. CASE u.next = Len(u.batches)
    <2>1. on.pc = "done" /\ on.next = u.next
        BY <1>3 DEF Continued, Uploads, Cards
    <2>2. on.alone => data = DatasetAfter(on, Len(on.batches))
        BY <1>1, <1>2, <1>3 DEF Uploads, Cards
    <2> QED
        BY <1>1, <2>1, <2>2 DEF InStep
<1>4. CASE u.next # Len(u.batches)
    <2>1. on.pc = "busy" /\ on.next = u.next + 1
        BY <1>4 DEF Continued, Uploads, Cards
    <2>2. on.next - 1 = u.next /\ u.next \in Nat
        BY <2>1 DEF Uploads, Cards
    <2>3. on.alone => EitherSide(on, data)
        BY <1>1, <1>2, <2>2 DEF EitherSide
    <2> QED
        BY <1>1, <2>1, <2>3 DEF InStep
<1> QED
    BY <1>3, <1>4

LEMMA GivenUpInStep ==
    ASSUME NEW u \in Uploads, NEW call, NEW data, u.pc = "busy", InStep(u, call, data),
           NEW lost, lost = GivenUp(u)
    PROVE  lost.pc = "error" /\ InStep(lost, Null, data)
<1>1. /\ lost.pc = "error" /\ lost.alone = u.alone /\ lost.batches = u.batches
      /\ lost.next = u.next /\ lost.before = u.before /\ lost.replace = u.replace
    BY DEF GivenUp, Uploads, Cards
<1>2. u.next \in Nat /\ u.next - 1 \in Nat
    BY DEF Uploads, Cards
<1>3. \A n \in Nat : DatasetAfter(lost, n) = DatasetAfter(u, n)
    BY <1>1 DEF DatasetAfter
<1>4. u.alone => EitherSide(u, data)
    BY DEF InStep, Uploads, Cards, NoUpload
<1>5. EitherSide(u, data) => EitherSide(lost, data)
    BY <1>1, <1>2, <1>3 DEF EitherSide
<1> QED
    BY <1>1, <1>4, <1>5 DEF InStep

LEMMA AnswerInStep ==
    ASSUME UploadInv, NEW t \in Tabs, DeliverBatch(t), NEW p \in Tabs
    PROVE  Rides(tab'[p].upload, batch'[p]) /\ InStep(tab'[p].upload, batch'[p], dataset')
<1>1. PICK call : call = batch[t]
    OBVIOUS
<1>2. PICK u : u = tab[t].upload
    OBVIOUS
<1>3. call \in Requests /\ call # Null /\ call.status # "sent" /\ dataset' = dataset
    BY <1>1 DEF DeliverBatch, UploadInv, ClientTyped
<1>4. Rides(u, call) /\ InStep(u, call, dataset)
    BY <1>1, <1>2 DEF UploadInv, RidesOn
<1>5. CASE ~call.live
    <2>1. tab' = tab /\ batch' = [batch EXCEPT ![t] = Null]
        BY <1>1, <1>5 DEF DeliverBatch
    <2>2. CASE p = t
        BY <1>2, <1>3, <1>4, <2>1, <2>2 DEF Rides, InStep, UploadInv, ClientTyped
    <2>3. CASE p # t
        BY <1>3, <2>1, <2>3 DEF UploadInv, RidesOn
    <2> QED
        BY <2>2, <2>3
<1>6. CASE call.live
    <2>1. u \in Uploads /\ u.pc = "busy"
        BY <1>2, <1>3, <1>4, <1>6, UploadOfType DEF Rides, UploadInv
    <2>2. PICK after : after = IF call.status = "ok" THEN Continued(u) ELSE GivenUp(u)
        OBVIOUS
    <2>3. PICK next : next = IF call.status = "ok" /\ after.pc = "busy" THEN Request(after) ELSE Null
        OBVIOUS
    <2>4. /\ tab' = [tab EXCEPT ![t].upload = after]
          /\ batch' = [batch EXCEPT ![t] = next]
        BY <1>1, <1>2, <1>6, <2>2, <2>3 DEF DeliverBatch
    <2>5. /\ tab'[t].upload = after /\ batch'[t] = next
          /\ p # t => tab'[p].upload = tab[p].upload /\ batch'[p] = batch[p]
        BY <2>4 DEF UploadInv, ClientTyped, Memory
    <2>6. Rides(after, next) /\ InStep(after, next, dataset)
        <3>1. CASE call.status = "ok"
            <4>1. u.alone => dataset = DatasetAfter(u, u.next)
                BY <1>3, <1>4, <1>6, <2>1, <3>1 DEF InStep, Uploads, Cards, NoUpload
            <4>2. /\ after \in Uploads /\ InStep(after, Null, dataset)
                  /\ after.pc = "busy" /\ after.alone => EitherSide(after, dataset)
                BY <2>1, <2>2, <3>1, <4>1, ContinuedInStep
            <4>3. CASE after.pc = "busy"
                BY <2>3, <3>1, <4>2, <4>3, RequestRides
            <4>4. CASE after.pc # "busy"
                BY <2>3, <4>2, <4>4 DEF Rides
            <4> QED
                BY <4>3, <4>4
        <3>2. CASE call.status # "ok"
            BY <1>4, <2>1, <2>2, <2>3, <3>2, GivenUpInStep DEF Rides
        <3> QED
            BY <3>1, <3>2
    <2> QED
        BY <1>3, <2>5, <2>6 DEF UploadInv, RidesOn
<1> QED
    BY <1>5, <1>6

LEMMA LossInStep ==
    ASSUME UploadInv, NEW t \in Tabs, RequestLost(t), NEW p \in Tabs
    PROVE  Rides(tab'[p].upload, batch'[p]) /\ InStep(tab'[p].upload, batch'[p], dataset')
<1>1. PICK call : call = batch[t]
    OBVIOUS
<1>2. PICK lost : lost = Broken(call)
    OBVIOUS
<1>3. call \in Requests /\ call # Null
    BY <1>1 DEF RequestLost, UploadInv, ClientTyped
<1>4. /\ lost.live = call.live /\ lost.files = call.files /\ lost.replace = call.replace
      /\ lost.status = "error"
    BY <1>2, <1>3 DEF Broken, Requests
<1>5. Rides(tab[t].upload, call) /\ InStep(tab[t].upload, call, dataset)
    BY <1>1 DEF UploadInv, RidesOn
<1>6. Rides(tab[t].upload, lost) /\ InStep(tab[t].upload, lost, dataset)
    BY <1>3, <1>4, <1>5 DEF Rides, InStep
<1>7. batch' = [batch EXCEPT ![t] = lost] /\ tab' = tab /\ dataset' = dataset
    BY <1>1, <1>2 DEF RequestLost
<1> QED
    BY <1>6, <1>7 DEF UploadInv, RidesOn, ClientTyped

LEMMA UploadInvStep == UploadInv /\ [Next]_vars => UploadInv'
<1> SUFFICES ASSUME UploadInv, [Next]_vars PROVE UploadInv'
    OBVIOUS
<1>1. ClientTyped'
    BY ClientTypedStep DEF UploadInv
<1>2. ASSUME NEW p \in Tabs
      PROVE  Rides(tab'[p].upload, batch'[p]) /\ InStep(tab'[p].upload, batch'[p], dataset')
    <2>1. CASE UploadsLeftAlone
        BY <2>1, LeftAloneInStep
    <2>2. ASSUME NEW t \in Tabs,
                 \/ \E archive \in Archives, replace \in BOOLEAN : StartUpload(t, archive, replace)
                 \/ SendFirst(t) \/ ServeBatch(t) \/ DeliverBatch(t) \/ RequestLost(t)
          PROVE  Rides(tab'[p].upload, batch'[p]) /\ InStep(tab'[p].upload, batch'[p], dataset')
        BY <2>2, StartInStep, SendInStep, ServeInStep, AnswerInStep, LossInStep
    <2>3. CASE OtherUpload
        <3>1. p # Null /\ batch'[p] = batch[p]
            BY <2>3, NullIsNoRecord DEF OtherUpload
        <3> QED
            BY <2>3, <3>1, ApplyCrowds DEF OtherUpload
    <2> QED
        BY <2>1, <2>2, <2>3, StepIsAboutOne DEF UploadInv, UploadStep
<1> QED
    BY <1>1, <1>2 DEF UploadInv, RidesOn

\* What a reader sees of it, and that every variable has its type.
LEMMA UploadInvImplies == UploadInv => TypeOK /\ UploadIsPrefix
<1> SUFFICES ASSUME UploadInv PROVE TypeOK /\ UploadIsPrefix
    OBVIOUS
<1>1. TypeOK
    <2>1. AccountTypeOK /\ stored \in Tokens
        BY DEF UploadInv, ClientTyped, TypedAccounts
    <2>2. now \in 0..events /\ events \in 0..MaxEvents
        BY ClientConstants DEF UploadInv, ClientTyped
    <2>3. ASSUME NEW t \in Tabs
          PROVE  /\ tab[t].shown \in UserRecords \cup {Null}
                 /\ tab[t].login \in AnsweredCalls \cup {Null}
                 /\ tab[t].refresh \in AnsweredCalls \cup {Null}
                 /\ \A s \in Slots : tab[t].find[s] \in MadeFinds \cup {Null}
                 /\ tab[t].upload.pc \in {"idle", "busy", "done", "error"}
                 /\ tab[t].upload.pc = "busy" =>
                        tab[t].upload.next \in DOMAIN tab[t].upload.batches
        BY DEF UploadInv, ClientTyped, Memory, Uploads, Cards, NoUpload
    <2>4. dataset \subseteq UNION {Tadigs(a) : a \in Archives \cup OtherArchives}
        BY DEF UploadInv, ClientTyped, AllTadigs
    <2> QED
        BY <2>1, <2>2, <2>3, <2>4 DEF TypeOK, AnsweredCalls, MadeFinds
<1>2. ASSUME NEW t \in Tabs, tab[t].upload # NoUpload, tab[t].upload.alone
      PROVE  IF tab[t].upload.pc = "done"
             THEN dataset = DatasetAfter(tab[t].upload, Len(tab[t].upload.batches))
             ELSE \E n \in {tab[t].upload.next - 1, tab[t].upload.next} :
                      dataset = DatasetAfter(tab[t].upload, n)
    <2>1. InStep(tab[t].upload, batch[t], dataset)
        BY DEF UploadInv
    <2> QED
        BY <1>2, <2>1 DEF InStep, EitherSide
<1>3. UploadIsPrefix
    BY <1>2 DEF UploadIsPrefix
<1> QED
    BY <1>1, <1>3

LEMMA UploadInvHolds == Spec => []UploadInv
  BY UploadInitially, UploadInvStep, PTL DEF Spec, Safety

(* Whatever the tabs, the person, the other administrators, the network and *)
(* the clock do: tokens, users, calls in flight and the upload cards are    *)
(* what they should be, a call is only answered with success when there is  *)
(* a session in the answer, and a fallback call is only made for a search   *)
(* whose answer was empty (auth-context.tsx, search/mno/page.tsx:875).      *)
THEOREM TabsTypeCorrect == Spec => []TypeOK
  BY UploadInvHolds, UploadInvImplies, PTL

(* As long as nobody else uploads, the batches of an archive add up         *)
(* (admin/upload/page.tsx:374-388): the dataset is what it was, less all of *)
(* it for a replacing upload, plus the batches in order up to the current   *)
(* one, which may or may not be in; and in the end exactly all of them.     *)
(* Whatever is lost, reloaded, signed out or refused on the way.            *)
THEOREM UploadsArePrefixes == Spec => []UploadIsPrefix
  BY UploadInvHolds, UploadInvImplies, PTL

(* Each XML file of a split archive finds in its request the PDF it would   *)
(* have found in the archive, when its name gives its TADIG away, no other  *)
(* claims it and no PDF names two: whatever the sizes, the cap and the      *)
(* order of the files (splitZipForUpload.ts:49-88, upload.service.ts:787).  *)
THEOREM SplitsKeepPairs == Spec => []SplitKeepsPairs
<1>1. UploadInv => SplitKeepsPairs
    <2> SUFFICES ASSUME UploadInv, NEW t \in Tabs, tab[t].upload.pc = "busy",
                        OneMention(tab[t].upload.archive),
                        NEW n \in DOMAIN tab[t].upload.batches,
                        NEW i \in DOMAIN tab[t].upload.batches[n],
                        tab[t].upload.batches[n][i].kind = "xml",
                        Pairable(tab[t].upload.archive, tab[t].upload.batches[n][i])
                 PROVE  MatchPdf(tab[t].upload.batches[n][i].tadig, tab[t].upload.batches[n])
                          = MatchPdf(tab[t].upload.batches[n][i].tadig, tab[t].upload.archive)
        BY DEF SplitKeepsPairs, OneMention
    <2>1. PICK archive : archive = tab[t].upload.archive
        OBVIOUS
    <2>2. archive \in Archives /\ tab[t].upload.batches = Batches(archive)
        BY <2>1, UploadOfType DEF UploadInv, Uploads, Cards
    <2>3. Clean(archive, Batches(archive)[n][i])
        BY <2>1, <2>2 DEF Clean
    <2> QED
        BY <2>1, <2>2, <2>3, BatchesAreSound
<1> QED
    BY <1>1, UploadInvHolds, PTL

\* The dataset once an upload nobody interfered with is through.
ArchiveIsIn ==
    \A t \in Tabs :
        LET upload == tab[t].upload IN
        upload.pc = "done" /\ upload.alone =>
            dataset = (IF upload.replace THEN {} ELSE upload.before) \cup Tadigs(upload.archive)

(* In the end the batches are the archive: nothing it has of an MNO is left *)
(* behind by the pairing, the packing or the sending of them.               *)
THEOREM UploadsAddUp == Spec => []ArchiveIsIn
<1>1. UploadInv => ArchiveIsIn
    <2> SUFFICES ASSUME UploadInv, NEW t \in Tabs, tab[t].upload.pc = "done", tab[t].upload.alone
                 PROVE  dataset = (IF tab[t].upload.replace THEN {} ELSE tab[t].upload.before)
                                    \cup Tadigs(tab[t].upload.archive)
        BY DEF ArchiveIsIn
    <2>1. PICK u : u = tab[t].upload
        OBVIOUS
    <2>2. u # NoUpload /\ u \in Uploads
        BY <2>1, UploadOfType DEF UploadInv
    <2>3. PICK b : b = Batches(u.archive)
        OBVIOUS
    <2>4. /\ u.archive \in Archives /\ u.batches = b /\ u.next \in DOMAIN b
        BY <2>1, <2>2, <2>3 DEF Uploads, Cards
    <2>5. PICK N : N = Len(b)
        OBVIOUS
    <2>6. N \in Nat /\ DOMAIN b = 1..N /\ N # 0
        <3>1. b \in Seq(Seq(FilesOf(u.archive)))
            BY <2>3, <2>4, BatchesAreSound
        <3> QED
            BY <2>4, <2>5, <3>1
    <2>7. dataset = DatasetAfter(u, N)
        <3>1. InStep(u, batch[t], dataset)
            BY <2>1 DEF UploadInv
        <3> QED
            BY <2>1, <2>2, <2>4, <2>5, <3>1 DEF InStep
    <2>8. DatasetAfter(u, N) = (IF u.replace THEN {} ELSE u.before)
                                  \cup UNION {Tadigs(b[i]) : i \in 1..N}
        BY <2>4, <2>6 DEF DatasetAfter
    <2>9. UNION {Tadigs(b[i]) : i \in 1..N} = Tadigs(u.archive)
        BY <2>3, <2>4, <2>6, BatchesAddUp
    <2> QED
        BY <2>1, <2>7, <2>8, <2>9
<1> QED
    BY <1>1, UploadInvHolds, PTL

-----------------------------------------------------------------------------
(* The page in step with its search.                                        *)

\* The call of the given leg for the search in the URL is under way.
Awaits(find, page, leg) ==
    \E s \in Slots : /\ find[s] # Null /\ find[s].live
                     /\ find[s].leg = leg /\ find[s].query = page.url

Notice(url) == IF url \in Recoverable THEN url ELSE Null

Settles(find, page) ==
    page.url # Null /\ ~page.late =>
        \/ Awaits(find, page, "main")
        \/ /\ page.results = page.url
           /\ Awaits(find, page, "fallback") \/ page.fallback = Notice(page.url)

SearchInv == \A t \in Tabs : Settles(tab[t].find, tab[t].page)

LEMMA NoPageSettles == ASSUME NEW find, NEW page, page.url = Null PROVE Settles(find, page)
  BY DEF Settles

LEMMA SearchSettles ==
    ASSUME ClientTyped, NEW t \in Tabs, NEW s \in Slots, NEW q \in Searches, Search(t, s, q)
    PROVE  /\ Settles(tab'[t].find, tab'[t].page)
           /\ \A p \in Tabs : p # t => tab'[p] = tab[p]
<1>1. PICK c : c = Query(q, "main", TRUE)
    OBVIOUS
<1>2. PICK f : f = [tab[t].find EXCEPT ![s] = c]
    OBVIOUS
<1>3. PICK g : g = [tab[t].page EXCEPT !.url = q]
    OBVIOUS
<1>4. tab[t].find \in [Slots -> MadeFinds \cup {Null}] /\ tab[t].page \in Pages
    BY DEF ClientTyped, Memory
<1>5. tab' = [tab EXCEPT ![t].page = g, ![t].find = f]
    BY <1>1, <1>2, <1>3, <1>4 DEF Search, ClientTyped, Memory
<1>6. tab'[t].page = g /\ tab'[t].find = f /\ \A p \in Tabs : p # t => tab'[p] = tab[p]
    BY <1>5 DEF ClientTyped, Memory
<1>7. c \in MadeFinds /\ c.live /\ c.leg = "main" /\ c.query = q
    BY <1>1, QueryType DEF Query
<1>8. f[s] = c /\ g.url = q /\ c # Null
    BY <1>2, <1>3, <1>4, <1>7, NullIsNoRecord DEF Pages, MadeFinds
<1>9. Awaits(f, g, "main")
    BY <1>7, <1>8 DEF Awaits
<1> QED
    BY <1>6, <1>9 DEF Settles

LEMMA LossSettles ==
    ASSUME ClientTyped, NEW t \in Tabs, NEW s \in Slots, FindLost(t, s),
           Settles(tab[t].find, tab[t].page)
    PROVE  /\ Settles(tab'[t].find, tab'[t].page)
           /\ \A p \in Tabs : p # t => tab'[p] = tab[p]
<1>1. PICK f : f = [tab[t].find EXCEPT ![s] = Broken(tab[t].find[s])]
    OBVIOUS
<1>2. PICK page : page = tab[t].page
    OBVIOUS
<1>3. tab[t].find \in [Slots -> MadeFinds \cup {Null}] /\ tab[t].find[s] \in MadeFinds
    BY DEF ClientTyped, Memory, FindLost
<1>4. tab' = [tab EXCEPT ![t].find = f]
    BY <1>1, <1>3 DEF FindLost, ClientTyped, Memory
<1>5. tab'[t].page = page /\ tab'[t].find = f /\ \A p \in Tabs : p # t => tab'[p] = tab[p]
    BY <1>2, <1>4 DEF ClientTyped, Memory
<1>6. \A r \in Slots : /\ f[r] = Null <=> tab[t].find[r] = Null
                       /\ tab[t].find[r] # Null =>
                            /\ f[r].live = tab[t].find[r].live /\ f[r].leg = tab[t].find[r].leg
                            /\ f[r].query = tab[t].find[r].query
    BY <1>1, <1>3, BrokenType, NullIsNoRecord DEF Broken, MadeFinds, Finds
<1>7. ASSUME NEW leg PROVE Awaits(tab[t].find, page, leg) => Awaits(f, page, leg)
    BY <1>6 DEF Awaits
<1> QED
    BY <1>2, <1>5, <1>7 DEF Settles

\* An answer settles the page, or another call still will - unless it is late.
LEMMA AnswerSettles ==
    ASSUME NEW find \in [Slots -> MadeFinds \cup {Null}], NEW page \in Pages, NEW s \in Slots,
           NEW call \in MadeFinds, call = find[s], call # Null, Settles(find, page),
           NEW again, again.query = call.query, again.leg = "fallback", again.live = call.live,
           AsksAgain(call) => again \in MadeFinds,
           NEW f, f = [find EXCEPT ![s] = IF AsksAgain(call) THEN again ELSE Null],
           NEW later, later = IF call.live
                              THEN [Settled(page, call) EXCEPT !.late = Late(page, call)]
                              ELSE page
    PROVE  Settles(f, later)
<1>1. \A r \in Slots : r # s => f[r] = find[r]
    OBVIOUS
<1>2. CASE ~call.live
    <2>1. ASSUME NEW leg, Awaits(find, page, leg) PROVE Awaits(f, page, leg)
        BY <1>1, <1>2, <2>1 DEF Awaits
    <2> QED
        BY <1>2, <2>1 DEF Settles
<1>3. ASSUME call.live, later.url # Null, ~later.late
      PROVE  \/ Awaits(f, later, "main")
             \/ /\ later.results = later.url
                /\ Awaits(f, later, "fallback") \/ later.fallback = Notice(later.url)
    <2>1. PICK o : o = Settled(page, call)
        OBVIOUS
    <2>2. PICK d : d = IF call.query \in Empty THEN page.fallback ELSE Null
        OBVIOUS
    <2>3. \/ o = page /\ call.status # "ok"
          \/ o = [page EXCEPT !.results = call.query, !.fallback = d]
             /\ call.status = "ok" /\ call.leg = "main"
          \/ o = [page EXCEPT !.fallback = Notice(call.query)]
             /\ call.status = "ok" /\ call.leg = "fallback"
        <3>1. call.leg = "main" \/ call.leg = "fallback"
            BY DEF MadeFinds, Finds
        <3> QED
            BY <2>1, <2>2, <3>1 DEF Settled, Notice
    <2>4. o.url = page.url /\ DOMAIN o = DOMAIN page
        BY <2>3 DEF Pages
    <2>5. later = [o EXCEPT !.late = Late(page, call)]
        BY <1>3, <2>1
    <2>6. /\ later.url = page.url /\ later.results = o.results /\ later.fallback = o.fallback
          /\ ~Late(page, call)
        BY <1>3, <2>4, <2>5 DEF Pages
    <2>7. CASE call.query # page.url
        <3>1. ~page.late /\ call.status # "ok"
            BY <2>6, <2>7 DEF Late, Pages
        <3>2. later.results = page.results /\ later.fallback = page.fallback
            BY <2>3, <2>6, <3>1
        <3>3. ASSUME NEW leg, Awaits(find, page, leg) PROVE Awaits(f, later, leg)
            BY <1>1, <2>6, <2>7, <3>3 DEF Awaits
        <3> QED
            BY <1>3, <2>6, <3>1, <3>2, <3>3 DEF Settles
    <2>8. CASE call.query = page.url
        <3>1. call.status = "ok" /\ (call.leg = "main" \/ ~page.late)
            BY <2>6, <2>8 DEF Late, MadeFinds, Finds
        <3>2. CASE call.leg = "main"
            <4>1. later.results = page.url /\ later.fallback = d
                BY <2>3, <2>6, <2>8, <3>1, <3>2 DEF Pages
            <4>2. CASE call.query \in Empty
                <5>1. f[s] = again
                    BY <3>1, <3>2, <4>2 DEF AsksAgain
                <5>2. again # Null
                    BY <3>1, <3>2, <4>2, NullIsNoRecord DEF AsksAgain, MadeFinds
                <5>3. Awaits(f, later, "fallback")
                    BY <1>3, <2>6, <2>8, <5>1, <5>2 DEF Awaits
                <5> QED
                    BY <2>6, <4>1, <5>3
            <4>3. CASE call.query \notin Empty
                BY <2>2, <2>6, <2>8, <4>1, <4>3, ClientConstants DEF Notice
            <4> QED
                BY <4>2, <4>3
        <3>3. CASE call.leg # "main"
            <4>1. call.leg = "fallback"
                BY <3>3 DEF MadeFinds, Finds
            <4>2. later.results = page.results /\ later.fallback = Notice(page.url)
                BY <2>3, <2>6, <2>8, <3>1, <4>1 DEF Pages
            <4>3. Awaits(find, page, "main") => Awaits(f, later, "main")
                BY <1>1, <2>6, <4>1 DEF Awaits
            <4> QED
                BY <1>3, <2>6, <3>1, <3>3, <4>2, <4>3 DEF Settles
        <3> QED
            BY <3>2, <3>3
    <2> QED
        BY <2>7, <2>8
<1> QED
    BY <1>2, <1>3 DEF Settles

LEMMA DeliverSettles ==
    ASSUME ClientTyped, NEW t \in Tabs, NEW s \in Slots, DeliverFind(t, s),
           Settles(tab[t].find, tab[t].page)
    PROVE  /\ Settles(tab'[t].find, tab'[t].page)
           /\ \A p \in Tabs : p # t => tab'[p] = tab[p]
<1>1. PICK call : call = tab[t].find[s]
    OBVIOUS
<1>2. PICK m : m = Answered(t, s)
    OBVIOUS
<1>3. PICK after : after = IF call.status = "unauthorized" THEN Evicted(call.token, m) ELSE m
    OBVIOUS
<1>4. call # Null /\ tab' = [tab EXCEPT ![t] = after]
    BY <1>1, <1>2, <1>3 DEF DeliverFind, Answered
<1>5. tab'[t] = after /\ \A p \in Tabs : p # t => tab'[p] = tab[p]
    BY <1>4 DEF ClientTyped
<1>6. Settles(m.find, m.page)
    <2>1. PICK find, page : find = tab[t].find /\ page = tab[t].page
        OBVIOUS
    <2>2. PICK again : again = Query(call.query, "fallback", call.live)
        OBVIOUS
    <2>3. find \in [Slots -> MadeFinds \cup {Null}] /\ page \in Pages /\ call \in MadeFinds
        BY <1>1, <1>4, <2>1 DEF ClientTyped, Memory
    <2>4. /\ m.find = [find EXCEPT ![s] = IF AsksAgain(call) THEN again ELSE Null]
          /\ m.page = IF call.live
                      THEN [Settled(page, call) EXCEPT !.late = Late(page, call)] ELSE page
        BY <1>1, <1>2, <1>4, <2>1, <2>2, AnsweredType
    <2>5. /\ again.query = call.query /\ again.leg = "fallback" /\ again.live = call.live
        BY <2>2 DEF Query
    <2>6. AsksAgain(call) => again \in MadeFinds
        BY <2>2, <2>3, QueryType DEF AsksAgain, MadeFinds, Finds
    <2> QED
        BY <1>1, <1>4, <2>1, <2>3, <2>4, <2>5, <2>6, AnswerSettles
<1>7. Settles(after.find, after.page)
    <2>1. m \in Memory
        BY <1>1, <1>2, <1>4, AnsweredType
    <2>2. after = m \/ after.page.url = Null
        BY <1>3, <2>1, EvictedKeeps
    <2> QED
        BY <1>6, <2>2, NoPageSettles
<1> QED
    BY <1>5, <1>7

LEMMA SearchInitially == Init => SearchInv
<1> SUFFICES ASSUME Init PROVE SearchInv
    OBVIOUS
<1>1. \A t \in Tabs : tab[t].page.url = Null
    BY DEF Init, Loaded, NoPage
<1> QED
    BY <1>1, NoPageSettles DEF SearchInv

LEMMA SearchInvStep == ClientTyped /\ SearchInv /\ [Next]_vars => SearchInv'
<1> SUFFICES ASSUME ClientTyped, SearchInv, [Next]_vars, NEW p \in Tabs
             PROVE  Settles(tab'[p].find, tab'[p].page)
    BY DEF SearchInv
<1>1. Settles(tab[p].find, tab[p].page)
    BY DEF SearchInv
<1>2. CASE SearchesLeftAlone
    BY <1>1, <1>2, NoPageSettles DEF SearchesLeftAlone
<1>3. ASSUME NEW t \in Tabs, NEW s \in Slots,
             (\E q \in Searches : Search(t, s, q)) \/ DeliverFind(t, s) \/ FindLost(t, s)
      PROVE  Settles(tab'[p].find, tab'[p].page)
    <2>1. Settles(tab[t].find, tab[t].page)
        BY DEF SearchInv
    <2>2. /\ Settles(tab'[t].find, tab'[t].page)
          /\ p # t => tab'[p] = tab[p]
        BY <1>3, <2>1, SearchSettles, DeliverSettles, LossSettles
    <2> QED
        BY <1>1, <2>2
<1> QED
    BY <1>2, <1>3, StepIsAboutOne DEF SearchStep

LEMMA SearchInvImplies == SearchInv => ResultsMatchSearch
<1> SUFFICES ASSUME SearchInv, NEW t \in Tabs, tab[t].page.url # Null, ~tab[t].page.late,
                    \A s \in Slots : tab[t].find[s] = Null \/ ~tab[t].find[s].live
             PROVE  /\ tab[t].page.results = tab[t].page.url
                    /\ tab[t].page.fallback
                            = IF tab[t].page.url \in Recoverable THEN tab[t].page.url ELSE Null
    BY DEF ResultsMatchSearch
<1>1. Settles(tab[t].find, tab[t].page)
    BY DEF SearchInv
<1>2. \A leg : ~Awaits(tab[t].find, tab[t].page, leg)
    BY DEF Awaits
<1> QED
    BY <1>1, <1>2 DEF Settles, Notice

(* Once no search of a page is under way its rows and its notice are those  *)
(* of the URL (search/mno/page.tsx:825-892), for any number of searches in  *)
(* flight at once and any order of their answers - unless the last word was *)
(* an older search's or a failure's, which is exactly what `late` observes. *)
THEOREM PagesShowTheirSearch == Spec => []ResultsMatchSearch
<1>1. UploadInv => ClientTyped
    BY DEF UploadInv
<1> QED
    BY <1>1, UploadInvHolds, SearchInitially, SearchInvStep, SearchInvImplies, PTL
       DEF Spec, Safety
=============================================================================
