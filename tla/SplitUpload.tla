----------------------------- MODULE SplitUpload -----------------------------
(***************************************************************************)
(* How the upload page cuts one archive into the requests it sends          *)
(* (apps/web/src/lib/splitZipForUpload.ts) and how the server pairs the     *)
(* PDFs of one request with its XML files (upload.service.ts).              *)
(*                                                                         *)
(* A file is [kind, name, word, tadig, mentions, size]: for an XML `word`   *)
(* is the TADIG its name suggests and `tadig` the one the document states,  *)
(* for a PDF `mentions` are the TADIGs that occur in its name.              *)
(***************************************************************************)
EXTENDS Integers, Sequences
LOCAL INSTANCE SequencesExt

CONSTANTS
    MaxBatch,   \* MAX_BATCH_BYTES, in the units of `size`
    NoTadig     \* a name with nothing like a TADIG in it

Xml(name, word, tadig, size) ==
    [kind |-> "xml", name |-> name, word |-> word, tadig |-> tadig, mentions |-> {}, size |-> size]
Pdf(name, mentions, size) ==
    [kind |-> "pdf", name |-> name, word |-> NoTadig, tadig |-> NoTadig, mentions |-> mentions, size |-> size]

SizeOf(files) == FoldLeft(LAMBDA sum, f : sum + f.size, 0, files)

\* JSZip keys the entries of an archive by their names.
IsArchive(files) ==
    /\ files \in Seq({files[i] : i \in DOMAIN files})
    /\ \A i, j \in DOMAIN files : files[i].name = files[j].name => i = j

\* Where the PDFs are whose name has the TADIG, but for those taken.
PdfsWith(files, tadig, used) ==
    {i \in DOMAIN files : /\ files[i].kind = "pdf"
                          /\ tadig \in files[i].mentions
                          /\ files[i].name \notin used}

FirstOf(places) == CHOOSE i \in places : \A j \in places : i <= j

\* An XML file takes the first PDF not taken yet.
PairFile(archive, acc, file) ==
    LET found == PdfsWith(archive, file.word, acc.used)
        pdf == archive[FirstOf(found)]
    IN IF file.kind # "xml" THEN acc
       ELSE IF found = {} THEN [acc EXCEPT !.groups = Append(@, <<file>>)]
       ELSE [groups |-> Append(acc.groups, <<file, pdf>>), used |-> acc.used \cup {pdf.name}]

\* The XML files in archive order.
Pairing(archive) ==
    LET pair[n \in 0..Len(archive)] ==
            IF n = 0 THEN [groups |-> <<>>, used |-> {}]
            ELSE PairFile(archive, pair[n - 1], archive[n])
    IN pair

PairUp(archive) == Pairing(archive)[Len(archive)]

AddAlone(groups, used, file) ==
    IF file.kind = "pdf" /\ file.name \notin used THEN Append(groups, <<file>>) ELSE groups

\* Then the PDFs nobody took.
Adding(archive) ==
    LET add[n \in 0..Len(archive)] ==
            IF n = 0 THEN PairUp(archive).groups
            ELSE AddAlone(add[n - 1], PairUp(archive).used, archive[n])
    IN add

\* What must travel together: a pair, or a file on its own.
GroupsPerFile(archive) == [i \in DOMAIN archive |-> <<archive[i]>>]
Groups(archive) == Adding(archive)[Len(archive)]

\* A group opens a new batch when the current one would grow past the cap.
Place(acc, group) ==
    IF acc.current # <<>> /\ SizeOf(acc.current) + SizeOf(group) > MaxBatch
    THEN [batches |-> Append(acc.batches, acc.current), current |-> group]
    ELSE [acc EXCEPT !.current = @ \o group]

Packing(groups) ==
    LET pack[n \in 0..Len(groups)] ==
            IF n = 0 THEN [batches |-> <<>>, current |-> <<>>]
            ELSE Place(pack[n - 1], groups[n])
    IN pack

Split(archive) ==
    LET groups == Groups(archive)
        packed == Packing(groups)[Len(groups)]
    IN IF packed.current = <<>> THEN packed.batches ELSE Append(packed.batches, packed.current)

\* matchPdfForTadig: the first PDF of the request whose name has the TADIG.
MatchPdf(tadig, files) ==
    LET found == PdfsWith(files, tadig, {})
    IN IF found = {} THEN NoTadig ELSE files[FirstOf(found)].name
=============================================================================
