------------------------------ MODULE WebClient ------------------------------
(***************************************************************************)
(* Browser tabs of one person's browser, sharing one localStorage, against  *)
(* the API of module Accounts: signing in and out, the silent refresh of    *)
(* the token, the MNO search page and the archive upload page               *)
(* (apps/web/src/lib/auth-context.tsx, lib/api.ts, components/              *)
(* RequireAuth.tsx, app/search/mno/page.tsx, app/admin/upload/page.tsx).    *)
(*                                                                         *)
(* A call reads the token and reaches the server in one step and its answer *)
(* reaches the tab in another, any time later; a request of the archive     *)
(* upload, which changes the server, takes a step of its own to be applied. *)
(* A network fault turns either into an error.                              *)
(* A tab without a user is on /login, a tab with one is on a guarded page.  *)
(***************************************************************************)
EXTENDS Accounts, SplitUpload

CONSTANTS
    Tabs,
    Credentials,    \* users with a password; the others sign in with Microsoft
    Searches,       \* query strings of the search page
    Empty,          \* those whose IR.21 answer is empty
    Recoverable,    \* those of Empty that the reach lists do know
    Slots,          \* bound: searches of a tab that may be in flight, 1..n
    Searching,      \* bound: the tabs whose person searches
    Uploading,      \* bound: the tabs whose person uploads
    Archives,       \* archives the upload page may be given
    OtherArchives,  \* archives another administrator may upload in one request
    MaxSingle,      \* MAX_SINGLE_UPLOAD_BYTES
    Remembered,     \* sessions localStorage may hold at the start
    Life,           \* lifetime of a token in ticks of the clock
    MaxEvents,      \* bound: acts of the person, faults, ticks, others' uploads
    MaxMixed        \* bound: those and edits, in a behaviour with an edit

VARIABLES
    stored,     \* localStorage: ccip_token and ccip_user
    tab,        \* memory of each tab
    batch,      \* the upload request of each tab; it survives the page
    dataset,    \* TADIGs of the active IR.21 dataset
    now,        \* clock of the token lifetimes
    events      \* acts, faults and ticks so far, for the bound MaxEvents

clientVars == <<stored, tab, batch, dataset, now, events>>
vars == <<accountVars, clientVars>>

Session(u, role) == [user |-> u, role |-> role, at |-> now]
NoUpload == [pc |-> "idle"]
NoPage == [url |-> Null, results |-> Null, fallback |-> Null, late |-> FALSE]

\* ccip_user: the account without its token.
UserOf(session) == IF session = Null THEN Null ELSE [user |-> session.user, role |-> session.role]

\* A freshly loaded tab takes its user from localStorage.
Loaded(session) ==
    [shown |-> UserOf(session), login |-> Null, refresh |-> Null,
     find |-> [s \in Slots |-> Null], page |-> NoPage, upload |-> NoUpload]

ASSUME ClientConstants ==
    /\ Recoverable \subseteq Empty /\ Empty \subseteq Searches
    /\ Null \notin Searches
    /\ Credentials \subseteq Users
    /\ Searching \subseteq Tabs /\ Uploading \subseteq Tabs /\ Slots \subseteq Nat \ {0}
    /\ Life \in Nat \ {0} /\ MaxEvents \in Nat /\ MaxMixed \in Nat
    /\ MaxSingle \in Nat /\ MaxBatch \in Nat
    /\ MaxMixed <= MaxEvents
    /\ \A archive \in Archives : IsArchive(archive)

Init ==
    /\ AccountInit
    /\ stored \in Remembered
    /\ tab = [t \in Tabs |-> Loaded(stored)]
    /\ batch = [t \in Tabs |-> Null]
    /\ dataset = {}
    /\ now = 0 /\ events = 0

\* The person, the network or the clock does something.
Happens ==
    /\ events + edited < IF edited = 0 THEN MaxEvents ELSE MaxMixed
    /\ events' = events + 1

-----------------------------------------------------------------------------
(* The server's side of a token. *)

Valid(token) ==
    /\ token # Null
    /\ now < token.at + Life
    /\ Admitted(token.user)

\* The role of a renewed session is the row's, not the old token's.
RoleInToken(token) == token.role
RenewedRole(token) == account[token.user].role

\* A call in flight: the token it carried, and the answer on its way back.
Call(status, session) == [token |-> stored, status |-> status, session |-> session]

(* The client's side of a 401 (handleUnauthorized).  A request that carried *)
(* no token leaves everything alone; any other clears localStorage, and a   *)
(* tab that is not on /login reloads there, losing what it had in memory.   *)
KeptSession(token) == stored
Dropped(token) == IF token = Null THEN stored ELSE Null

Evicted(token, memory) ==
    IF token = Null \/ memory.shown = Null THEN memory ELSE Loaded(Dropped(token))

\* A request of a page that is gone is answered to nobody.
Orphaned(t, memory) ==
    batch' = [batch EXCEPT ![t] =
        IF memory.upload = NoUpload /\ @ # Null THEN [@ EXCEPT !.live = FALSE] ELSE @]

\* Only the first request of a replacing upload purges the dataset.
ReplacesAlways(upload) == upload.replace
Replaces(upload) == upload.replace /\ upload.next = 1

-----------------------------------------------------------------------------
(* Signing in, renewing and leaving. *)

\* What /auth/login or /auth/microsoft answers; the second may create the row.
Replied(t, status, session) == tab' = [tab EXCEPT ![t].login = Call(status, session)]

AnswerLogin(t, u, how) ==
    \/ /\ how = "wrong" \/ (how = "password" /\ account[u] = Null)
       /\ Replied(t, "unauthorized", Null)
       /\ UNCHANGED accountVars
    \/ /\ how # "wrong" /\ account[u] # Null
       /\ IF account[u].active THEN Replied(t, "ok", Session(u, account[u].role))
                               ELSE Replied(t, "error", Null)
       /\ UNCHANGED accountVars
    \/ /\ how = "microsoft" /\ SignUp(u)
       /\ Replied(t, "ok", Session(u, account'[u].role))

Login(t, u, how) ==
    /\ tab[t].shown = Null /\ tab[t].login = Null
    /\ how = "password" => u \in Credentials
    /\ Happens
    /\ AnswerLogin(t, u, how)
    /\ UNCHANGED <<stored, batch, dataset, now>>

\* The interval of AuthProvider, which runs while a user is shown.
Refresh(t) ==
    /\ tab[t].shown # Null /\ tab[t].refresh = Null
    /\ tab' = [tab EXCEPT ![t].refresh =
            IF Valid(stored) THEN Call("ok", Session(stored.user, RenewedRole(stored)))
                             ELSE Call("unauthorized", Null)]
    /\ UNCHANGED <<accountVars, stored, batch, dataset, now, events>>

\* applySession, or the 401 handling, or nothing at all.
Deliver(t, call, memory) ==
    /\ call # Null
    /\ stored' = CASE call.status = "ok" -> call.session
                   [] call.status = "unauthorized" -> Dropped(call.token)
                   [] OTHER -> stored
    /\ LET after == CASE call.status = "ok" -> [memory EXCEPT !.shown = UserOf(call.session)]
                      [] call.status = "unauthorized" -> Evicted(call.token, memory)
                      [] OTHER -> memory
       IN tab' = [tab EXCEPT ![t] = after] /\ Orphaned(t, after)
    /\ UNCHANGED <<accountVars, dataset, now, events>>

DeliverLogin(t) == Deliver(t, tab[t].login, [tab[t] EXCEPT !.login = Null])
DeliverRefresh(t) == Deliver(t, tab[t].refresh, [tab[t] EXCEPT !.refresh = Null])

\* Calls of an unmounted search page still run, but no longer reach a page.
Unmounted(find) ==
    [s \in Slots |-> IF find[s] = Null THEN Null ELSE [find[s] EXCEPT !.live = FALSE]]

Logout(t) ==
    /\ tab[t].shown # Null
    /\ Happens
    /\ stored' = Null
    /\ tab' = [tab EXCEPT ![t].shown = Null, ![t].page = NoPage,
                          ![t].find = Unmounted(@)]
    /\ UNCHANGED <<accountVars, batch, dataset, now>>

Reload(t) ==
    /\ Happens
    /\ tab' = [tab EXCEPT ![t] = Loaded(stored)]
    /\ Orphaned(t, Loaded(stored))
    /\ UNCHANGED <<accountVars, stored, dataset, now>>

-----------------------------------------------------------------------------
(* The search page. *)

Query(q, leg, live) ==
    [token |-> stored, status |-> IF Valid(stored) THEN "ok" ELSE "unauthorized",
     query |-> q, leg |-> leg, live |-> live]

Search(t, s, q) ==
    /\ t \in Searching
    /\ tab[t].shown # Null
    /\ tab[t].find[s] = Null /\ \A r \in 1..(s - 1) : tab[t].find[r] # Null
    /\ Happens
    /\ tab' = [tab EXCEPT ![t].page.url = q, ![t].find[s] = Query(q, "main", TRUE)]
    /\ UNCHANGED <<accountVars, stored, batch, dataset, now>>

\* What the page shows after an answer: the main query sets the rows, and
\* the fallback notice is settled by the main query or by its second one.
SettledKeepingNotice(page, call) ==
    IF call.status # "ok" THEN page
    ELSE IF call.leg = "main" THEN [page EXCEPT !.results = call.query]
    ELSE [page EXCEPT !.fallback =
            IF call.query \in Recoverable THEN call.query ELSE Null]
Settled(page, call) ==
    IF call.status # "ok" THEN page
    ELSE IF call.leg = "main"
    THEN [page EXCEPT !.results = call.query,
                      !.fallback = IF call.query \in Empty THEN @ ELSE Null]
    ELSE [page EXCEPT !.fallback =
            IF call.query \in Recoverable THEN call.query ELSE Null]

\* Observer: an older search, or a failure, had the last word on the page.
Late(page, call) ==
    IF call.query # page.url THEN page.late \/ call.status = "ok"
    ELSE call.status # "ok" \/ (call.leg = "fallback" /\ page.late)

\* An empty answer under the IR.21 scope is followed by a query of all scopes.
AsksAgainAlways(call) == call.status = "ok" /\ call.leg = "main"
AsksAgain(call) == call.status = "ok" /\ call.leg = "main" /\ call.query \in Empty

DeliverFind(t, s) ==
    LET call == tab[t].find[s]
        page == tab[t].page
        memory == [tab[t] EXCEPT
            !.find[s] = IF AsksAgain(call) THEN Query(call.query, "fallback", call.live)
                        ELSE Null,
            !.page = IF call.live THEN [Settled(page, call) EXCEPT !.late = Late(page, call)]
                     ELSE page]
        after == IF call.status = "unauthorized" THEN Evicted(call.token, memory) ELSE memory
    IN  /\ call # Null
        /\ stored' = IF call.status = "unauthorized" THEN Dropped(call.token) ELSE stored
        /\ tab' = [tab EXCEPT ![t] = after]
        /\ Orphaned(t, after)
        /\ UNCHANGED <<accountVars, dataset, now, events>>

-----------------------------------------------------------------------------
(* The upload page. *)

Batches(archive) == IF SizeOf(archive) > MaxSingle THEN Split(archive) ELSE <<archive>>
Tadigs(files) == {files[i].tadig : i \in {j \in DOMAIN files : files[j].kind = "xml"}}

\* Splitting needs no request: it yields the batches, or finds no file or
\* fails.  The busy flag is the mounted card's: a second card, opened beside
\* the loop of one the user has left, is to the server one more uploader
\* (OtherUpload).
StartUpload(t, archive, replace) ==
    /\ t \in Uploading
    /\ tab[t].shown # Null /\ tab[t].shown.role = Admin
    /\ tab[t].upload.pc # "busy"
    /\ Happens
    /\ \E pc \in {"busy", "error"} :
        /\ pc = "busy" => Batches(archive) # <<>>
        /\ pc = "error" => SizeOf(archive) > MaxSingle
        /\ tab' = [tab EXCEPT ![t].upload =
                [pc |-> pc, archive |-> archive, batches |-> Batches(archive), next |-> 1,
                 replace |-> replace, before |-> dataset, alone |-> TRUE]]
    /\ UNCHANGED <<accountVars, stored, batch, dataset, now>>

\* Each request reads the token anew.
Request(upload) ==
    [token |-> stored, status |-> "sent", live |-> TRUE,
     files |-> upload.batches[upload.next], replace |-> Replaces(upload)]

\* Once the archive is split the first request goes out.
SendFirst(t) ==
    LET upload == tab[t].upload IN
    /\ upload.pc = "busy" /\ upload.next = 1 /\ batch[t] = Null
    /\ batch' = [batch EXCEPT ![t] = Request(upload)]
    /\ UNCHANGED <<accountVars, stored, tab, dataset, now, events>>

\* A request is applied: the other pages' uploads are no longer alone.
Apply(t, files, replace) ==
    /\ dataset' = (IF replace THEN {} ELSE dataset) \cup Tadigs(files)
    /\ tab' = [p \in Tabs |-> IF p # t /\ tab[p].upload # NoUpload
                              THEN [tab[p] EXCEPT !.upload.alone = FALSE] ELSE tab[p]]

ServeBatch(t) ==
    LET call == batch[t]
        admitted == Valid(call.token) /\ IsAdmin(call.token.user)
    IN  /\ call # Null /\ call.status = "sent"
        /\ batch' = [batch EXCEPT ![t].status = IF admitted THEN "ok" ELSE "error"]
        /\ IF admitted THEN Apply(IF call.live THEN t ELSE Null, call.files, call.replace)
           ELSE UNCHANGED <<dataset, tab>>
        /\ UNCHANGED <<accountVars, stored, now, events>>

\* An answer ends the loop, sends the next request in the same turn, or is a
\* failure; `finally` frees the card in every case.
StuckOnError(upload) == upload
GivenUp(upload) == [upload EXCEPT !.pc = "error"]

Continued(upload) ==
    IF upload.next = Len(upload.batches) THEN [upload EXCEPT !.pc = "done"]
                                         ELSE [upload EXCEPT !.next = @ + 1]

DeliverBatch(t) ==
    LET call == batch[t]
        upload == IF call.status = "ok" THEN Continued(tab[t].upload) ELSE GivenUp(tab[t].upload)
    IN  /\ call # Null /\ call.status # "sent"
        /\ IF call.live
           THEN /\ tab' = [tab EXCEPT ![t].upload = upload]
                /\ batch' = [batch EXCEPT ![t] =
                        IF call.status = "ok" /\ upload.pc = "busy" THEN Request(upload) ELSE Null]
           ELSE /\ batch' = [batch EXCEPT ![t] = Null]
                /\ UNCHANGED tab
        /\ UNCHANGED <<accountVars, stored, dataset, now, events>>

-----------------------------------------------------------------------------
(* The environment: other administrators, the network and time. *)

OtherAdmins ==
    /\ EditStep
    /\ edited' = edited \/ events + edited' <= MaxMixed
    /\ UNCHANGED clientVars

OtherUpload ==
    /\ Happens
    /\ \E archive \in OtherArchives, replace \in BOOLEAN : Apply(Null, archive, replace)
    /\ UNCHANGED <<accountVars, stored, batch, now>>

\* The connection breaks before the server saw the request or after it answered.
Broken(call) == [call EXCEPT !.status = "error"]
LostSession(call) == [call EXCEPT !.status = "error", !.session = Null]
Live(call) == call # Null /\ call.status # "error"

LoseCall(t) ==
    /\ Happens
    /\ \/ /\ Live(tab[t].login)
          /\ tab' = [tab EXCEPT ![t].login = LostSession(@)] /\ UNCHANGED batch
       \/ /\ Live(tab[t].refresh)
          /\ tab' = [tab EXCEPT ![t].refresh = LostSession(@)] /\ UNCHANGED batch
       \/ \E s \in Slots :
          /\ Live(tab[t].find[s])
          /\ tab' = [tab EXCEPT ![t].find[s] = Broken(@)] /\ UNCHANGED batch
       \/ /\ Live(batch[t])
          /\ batch' = [batch EXCEPT ![t] = Broken(@)] /\ UNCHANGED tab
    /\ UNCHANGED <<accountVars, stored, dataset, now>>

\* A token's lifetime passes without a renewal: the machine was asleep.
Tick ==
    /\ Happens
    /\ now' = now + 1
    /\ UNCHANGED <<accountVars, stored, tab, batch, dataset>>

-----------------------------------------------------------------------------
Answer(t) == DeliverLogin(t) \/ DeliverRefresh(t) \/ DeliverBatch(t)
                \/ \E s \in Slots : DeliverFind(t, s)

Person(t) ==
    \/ \E u \in Users, how \in {"password", "wrong", "microsoft"} : Login(t, u, how)
    \/ Logout(t)
    \/ Reload(t)
    \/ \E s \in Slots, q \in Searches : Search(t, s, q)
    \/ \E archive \in Archives, replace \in BOOLEAN : StartUpload(t, archive, replace)

Next ==
    \/ \E t \in Tabs : Person(t) \/ Refresh(t) \/ SendFirst(t) \/ ServeBatch(t)
                        \/ Answer(t) \/ LoseCall(t)
    \/ OtherAdmins
    \/ OtherUpload
    \/ Tick

\* The timer fires while the tab is open, the upload loop never waits for the
\* person, the server answers and the browser delivers; a person need not act.
Fairness ==
    \A t \in Tabs :
        /\ WF_vars(Refresh(t)) /\ WF_vars(DeliverRefresh(t))
        /\ WF_vars(SendFirst(t)) /\ WF_vars(ServeBatch(t)) /\ WF_vars(DeliverBatch(t))

Safety == Init /\ [][Next]_vars
Spec == Safety /\ Fairness

-----------------------------------------------------------------------------
SessionRecords == [user : Users, role : Roles, at : Nat]
Tokens == SessionRecords \cup {Null}
UserRecords == [user : Users, role : Roles]
Statuses == {"ok", "unauthorized", "error"}
Calls == [token : Tokens, status : Statuses, session : Tokens]
Finds == [token : Tokens, status : Statuses, query : Searches, leg : {"main", "fallback"},
          live : BOOLEAN]

ASSUME NullIsNoRecord ==
    /\ Null \notin Tabs /\ Null \notin SessionRecords /\ Null \notin UserRecords
    /\ Null \notin Calls /\ Null \notin Finds
ASSUME RememberedTokens == Remembered \subseteq Tokens

(* Every variable has its type.  The part that is more than bookkeeping: an *)
(* upload in progress points at a batch there is (page.tsx:375), a fallback *)
(* call is only made for an empty answer (page.tsx:875), and a call is only *)
(* "ok" with a session when it answers a sign-in or a renewal.              *)
TypeOK ==
    /\ AccountTypeOK
    /\ stored \in Tokens
    /\ \A t \in Tabs :
        /\ tab[t].shown \in UserRecords \cup {Null}
        /\ tab[t].login \in Calls \cup {Null}
        /\ tab[t].refresh \in Calls \cup {Null}
        /\ \A s \in Slots :
            /\ tab[t].find[s] \in Finds \cup {Null}
            /\ tab[t].find[s] # Null /\ tab[t].find[s].leg = "fallback"
                    => tab[t].find[s].query \in Empty
        /\ \A call \in {tab[t].login, tab[t].refresh} \ {Null} :
                call.status = "ok" => call.session # Null
        /\ tab[t].upload.pc \in {"idle", "busy", "done", "error"}
        /\ tab[t].upload.pc = "busy" =>
                tab[t].upload.next \in DOMAIN tab[t].upload.batches
    /\ now \in 0..events /\ events \in 0..MaxEvents
    /\ dataset \subseteq UNION {Tadigs(a) : a \in Archives \cup OtherArchives}

(* An archive sent in several requests adds up to the archive               *)
(* (admin/upload/page.tsx:374-388): as long as no other upload is applied   *)
(* in between, the dataset is what it was before, minus all of it for a     *)
(* replacing upload, plus the first batches in order; at the end, all.      *)
(* The last batch sent may or may not have been applied: its answer can be  *)
(* under way or lost.                                                       *)
DatasetAfter(upload, n) ==
    IF n = 0 THEN upload.before
    ELSE (IF upload.replace THEN {} ELSE upload.before)
            \cup UNION {Tadigs(upload.batches[i]) : i \in 1..n}

UploadIsPrefix ==
    \A t \in Tabs :
        LET upload == tab[t].upload IN
        upload # NoUpload /\ upload.batches # <<>> /\ upload.alone =>
            IF upload.pc = "done"
            THEN dataset = DatasetAfter(upload, Len(upload.batches))
            ELSE \E n \in {upload.next - 1, upload.next} : dataset = DatasetAfter(upload, n)

(* The split is invisible to the pairing of PDFs (splitZipForUpload.ts:     *)
(* 9-14): the server finds for every XML the PDF it would have found had    *)
(* the archive come in one request.  That holds when the XML's name carries *)
(* the TADIG of its document, no other XML claims it, and a PDF's name      *)
(* mentions one TADIG; each premise is needed.                              *)
Pairable(archive, xml) ==
    /\ xml.word = xml.tadig
    /\ \A other \in {archive[i] : i \in DOMAIN archive} \ {xml} : other.word # xml.tadig

SplitKeepsPairs ==
    \A t \in Tabs :
        LET upload == tab[t].upload IN
        upload.pc = "busy" /\ (\A i \in DOMAIN upload.archive :
                                    \A a, b \in upload.archive[i].mentions : a = b) =>
            \A n \in DOMAIN upload.batches :
                \A i \in DOMAIN upload.batches[n] :
                    LET file == upload.batches[n][i] IN
                    file.kind = "xml" /\ Pairable(upload.archive, file) =>
                        MatchPdf(file.tadig, upload.batches[n])
                            = MatchPdf(file.tadig, upload.archive)

(* The rows on the search page are those of the URL, and so is the notice   *)
(* that the reach lists know more (search/mno/page.tsx:825-892), once no    *)
(* search is in flight - unless an older search was answered after a newer  *)
(* one, or a call failed: nothing cancels the first and nothing catches the *)
(* second.                                                                  *)
ResultsMatchSearch ==
    \A t \in Tabs :
        LET page == tab[t].page IN
        page.url # Null /\ ~page.late
            /\ (\A s \in Slots : tab[t].find[s] = Null \/ ~tab[t].find[s].live)
        => /\ page.results = page.url
           /\ page.fallback = IF page.url \in Recoverable THEN page.url ELSE Null

(* The upload card never stays busy (page.tsx:402-408): whatever the server *)
(* and the network do, the loop over the batches ends.                      *)
UploadEnds ==
    \A t \in Tabs : tab[t].upload.pc = "busy" ~> tab[t].upload.pc # "busy"

(* A dead token does not stay (api.ts:17-32, auth-context.tsx:55-66): while *)
(* some tab shows a user, an expired token or one of a deactivated account  *)
(* is dropped from localStorage or replaced by a live one.                  *)
DeadSession == stored # Null /\ ~Valid(stored)
DeadSessionEnds ==
    DeadSession /\ (\E t \in Tabs : tab[t].shown # Null) ~> ~DeadSession

(* A role change reaches the tabs (auth.service.ts:150-169): a tab that     *)
(* shows an account with a role it no longer has catches up by itself,      *)
(* unless the session is gone from localStorage - then its requests carry   *)
(* no token, and nothing ever tells it.                                     *)
StaleRole(t) ==
    tab[t].shown # Null /\ tab[t].shown.role # account[tab[t].shown.user].role
RolesCatchUp ==
    \A t \in Tabs : StaleRole(t) ~> ~StaleRole(t) \/ stored = Null
=============================================================================
