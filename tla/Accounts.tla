------------------------------ MODULE Accounts ------------------------------
(***************************************************************************)
(* User accounts of the API and the two administration requests that       *)
(* change them, PUT /users/:id/role and PUT /users/:id/status              *)
(* (apps/api/src/user/user.service.ts).  Each request is a sequence of      *)
(* awaited queries, so two of them may interleave: the guards admit the     *)
(* acting administrator, the target is read, a deactivation counts the      *)
(* active administrators, and only then is the row written.                 *)
(***************************************************************************)
EXTENDS Naturals, FiniteSets

CONSTANTS
    Users,          \* the people an account may exist for
    OtherRoles,     \* roles other than ADMIN
    Populations,    \* the account tables the system may start with
    Edits,          \* administration requests that may be in flight together
    MaxEdits,       \* bound: administration requests in a behaviour
    Null

VARIABLES
    account,    \* User rows: Null where there is none
    edit,       \* what each administration request has done so far
    edited,     \* requests started, for the bound MaxEdits
    overlap     \* observer: some request began while another was in flight

accountVars == <<account, edit, edited, overlap>>

Admin == "ADMIN"
Roles == OtherRoles \cup {Admin}
Changes == Roles \cup {"activate", "deactivate"}

Account == [role : Roles, active : BOOLEAN]
Idle == [pc |-> "idle"]
Edit == {Idle} \cup [pc : {"find", "count", "write"}, target : Users, change : Changes]

\* JwtStrategy.validate: the account behind the token exists and is active.
Admitted(u) == account[u] # Null /\ account[u].active

\* RolesGuard: the role is the row's, re-read on every request.
IsAdmin(u) == Admitted(u) /\ account[u].role = Admin
ActiveAdmins == {u \in Users : IsAdmin(u)}

ASSUME AccountConstants ==
    /\ Admin \notin OtherRoles
    /\ {"activate", "deactivate"} \cap Roles = {}
    /\ Null \notin Users
    /\ Null \notin Account
    /\ MaxEdits \in Nat

\* The seed script creates an administrator (prisma/seed.ts:368-372).
ASSUME PopulationsHaveAnAdmin ==
    \A p \in Populations :
        /\ p \in [Users -> Account \cup {Null}]
        /\ \E u \in Users : p[u] # Null /\ p[u].active /\ p[u].role = Admin

AccountInit ==
    /\ account \in Populations
    /\ edit = [e \in Edits |-> Idle]
    /\ edited = 0
    /\ overlap = FALSE

-----------------------------------------------------------------------------
(* The requests of an administrator. *)

\* Neither request lets an administrator weaken the account it acts with.
PermittedAlways(actor, target, change) == TRUE
Permitted(actor, target, change) ==
    actor # target \/ change = "activate"

StartEdit(e, actor, target, change) ==
    /\ edit[e] = Idle
    /\ edited < MaxEdits
    /\ IsAdmin(actor)
    /\ Permitted(actor, target, change)
    /\ edit' = [edit EXCEPT ![e] =
            [pc |-> "find", target |-> target, change |-> change]]
    /\ edited' = edited + 1
    /\ overlap' = (overlap \/ \E f \in Edits : edit[f] # Idle)
    /\ UNCHANGED account

\* A missing target answers 404; only deactivating an administrator counts.
FindTarget(e) ==
    /\ edit[e].pc = "find"
    /\ LET row == account[edit[e].target]
           next == CASE row = Null -> Idle
                     [] row # Null /\ edit[e].change = "deactivate" /\ row.role = Admin ->
                            [edit[e] EXCEPT !.pc = "count"]
                     [] OTHER -> [edit[e] EXCEPT !.pc = "write"]
       IN edit' = [edit EXCEPT ![e] = next]
    /\ UNCHANGED <<account, edited, overlap>>

CountAdmins(e) ==
    /\ edit[e].pc = "count"
    /\ edit' = [edit EXCEPT ![e] =
            IF Cardinality(ActiveAdmins) <= 1 THEN Idle ELSE [@ EXCEPT !.pc = "write"]]
    /\ UNCHANGED <<account, edited, overlap>>

Changed(row, change) ==
    CASE change = "activate"   -> [row EXCEPT !.active = TRUE]
      [] change = "deactivate" -> [row EXCEPT !.active = FALSE]
      [] OTHER                 -> [row EXCEPT !.role = change]

\* The update names one column, so it never writes back what it read.
WriteEdit(e) ==
    /\ edit[e].pc = "write"
    /\ account' = [account EXCEPT ![edit[e].target] = Changed(@, edit[e].change)]
    /\ edit' = [edit EXCEPT ![e] = Idle]
    /\ UNCHANGED <<edited, overlap>>

\* The first Microsoft sign-in of an unknown person provisions an account.
SignUp(u) ==
    /\ account[u] = Null
    /\ \E r \in OtherRoles : account' = [account EXCEPT ![u] = [role |-> r, active |-> TRUE]]
    /\ UNCHANGED <<edit, edited, overlap>>

EditStep ==
    \E e \in Edits :
        \/ \E actor, target \in Users, change \in Changes :
                StartEdit(e, actor, target, change)
        \/ FindTarget(e)
        \/ CountAdmins(e)
        \/ WriteEdit(e)

AccountNext == EditStep \/ \E u \in Users : SignUp(u)

AccountSpec == AccountInit /\ [][AccountNext]_accountVars

-----------------------------------------------------------------------------
AccountTypeOK ==
    /\ account \in [Users -> Account \cup {Null}]
    /\ edit \in [Edits -> Edit]
    /\ edited \in 0..MaxEdits
    /\ overlap \in BOOLEAN

(* The service refuses to leave the installation without an administrator  *)
(* (user.service.ts:55-60 and 79-84).  As long as the administration        *)
(* requests do not overlap some account is an active ADMIN: the acting one  *)
(* may touch every account but its own.  Two overlapping requests may each  *)
(* demote or deactivate the other's actor, which no step re-reads.          *)
AdminRemains == overlap \/ ActiveAdmins # {}
=============================================================================
