--------------------------- MODULE AccountsProofs ---------------------------
(***************************************************************************)
(* An installation never loses its last administrator, for any accounts     *)
(* and any number of administration requests, as long as no two of them     *)
(* overlap.                                                                 *)
(***************************************************************************)
EXTENDS Accounts, TLAPS

USE AccountConstants

-----------------------------------------------------------------------------
(* The tables stay well formed: a change writes a role or a status, and the *)
(* only row that is ever written is one the request has found.              *)

\* A request that got past the read has a row to write: rows are not deleted.
Found == \A e \in Edits : edit[e].pc \in {"count", "write"} => account[edit[e].target] # Null

TypedAccounts == AccountTypeOK /\ Found

LEMMA ChangedIsAnAccount ==
    ASSUME NEW row \in Account, NEW change \in Changes
    PROVE  Changed(row, change) \in Account
  BY DEF Changed, Changes, Account, Roles

LEMMA TypedInit == AccountInit => TypedAccounts
<1> SUFFICES ASSUME AccountInit PROVE TypedAccounts
    OBVIOUS
<1>1. account \in [Users -> Account \cup {Null}]
    BY PopulationsHaveAnAdmin DEF AccountInit
<1>2. edit \in [Edits -> Edit]
    BY DEF AccountInit, Edit
<1>3. edited \in 0..MaxEdits
    <2>1. edited = 0 /\ MaxEdits \in Nat
        BY AccountConstants DEF AccountInit
    <2> QED
        BY <2>1
<1>5. overlap \in BOOLEAN
    BY DEF AccountInit
<1>4. Found
    BY DEF AccountInit, Found, Idle
<1> QED
    BY <1>1, <1>2, <1>3, <1>4, <1>5 DEF TypedAccounts, AccountTypeOK

LEMMA TypedStart ==
    ASSUME TypedAccounts, NEW e \in Edits, NEW actor \in Users, NEW target \in Users,
           NEW change \in Changes, StartEdit(e, actor, target, change)
    PROVE  TypedAccounts'
<1>1. account' \in [Users -> Account \cup {Null}]
    BY DEF TypedAccounts, AccountTypeOK, StartEdit
<1>2. edit' \in [Edits -> Edit]
    BY DEF TypedAccounts, AccountTypeOK, StartEdit, Edit
<1>3. edited' \in 0..MaxEdits
    BY DEF TypedAccounts, AccountTypeOK, StartEdit
<1>4. overlap' \in BOOLEAN
    BY DEF TypedAccounts, AccountTypeOK, StartEdit
<1>5. Found'
    BY DEF TypedAccounts, AccountTypeOK, Found, StartEdit
<1> QED
    BY <1>1, <1>2, <1>3, <1>4, <1>5 DEF TypedAccounts, AccountTypeOK

LEMMA TypedFind ==
    ASSUME TypedAccounts, NEW e \in Edits, FindTarget(e)
    PROVE  TypedAccounts'
<1> DEFINE row == account[edit[e].target]
<1>1. edit[e] \in Edit /\ edit[e].pc = "find"
    BY DEF TypedAccounts, AccountTypeOK, FindTarget
<1>2. PICK t \in Users, c \in Changes : edit[e] = [pc |-> "find", target |-> t, change |-> c]
    BY <1>1 DEF Edit, Idle
<1>3. edit' \in [Edits -> Edit]
    <2>1. CASE row = Null
        BY <1>2, <2>1 DEF TypedAccounts, AccountTypeOK, FindTarget, Edit
    <2>2. CASE row # Null /\ edit[e].change = "deactivate" /\ row.role = Admin
        <3>1. edit' = [edit EXCEPT ![e] = [edit[e] EXCEPT !.pc = "count"]]
            BY <2>2 DEF FindTarget
        <3> QED
            BY <1>2, <3>1 DEF TypedAccounts, AccountTypeOK, Edit
    <2>3. CASE row # Null /\ ~(edit[e].change = "deactivate" /\ row.role = Admin)
        <3>1. edit' = [edit EXCEPT ![e] = [edit[e] EXCEPT !.pc = "write"]]
            BY <2>3 DEF FindTarget
        <3> QED
            BY <1>2, <3>1 DEF TypedAccounts, AccountTypeOK, Edit
    <2> QED
        BY <2>1, <2>2, <2>3
<1>4. Found'
    <2> SUFFICES ASSUME NEW f \in Edits, (edit[f].pc \in {"count", "write"})'
                 PROVE  (account[edit[f].target] # Null)'
        BY DEF Found
    <2>1. CASE f # e
        BY <2>1 DEF TypedAccounts, AccountTypeOK, Found, FindTarget
    <2>2. CASE f = e
        <3>1. row # Null
            BY <2>2, <1>2 DEF TypedAccounts, AccountTypeOK, FindTarget, Idle
        <3>2. edit'[e].target = edit[e].target
            BY <1>2, <3>1 DEF TypedAccounts, AccountTypeOK, FindTarget
        <3> QED
            BY <2>2, <3>1, <3>2 DEF FindTarget
    <2> QED
        BY <2>1, <2>2
<1> QED
    BY <1>3, <1>4 DEF TypedAccounts, AccountTypeOK, FindTarget

LEMMA TypedCount ==
    ASSUME TypedAccounts, NEW e \in Edits, CountAdmins(e)
    PROVE  TypedAccounts'
<1>1. edit[e] \in Edit /\ edit[e].pc = "count"
    BY DEF TypedAccounts, AccountTypeOK, CountAdmins
<1>2. PICK t \in Users, c \in Changes : edit[e] = [pc |-> "count", target |-> t, change |-> c]
    BY <1>1 DEF Edit, Idle
<1>3. \/ edit' = [edit EXCEPT ![e] = Idle]
      \/ edit' = [edit EXCEPT ![e] = [pc |-> "write", target |-> t, change |-> c]]
    <2>1. [edit[e] EXCEPT !.pc = "write"] = [pc |-> "write", target |-> t, change |-> c]
        BY <1>2
    <2>2. \/ edit' = [edit EXCEPT ![e] = Idle]
          \/ edit' = [edit EXCEPT ![e] = [edit[e] EXCEPT !.pc = "write"]]
        <3>1. CASE Cardinality(ActiveAdmins) <= 1
            BY <3>1 DEF CountAdmins
        <3>2. CASE ~(Cardinality(ActiveAdmins) <= 1)
            BY <3>2 DEF CountAdmins
        <3> QED
            BY <3>1, <3>2
    <2> QED
        BY <2>1, <2>2
<1>4. edit' \in [Edits -> Edit]
    BY <1>3 DEF TypedAccounts, AccountTypeOK, Edit
<1>5. Found'
    BY <1>2, <1>3 DEF TypedAccounts, AccountTypeOK, Found, CountAdmins, Idle
<1> QED
    BY <1>4, <1>5 DEF TypedAccounts, AccountTypeOK, CountAdmins

LEMMA TypedWrite ==
    ASSUME TypedAccounts, NEW e \in Edits, WriteEdit(e)
    PROVE  TypedAccounts'
<1>1. edit[e] \in Edit /\ edit[e].pc = "write"
    BY DEF TypedAccounts, AccountTypeOK, WriteEdit
<1>2. PICK t \in Users, c \in Changes : edit[e] = [pc |-> "write", target |-> t, change |-> c]
    BY <1>1 DEF Edit, Idle
<1>3. account[t] \in Account
    BY <1>1, <1>2 DEF TypedAccounts, AccountTypeOK, Found
<1>4. Changed(account[t], c) \in Account
    BY <1>3, ChangedIsAnAccount
<1>5. account' = [account EXCEPT ![t] = Changed(account[t], c)]
    BY <1>2 DEF WriteEdit, TypedAccounts, AccountTypeOK
<1>6. account' \in [Users -> Account \cup {Null}]
    BY <1>4, <1>5 DEF TypedAccounts, AccountTypeOK
<1>7. edit' \in [Edits -> Edit]
    BY DEF TypedAccounts, AccountTypeOK, WriteEdit, Edit
<1>8. Found'
    <2> SUFFICES ASSUME NEW f \in Edits, (edit[f].pc \in {"count", "write"})'
                 PROVE  (account[edit[f].target] # Null)'
        BY DEF Found
    <2>1. f # e
        BY DEF WriteEdit, TypedAccounts, AccountTypeOK, Idle
    <2>2. edit'[f] = edit[f] /\ edit[f].pc \in {"count", "write"}
        BY <2>1 DEF WriteEdit, TypedAccounts, AccountTypeOK
    <2>3. account[edit[f].target] # Null /\ edit[f].target \in Users
        BY <2>2 DEF TypedAccounts, AccountTypeOK, Found, Edit, Idle
    <2> QED
        BY <1>4, <1>5, <2>2, <2>3 DEF TypedAccounts, AccountTypeOK
<1> QED
    BY <1>6, <1>7, <1>8 DEF TypedAccounts, AccountTypeOK, WriteEdit

LEMMA TypedSignUp ==
    ASSUME TypedAccounts, NEW u \in Users, SignUp(u)
    PROVE  TypedAccounts'
<1>1. PICK r \in OtherRoles : account' = [account EXCEPT ![u] = [role |-> r, active |-> TRUE]]
    BY DEF SignUp
<1>2. [role |-> r, active |-> TRUE] \in Account
    BY DEF Account, Roles
<1>3. account' \in [Users -> Account \cup {Null}]
    BY <1>1, <1>2 DEF TypedAccounts, AccountTypeOK
<1>4. Found'
    <2> SUFFICES ASSUME NEW f \in Edits, (edit[f].pc \in {"count", "write"})'
                 PROVE  (account[edit[f].target] # Null)'
        BY DEF Found
    <2>1. edit' = edit /\ account[edit[f].target] # Null /\ edit[f].target \in Users
        BY DEF SignUp, TypedAccounts, AccountTypeOK, Found, Edit, Idle
    <2> QED
        BY <1>1, <1>2, <2>1 DEF TypedAccounts, AccountTypeOK
<1> QED
    BY <1>3, <1>4 DEF TypedAccounts, AccountTypeOK, SignUp

LEMMA TypedStep == TypedAccounts /\ [AccountNext]_accountVars => TypedAccounts'
<1> SUFFICES ASSUME TypedAccounts, [AccountNext]_accountVars PROVE TypedAccounts'
    OBVIOUS
<1>1. CASE UNCHANGED accountVars
    BY <1>1 DEF accountVars, TypedAccounts, AccountTypeOK, Found
<1>2. CASE AccountNext
    BY <1>2, TypedStart, TypedFind, TypedCount, TypedWrite, TypedSignUp
       DEF AccountNext, EditStep
<1> QED
    BY <1>1, <1>2

(* The account table and the requests in flight keep their types, whatever  *)
(* the accounts and the number of requests: part of the run's TypeOK.       *)
THEOREM AccountsAreTyped == AccountSpec => []AccountTypeOK
<1>1. AccountSpec => []TypedAccounts
    BY TypedInit, TypedStep, PTL DEF AccountSpec
<1> QED
    BY <1>1, PTL DEF TypedAccounts

-----------------------------------------------------------------------------
(* The last administrator.  While requests do not overlap the only one in   *)
(* flight leaves its actor alone, or only switches an account on.           *)

Spared(e) ==
    edit[e] # Idle /\ edit[e].change # "activate"
        => \E u \in Users : u # edit[e].target /\ IsAdmin(u)

Guarded ==
    overlap \/ /\ \E u \in Users : IsAdmin(u)
               /\ \A e, f \in Edits : edit[e] # Idle /\ edit[f] # Idle => e = f
               /\ \A e \in Edits : Spared(e)

LEMMA GuardedInit == AccountInit => Guarded
<1> SUFFICES ASSUME AccountInit PROVE Guarded
    OBVIOUS
<1>1. \E u \in Users : IsAdmin(u)
    BY PopulationsHaveAnAdmin DEF AccountInit, IsAdmin, Admitted
<1>2. \A e \in Edits : edit[e] = Idle
    BY DEF AccountInit
<1> QED
    BY <1>1, <1>2 DEF Guarded, Spared

LEMMA GuardedStart ==
    ASSUME TypedAccounts, Guarded, NEW e \in Edits, NEW actor \in Users, NEW target \in Users,
           NEW change \in Changes, StartEdit(e, actor, target, change)
    PROVE  Guarded'
<1>1. CASE overlap \/ \E f \in Edits : edit[f] # Idle
    BY <1>1 DEF Guarded, StartEdit
<1>2. CASE ~overlap /\ \A f \in Edits : edit[f] = Idle
    <2>1. account' = account /\ IsAdmin(actor)
        BY DEF StartEdit
    <2>2. \A f \in Edits : f # e => edit'[f] = Idle
        BY <1>2 DEF StartEdit, TypedAccounts, AccountTypeOK
    <2>3. edit'[e].target = target /\ edit'[e].change = change
        BY DEF StartEdit, TypedAccounts, AccountTypeOK
    <2>4. IsAdmin(actor)'
        BY <2>1 DEF IsAdmin, Admitted
    <2>5. (\A f \in Edits : Spared(f))'
        BY <2>2, <2>3, <2>4 DEF Spared, StartEdit, Permitted, Idle
    <2>6. (\A f, g \in Edits : edit[f] # Idle /\ edit[g] # Idle => f = g)'
        BY <2>2 DEF Idle
    <2> QED
        BY <2>4, <2>5, <2>6 DEF Guarded
<1> QED
    BY <1>1, <1>2

\* A step that reads leaves the accounts and the target alone.
LEMMA GuardedRead ==
    ASSUME TypedAccounts, Guarded, NEW e \in Edits, FindTarget(e) \/ CountAdmins(e)
    PROVE  Guarded'
<1>1. account' = account /\ overlap' = overlap
    BY DEF FindTarget, CountAdmins
<1>2. edit[e] # Idle
    BY DEF FindTarget, CountAdmins, Idle
<1>3. \A f \in Edits : f # e => edit'[f] = edit[f]
    BY DEF FindTarget, CountAdmins, TypedAccounts, AccountTypeOK
<1>4. \/ edit'[e] = Idle
      \/ edit'[e].target = edit[e].target /\ edit'[e].change = edit[e].change
    <2>1. PICK p \in {"find", "count", "write"}, t \in Users, c \in Changes :
                edit[e] = [pc |-> p, target |-> t, change |-> c]
        BY <1>2 DEF TypedAccounts, AccountTypeOK, Edit
    <2>2. \/ edit'[e] = Idle
          \/ \E q \in {"count", "write"} : edit'[e] = [edit[e] EXCEPT !.pc = q]
        BY DEF FindTarget, CountAdmins, TypedAccounts, AccountTypeOK
    <2> QED
        BY <2>1, <2>2
<1>5. \A u \in Users : IsAdmin(u)' <=> IsAdmin(u)
    BY <1>1 DEF IsAdmin, Admitted
<1>6. CASE overlap
    BY <1>1, <1>6 DEF Guarded
<1>7. CASE ~overlap
    <2>1. (\E u \in Users : IsAdmin(u))'
        BY <1>5, <1>7 DEF Guarded
    <2>2. (\A f, g \in Edits : edit[f] # Idle /\ edit[g] # Idle => f = g)'
        BY <1>2, <1>3, <1>7 DEF Guarded
    <2>3. (\A f \in Edits : Spared(f))'
        BY <1>2, <1>3, <1>4, <1>5, <1>7 DEF Guarded, Spared
    <2> QED
        BY <2>1, <2>2, <2>3 DEF Guarded
<1> QED
    BY <1>6, <1>7

LEMMA GuardedWrite ==
    ASSUME TypedAccounts, Guarded, NEW e \in Edits, WriteEdit(e)
    PROVE  Guarded'
<1>1. CASE overlap
    BY <1>1 DEF Guarded, WriteEdit
<1>2. CASE ~overlap
    <2>1. edit[e] # Idle /\ edit[e].target \in Users /\ edit[e].change \in Changes
        BY DEF WriteEdit, Idle, TypedAccounts, AccountTypeOK, Edit
    <2>2. account' = [account EXCEPT ![edit[e].target] = Changed(@, edit[e].change)]
        BY DEF WriteEdit
    <2>3. \A f \in Edits : edit'[f] = Idle
        BY <1>2, <2>1 DEF Guarded, WriteEdit, TypedAccounts, AccountTypeOK
    <2>4. \A u \in Users : u # edit[e].target /\ IsAdmin(u) => IsAdmin(u)'
        BY <2>2 DEF IsAdmin, Admitted, TypedAccounts, AccountTypeOK
    <2>5. CASE edit[e].change # "activate"
        BY <1>2, <2>1, <2>3, <2>4, <2>5 DEF Guarded, Spared
    <2>6. CASE edit[e].change = "activate"
        <3>1. PICK u \in Users : IsAdmin(u)
            BY <1>2 DEF Guarded
        <3>2. CASE u = edit[e].target
            <4>1. account[u] \in Account
                BY <3>1 DEF TypedAccounts, AccountTypeOK, IsAdmin, Admitted
            <4>2. account'[u] = [account[u] EXCEPT !.active = TRUE]
                BY <2>2, <2>6, <3>2 DEF Changed, TypedAccounts, AccountTypeOK
            <4>3. account'[u] \in Account /\ account'[u].active /\ account'[u].role = Admin
                BY <3>1, <4>1, <4>2 DEF Account, IsAdmin
            <4>4. IsAdmin(u)'
                BY <4>3 DEF IsAdmin, Admitted
            <4> QED
                BY <2>3, <4>4 DEF Guarded, Spared
        <3>3. CASE u # edit[e].target
            BY <2>3, <2>4, <3>1, <3>3 DEF Guarded, Spared
        <3> QED
            BY <3>2, <3>3
    <2> QED
        BY <2>5, <2>6
<1> QED
    BY <1>1, <1>2

LEMMA GuardedSignUp ==
    ASSUME TypedAccounts, Guarded, NEW u \in Users, SignUp(u)
    PROVE  Guarded'
<1>1. edit' = edit /\ overlap' = overlap /\ account[u] = Null
    BY DEF SignUp
<1>2. \A v \in Users : IsAdmin(v) => IsAdmin(v)'
    <2> SUFFICES ASSUME NEW v \in Users, IsAdmin(v) PROVE IsAdmin(v)'
        OBVIOUS
    <2>1. v # u
        BY <1>1 DEF IsAdmin, Admitted
    <2>2. account'[v] = account[v]
        BY <2>1 DEF SignUp, TypedAccounts, AccountTypeOK
    <2> QED
        BY <2>2 DEF IsAdmin, Admitted
<1> QED
    BY <1>1, <1>2 DEF Guarded, Spared

LEMMA GuardedStep == TypedAccounts /\ Guarded /\ [AccountNext]_accountVars => Guarded'
<1> SUFFICES ASSUME TypedAccounts, Guarded, [AccountNext]_accountVars PROVE Guarded'
    OBVIOUS
<1>1. CASE UNCHANGED accountVars
    BY <1>1 DEF accountVars, Guarded, Spared, IsAdmin, Admitted
<1>2. CASE AccountNext
    BY <1>2, GuardedStart, GuardedRead, GuardedWrite, GuardedSignUp DEF AccountNext, EditStep
<1> QED
    BY <1>1, <1>2

(* An installation starts with an administrator and, unless two             *)
(* administration requests overlap, always has one that is active.          *)
THEOREM AnAdminRemains == AccountSpec => []AdminRemains
<1>1. AccountSpec => [](TypedAccounts /\ Guarded)
    BY TypedInit, TypedStep, GuardedInit, GuardedStep, PTL DEF AccountSpec
<1>2. Guarded => AdminRemains
    BY DEF Guarded, AdminRemains, ActiveAdmins
<1> QED
    BY <1>1, <1>2, PTL
=============================================================================
