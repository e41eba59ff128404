--------------------------- MODULE ServiceAccounts ---------------------------
(***************************************************************************)
(* A service account, its credentials and their rotation:                  *)
(* app/services/service_accounts.py and its endpoints in app/v15.py.       *)
(*                                                                         *)
(* A request tests the rows it loads and commits later.  Secrets, roles    *)
(* and times of use are left out; instants are ticks of a clock.           *)
(***************************************************************************)
EXTENDS Naturals, FiniteSets

CONSTANTS
    Credentials,    \* rows of service_account_credentials, numbered from 1
    Rotations,      \* rows of credential_rotations, numbered from 1
    Admins,         \* numbered slots of administrator requests in flight
    MaxLifetime,    \* bound: the longest life of a credential in ticks
    MaxTime         \* bound: the last instant

ASSUME AccountsAssumption ==
    /\ Credentials \subseteq Nat \ {0} /\ Credentials # {}
    /\ Rotations \subseteq Nat \ {0}
    /\ MaxLifetime \in Nat \ {0} /\ MaxTime \in Nat

VARIABLES
    now,
    account,    \* status of the account
    cred,       \* service_account_credentials
    rotation,   \* credential_rotations
    adm,        \* the administrator request in each slot
    overlapped  \* history: two rotations were in flight together

svars == <<now, account, cred, rotation, adm, overlapped>>

\* A request names the life of the credential that it issues (credential_days).
Lifetimes == 1..MaxLifetime

Never == MaxTime + MaxLifetime + 2
Instants == 0..Never

NoCredential == [status |-> "absent", expires |-> 0, retire |-> 0]
NoRotation == [status |-> "absent", old |-> 0, ends |-> 0]
NoAdmin == [kind |-> "idle", old |-> 0, rot |-> 0, grace |-> 0, revoke |-> {}]

AccountsTypeOK ==
    /\ now \in 0..MaxTime
    /\ account \in {"absent", "active", "disabled"}
    /\ cred \in [Credentials -> [status : {"absent", "active", "revoked"},
                                 expires : Instants, retire : Instants]]
    /\ rotation \in [Rotations -> [status : {"absent", "grace-period", "completed"},
                                   old : {0} \cup Credentials, ends : Instants]]

AccountsInit ==
    /\ now = 0
    /\ account = "absent"
    /\ cred = [c \in Credentials |-> NoCredential]
    /\ rotation = [r \in Rotations |-> NoRotation]
    /\ adm = [a \in Admins |-> NoAdmin]
    /\ overlapped = FALSE

Tick ==
    /\ now < MaxTime
    /\ now' = now + 1
    /\ UNCHANGED <<account, cred, rotation, adm, overlapped>>

-----------------------------------------------------------------------------
\* Rows are numbered in the order of their insertion.
NextRow(rows) ==
    CHOOSE c \in DOMAIN rows : /\ rows[c].status = "absent"
                               /\ \A d \in DOMAIN rows : d < c => rows[d].status # "absent"
HasRow(rows) == \E c \in DOMAIN rows : rows[c].status = "absent"

\* Mutant: the grace period ends the new credential.
IssueRetiring(life) ==
    [status |-> "active", expires |-> now + life, retire |-> now + 1]

_issue_credential(life) ==
    [status |-> "active", expires |-> now + life, retire |-> Never]

\* Account and credential are one commit.
create_service_account(life) ==
    /\ account = "absent"
    /\ account' = "active"
    /\ cred' = [cred EXCEPT ![NextRow(cred)] = _issue_credential(life)]
    /\ UNCHANGED <<now, rotation, adm, overlapped>>

authenticate_service_account(c) ==
    /\ cred[c].status = "active"
    /\ cred[c].expires > now
    /\ cred[c].retire > now
    /\ account = "active"

-----------------------------------------------------------------------------
BeginAdmin(a, new) ==
    /\ adm[a].kind = "idle"
    /\ \A b \in Admins : b < a => adm[b].kind # "idle"
    /\ adm' = [adm EXCEPT ![a] = new]
    /\ overlapped' = (overlapped \/ /\ new.kind = "rotate"
                                    /\ \E b \in Admins : adm[b].kind = "rotate")
    /\ UNCHANGED <<now, account, cred, rotation>>

End(a) == adm' = [adm EXCEPT ![a] = NoAdmin]

ActiveRotation == \E r \in Rotations : rotation[r].status = "grace-period"
                                        /\ rotation[r].ends > now

Rotatable == {c \in Credentials : cred[c].status = "active" /\ cred[c].expires > now}

\* Mutant: the credential issued first is rotated.
ActiveCredentialFirst(c) == c \in Rotatable /\ \A d \in Rotatable : c <= d

\* The credential issued last.
ActiveCredential(c) == c \in Rotatable /\ \A d \in Rotatable : d <= c

BeginRotate(a, grace) ==
    /\ account = "active"
    /\ ~ActiveRotation
    /\ \E c \in Credentials :
        /\ ActiveCredential(c)
        /\ BeginAdmin(a, [NoAdmin EXCEPT !.kind = "rotate", !.old = c, !.grace = grace])

\* One commit: the new credential, the end of the old one and the rotation.
\* Without a grace period the old one is revoked at once.
rotate_service_account(a, life) ==
    /\ adm[a].kind = "rotate"
    /\ HasRow(cred) /\ HasRow(rotation)
    /\ LET old == adm[a].old
           none == adm[a].grace = 0
       IN
        /\ cred' = [cred EXCEPT ![NextRow(cred)] = _issue_credential(life),
                                ![old].retire = now + adm[a].grace,
                                ![old].status = IF none THEN "revoked" ELSE @]
        /\ rotation' = [rotation EXCEPT ![NextRow(rotation)] =
                            [status |-> IF none THEN "completed" ELSE "grace-period",
                             old |-> old, ends |-> now + adm[a].grace]]
    /\ End(a)
    /\ UNCHANGED <<now, account, overlapped>>

BeginComplete(a, r) ==
    /\ rotation[r].status = "grace-period"
    /\ BeginAdmin(a, [NoAdmin EXCEPT !.kind = "complete", !.rot = r])

complete_rotation(a) ==
    /\ adm[a].kind = "complete"
    /\ LET r == adm[a].rot IN
        /\ cred' = [cred EXCEPT ![rotation[r].old].status = "revoked",
                                ![rotation[r].old].retire = now]
        /\ rotation' = [rotation EXCEPT ![r].status = "completed"]
    /\ End(a)
    /\ UNCHANGED <<now, account, overlapped>>

\* The active credentials are those of the lookup, not of the commit.
BeginDisable(a) ==
    /\ account = "active"
    /\ BeginAdmin(a, [NoAdmin EXCEPT !.kind = "disable",
                    !.revoke = {c \in Credentials : cred[c].status = "active"}])

disable_service_account(a) ==
    /\ adm[a].kind = "disable"
    /\ account' = "disabled"
    /\ cred' = [c \in Credentials |->
                    IF c \in adm[a].revoke
                    THEN [cred[c] EXCEPT !.status = "revoked", !.retire = now]
                    ELSE cred[c]]
    /\ End(a)
    /\ UNCHANGED <<now, rotation, overlapped>>

AdminStarts ==
    \E a \in Admins :
        \/ \E grace \in {0, 1} : BeginRotate(a, grace)
        \/ \E r \in Rotations : BeginComplete(a, r)
        \/ BeginDisable(a)

AdminCommits ==
    \/ \E life \in Lifetimes : \/ create_service_account(life)
                              \/ \E a \in Admins : rotate_service_account(a, life)
    \/ \E a \in Admins : complete_rotation(a) \/ disable_service_account(a)

-----------------------------------------------------------------------------
\* No key of a disabled account authenticates, also not one that a rotation
\* issued while the account was being disabled.
DisabledStaysOut ==
    account = "disabled" => \A c \in Credentials : ~authenticate_service_account(c)

\* However rotations, completions and a slow request interleave, the owner of
\* an active account can authenticate with the key issued last, until it expires.
NewestWorks ==
    account = "active" =>
        \E c \in Credentials :
            /\ cred[c].status # "absent"
            /\ \A d \in Credentials : cred[d].status # "absent" => d <= c
            /\ cred[c].expires > now => authenticate_service_account(c)

\* Whom authenticate_service_account lets in.
CredentialsHold == DisabledStaysOut /\ NewestWorks

Gone(c) ==
    \/ cred[c].status = "revoked"
    \/ cred[c].status = "active" /\ cred[c].expires <= now

\* A key issued after c still works.
Superseded(c) == \E d \in Credentials : c < d /\ authenticate_service_account(d)

\* A key that was revoked or has expired never authenticates again.  One whose
\* grace period is over does not either while a later key works, unless two
\* rotations of the account overlapped.
RetiredStaysOut ==
    [][\A c \in Credentials :
        cred[c].status # "absent" /\ ~authenticate_service_account(c) =>
            /\ Gone(c) => ~authenticate_service_account(c)'
            /\ Superseded(c) => ~authenticate_service_account(c)' \/ overlapped]_svars

\* docs/SERVICE_ACCOUNTS.md:15: "credentials past their rotation grace period
\* are rejected".  A later rotation picks a retired key again, and gives it a
\* new grace period, when the keys issued after it have expired.
GraceEnds ==
    \A r \in Rotations :
        rotation[r].status # "absent" /\ rotation[r].ends <= now /\ ~overlapped =>
            ~authenticate_service_account(rotation[r].old)
=============================================================================
