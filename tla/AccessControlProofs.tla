------------------------- MODULE AccessControlProofs -------------------------
(***************************************************************************)
(* Access control, for any number of credentials, administrators, SCIM     *)
(* clients, jobs, governance requests, candidates of a search, models,     *)
(* collectors and events: each part has an inductive invariant that        *)
(* implies its safety properties, and the order of decisions makes         *)
(* policies restrict in every state.                                       *)
(***************************************************************************)
EXTENDS AccessControl, FiniteSetTheorems, WellFoundedInduction, TLAPS

(***************************************************************************)
(* Service accounts.                                                       *)
(***************************************************************************)
AdminRow ==
    [kind : {"idle", "rotate", "complete", "disable"}, old : {0} \cup Credentials,
     rot : {0} \cup Rotations, grace : {0, 1}, revoke : SUBSET Credentials]

AccountsTypes == AccountsTypeOK /\ adm \in [Admins -> AdminRow] /\ overlapped \in BOOLEAN

Issued(c) == cred[c].status # "absent"

\* Credentials are inserted in order.
IssuedInOrder == \A c, d \in Credentials : c < d /\ Issued(d) => Issued(c)

\* No request can make c work again but a rotation that picked it.
Spent(c) == cred[c].status = "revoked" \/ cred[c].expires <= now

Newest(c) == Issued(c) /\ \A d \in Credentials : Issued(d) => d <= c

\* The credential issued last has not been retired.
InUse(c) == Newest(c) /\ cred[c].status = "active" /\ cred[c].retire = Never

AccountHasKey ==
    /\ account = "absent" =>
        /\ \A c \in Credentials : ~Issued(c)
        /\ \A a \in Admins : adm[a].kind = "idle"
    /\ account = "active" => \E c \in Credentials : InUse(c)

\* A rotation retires a credential that has a successor.
RotationsSupersede ==
    \A r \in Rotations : rotation[r].status # "absent" =>
        /\ rotation[r].old \in Credentials
        /\ Issued(rotation[r].old)
        /\ ~Newest(rotation[r].old)

\* What a request under way knows; while rotations do not overlap, what was issued
\* after the credential that is replaced is revoked or has expired.
AdminKnows(a) ==
    /\ adm[a].kind = "rotate" => adm[a].old \in Credentials /\ Issued(adm[a].old)
    /\ adm[a].kind = "complete" =>
        adm[a].rot \in Rotations /\ rotation[adm[a].rot].status # "absent"
    /\ adm[a].kind = "disable" => \A c \in adm[a].revoke : Issued(c)
    /\ adm[a].kind = "rotate" /\ ~overlapped =>
        /\ \A b \in Admins : adm[b].kind = "rotate" => a = b
        /\ \A d \in Credentials : adm[a].old < d /\ Issued(d) => Spent(d)

AccountsInv ==
    /\ AccountsTypes
    /\ IssuedInOrder
    /\ AccountHasKey
    /\ RotationsSupersede
    /\ \A a \in Admins : AdminKnows(a)

(***************************************************************************)
(* Identities.                                                             *)
(***************************************************************************)
ScimRow ==
    [kind : {"idle", "user", "group"}, place : {"idle", "write", "lookup", "request", "enqueue"},
     to : BOOLEAN, put : BOOLEAN, copy : BOOLEAN, data : BOOLEAN, workflow : Workflows \cup {0}]

IdentityTypes ==
    /\ IdentityTypeOK
    /\ handler \in [Jobs -> [place : {"idle", "commit", "return", "dead"},
                             active : BOOLEAN, member : BOOLEAN]]
    /\ scim \in [Clients -> ScimRow]
    /\ hist \in [asked : BOOLEAN, overlap : BOOLEAN, crashed : BOOLEAN, cancelled : BOOLEAN]

PendingHasAttempts ==
    \A j \in Jobs : queue[j].status = "pending" => queue[j].attempts < MaxAttempts

Requested == \E w \in Workflows : workflow[w] # "absent"

Deprovisioned == \E w \in Workflows : workflow[w] = "completed"

\* Jobs and requests are about workflows that were requested.
WorkflowsKnown ==
    /\ \A j \in Jobs : payload[j] # 0 => workflow[payload[j]] # "absent"
    /\ \A c \in Clients : scim[c].workflow # 0 => workflow[scim[c].workflow] # "absent"
    /\ \A c \in Clients :
        /\ scim[c].kind = "idle" => scim[c].place = "idle"
        /\ scim[c].kind = "group" => scim[c].place = "write"

\* A request that meets no other one, and no handler before its commit, has a
\* fresh copy of the row; so has a handler that meets no request.
CopiesFresh ==
    ~hist.overlap =>
        /\ \A c \in Clients : scim[c].kind # "idle" =>
            /\ ~Handling
            /\ \A d \in Clients : scim[d].kind # "idle" => c = d
        /\ \A c \in Clients :
            /\ scim[c].kind = "user" /\ scim[c].place # "enqueue" =>
                /\ scim[c].copy = user.active
                /\ scim[c].data = user.data
                /\ scim[c].place = "write" /\ ~scim[c].put => scim[c].to = user.data
            /\ scim[c].kind = "group" /\ ~scim[c].put => scim[c].to = member
        /\ \A j \in Jobs : handler[j].place = "commit" => (member => handler[j].member)

\* A requested deprovisioning deactivates the user, a completed one empties the
\* group, unless the client asked for the opposite afterwards.
RequestsDeactivate ==
    ~hist.overlap /\ ~hist.asked =>
        /\ Requested => ~user.active /\ ~user.data
        /\ Deprovisioned => ~member

IdentityInv ==
    /\ IdentityTypes
    /\ PendingHasAttempts
    /\ WorkflowsKnown
    /\ CopiesFresh
    /\ RequestsDeactivate

(***************************************************************************)
(* Exceptions.                                                             *)
(***************************************************************************)
GovernanceOps == {"renew", "extend", "submit", "approve"}

RequestTypes ==
    /\ DOMAIN request = Requests
    /\ \A r \in Requests :
        /\ \/ request[r] = NoRequest
           \/ request[r].op \in GovernanceOps /\ request[r].at # "idle"
        /\ DOMAIN request[r] = DOMAIN NoRequest
        /\ request[r].who \in People \cup {Nobody}
        /\ request[r].until \in 0..MaxExpiry /\ request[r].loaded.until \in 0..MaxExpiry

ExceptionTypes ==
    /\ ExceptionsTypeOK
    /\ exception.known \in BOOLEAN /\ exception.active \in BOOLEAN
    /\ exception.until \in 0..MaxExpiry
    /\ exception.override \in Decisions
    /\ DOMAIN exception = DOMAIN NoException
    /\ RequestTypes
    /\ DOMAIN asked = {"wants", "extended", "overlap", "upset"}
    /\ asked.overlap \in BOOLEAN

\* Requests that concern the exception found it.
ExceptionKnown ==
    /\ ~exception.known => ~exception.active /\ exception.status = "none"
    /\ Under("renewal") # {} => exception.known

Asking(who, until) == <<who, until>> \in asked.wants

\* While no renewals overlap, a request still finds in the row what it loaded,
\* or its approval what was asked for, by somebody else.
RenewalKnown ==
    ~asked.overlap =>
        /\ exception.status = "pending" => Asking(exception.by, exception.until)
        /\ \A r, q \in Requests : request[r].op = "renew" /\ request[q].op = "renew" => r = q
        /\ \A r \in Requests :
            LET q == request[r] IN
            /\ q.op = "renew" /\ q.at = "commit" =>
                q.loaded.until = exception.until /\ q.loaded.by = exception.by
            /\ q.op = "extend" /\ q.at = "commit" =>
                q.loaded.by # q.who /\ Asking(q.loaded.by, q.loaded.until)

Waits(s) == IF s = "bundle" THEN bundle = "pending" ELSE exception.status = "pending"

Listed(s) == OpenFor(s) # {} <=> Waits(s)

\* The one request about a subject knows where it stands.
ReviewKnown(s) ==
    s \notin asked.upset =>
        /\ \A r, q \in Under(s) : r = q
        /\ Under(s) = {} => Listed(s)
        /\ \A r \in Under(s) :
            /\ request[r].at = "commit" => Listed(s) /\ (Opens(request[r].op) <=> ~Waits(s))
            /\ request[r].at = "review" => (Opens(request[r].op) <=> Waits(s))

ExceptionsInv ==
    /\ ExceptionTypes
    /\ ExceptionKnown
    /\ RenewalKnown
    /\ ExtendedByAnother
    /\ \A s \in ReviewSubjects : ReviewKnown(s)

(***************************************************************************)
(* Lineage.                                                                *)
(***************************************************************************)
IsMap(f, S, T) == DOMAIN f \subseteq S /\ f \in [DOMAIN f -> T]

Relation == [known : BOOLEAN, expected : BOOLEAN, count : Nat]
EdgeRow == [expected : BOOLEAN, count : Nat]
Observation == [of : Models, drift : BOOLEAN]
Imported == [model : Models, agent : BOOLEAN]
SpanRow == [event : Events, model : Models, agent : BOOLEAN]

IsSession(s) ==
    /\ s \in [busy : BOOLEAN, todo : Seq(SpanRow), loaded : {s.loaded}, copy : {s.copy},
              obs : {s.obs}, imp : {s.imp}, flushed : SUBSET Events, found : SUBSET Models]
    /\ IsMap(s.loaded, Models, [relation : Relation, edge : Seq(EdgeRow)])
    /\ IsMap(s.copy, Models, Relation)
    /\ IsMap(s.obs, Events, Observation)
    /\ IsMap(s.imp, Events, Imported)

LineageTypes ==
    /\ registered \in [Models -> {"absent", "review", "approved", "disabled"}]
    /\ relation \in [Models -> Relation]
    /\ edge \in [Models -> Seq(EdgeRow)]
    /\ observed \in [Events -> Observation \cup {NoObservation}]
    /\ imported \in [Events -> Imported \cup {NoSpan}]
    /\ reported \subseteq SUBSET Events
    /\ DOMAIN session = Senders
    /\ \A r \in Senders : IsSession(session[r])
    /\ past \in [entwined : SUBSET Models, declared : SUBSET Models, approved : SUBSET Models]

\* The observations of a model that a session is about to write.
Adds(s, m) == {e \in DOMAIN s.obs : s.obs[e].of = m}

\* What a session has loaded of a relationship is there still, and it is the same
\* unless another session has the relationship as well.
LoadedKnown(old, m) ==
    /\ old.relation.count <= Cardinality(ObservationsOf(m))
    /\ IF old.relation.known THEN relation[m].known /\ Len(old.edge) = 1
                             ELSE old.relation = NoRelation /\ old.edge = <<>>
    /\ m \notin past.entwined => old.relation = relation[m] /\ old.edge = edge[m]

\* What a session makes of it counts one more for each of its observations.
CopyKnown(s, m) ==
    /\ LoadedKnown(s.loaded[m], m)
    /\ s.copy[m].known
    /\ s.copy[m].count = s.loaded[m].relation.count + Cardinality(Adds(s, m))

CopiesKnown(s) ==
    /\ DOMAIN s.loaded = DOMAIN s.copy
    /\ \A m \in DOMAIN s.copy : CopyKnown(s, m)
    /\ \A e \in DOMAIN s.obs :
        /\ s.obs[e].of \in DOMAIN s.copy
        /\ ~s.obs[e].drift => s.copy[s.obs[e].of].expected

\* The model of a span that is imported is registered by then, and observed.
ImportsKnown(s) ==
    \A e \in DOMAIN s.imp :
        /\ Registered(s, s.imp[e].model)
        /\ s.imp[e].agent => Recorded(s, e).of = s.imp[e].model

SessionKnown(s) == CopiesKnown(s) /\ ImportsKnown(s)

\* Sessions that share a relationship are on record.
SessionsApart ==
    \A r, q \in Senders : r # q =>
        DOMAIN session[r].copy \cap DOMAIN session[q].copy \subseteq past.entwined

RelationsKnown ==
    \A m \in Models :
        /\ ~relation[m].known => relation[m] = NoRelation
        /\ relation[m].expected => m \in past.declared

LineageInv ==
    /\ LineageTypes
    /\ \A r \in Senders : SessionKnown(session[r])
    /\ SessionsApart
    /\ RelationsKnown
    /\ LineageHolds

(***************************************************************************)
(* Searches.                                                               *)
(***************************************************************************)
WalkRow ==
    [place : {"idle", "walking", "done"}, search : {1} \cup DOMAIN Variants,
     token : [search : {0} \cup DOMAIN Variants, offset : 0..Cardinality(Candidates)],
     results : [Candidates -> Nat], steady : SUBSET Candidates, shifted : BOOLEAN]

SearchTypes == SearchTypeOK /\ walk \in WalkRow

Passed == First(listed, walk.token.offset)

\* A walk has returned those of the steady candidates that it has passed and that
\* are permitted, once each.
ReturnedOnce ==
    \A c \in walk.steady :
        walk.results[c] = IF c \in Passed /\ Permitted(c, walk.search) THEN 1 ELSE 0

WalkKnown ==
    /\ IF walk.place = "idle" THEN walk = NoWalk ELSE part = "searches"
    /\ walk.steady \subseteq listed
    /\ IF walk.token.search = 0 THEN walk.token.offset = 0 /\ walk.results = NoWalk.results
                                ELSE walk.token.search = walk.search
    /\ ~walk.shifted => ReturnedOnce /\ (walk.place = "done" => walk.steady \subseteq Passed)

SearchInv == SearchTypes /\ WalkKnown

-----------------------------------------------------------------------------
(***************************************************************************)
(* Every set of numbers has a least one.                                   *)
(***************************************************************************)
LEMMA Least ==
    ASSUME NEW S, S \subseteq Nat, S # {}
    PROVE  \E x \in S : \A y \in S : x <= y
<1> DEFINE upTo == {0..n : n \in S}
           smaller == StrictSubsetOrdering(Nat)
<1>1. \A n \in S : 0..n \in FiniteSubsetsOf(Nat)
    BY FS_Interval DEF FiniteSubsetsOf
<1>2. IsWellFoundedOn(smaller, FiniteSubsetsOf(Nat))
    BY FS_StrictSubsetOrderingWellFounded
<1>3. PICK T \in upTo : \A U \in upTo : <<U, T>> \notin smaller
    <2>1. upTo \subseteq FiniteSubsetsOf(Nat) /\ upTo # {}
        BY <1>1
    <2> HIDE DEF upTo, smaller
    <2> QED
        BY <2>1, <1>2, WFMin
<1>4. PICK x \in S : T = 0..x
    BY <1>3
<1>5. ASSUME NEW y \in S, y < x PROVE FALSE
    <2>1. 0..y \in upTo /\ 0..y \subseteq T /\ x \in T /\ x \notin 0..y /\ T \subseteq Nat
        BY <1>4, <1>5
    <2>2. <<0..y, T>> \in smaller
        BY <2>1 DEF StrictSubsetOrdering
    <2> QED
        BY <2>1, <2>2, <1>3
<1> QED
    BY <1>5

\* The row that an insertion takes.
LEMMA NextRowFree ==
    ASSUME NEW rows, DOMAIN rows \subseteq Nat, \E c \in DOMAIN rows : rows[c].status = "absent"
    PROVE  /\ NextRow(rows) \in DOMAIN rows
           /\ rows[NextRow(rows)].status = "absent"
           /\ \A d \in DOMAIN rows : d < NextRow(rows) => rows[d].status # "absent"
<1> DEFINE free == {c \in DOMAIN rows : rows[c].status = "absent"}
<1>1. PICK x \in free : \A y \in free : x <= y
    BY Least
<1>2. \A d \in DOMAIN rows : d < x => rows[d].status # "absent"
    BY <1>1
<1> QED
    BY <1>1, <1>2 DEF NextRow

LEMMA AccountRowTypes ==
    /\ Never \in Nat /\ Instants = 0..Never /\ MaxTime + MaxLifetime < Never
    /\ NoAdmin \in AdminRow /\ NoAdmin.kind = "idle"
BY AccountsAssumption DEF Never, Instants, NoAdmin, AdminRow

-----------------------------------------------------------------------------
(***************************************************************************)
(* Service accounts: each step keeps AccountsInv.                          *)
(***************************************************************************)
CredentialRow == [status : {"absent", "active", "revoked"}, expires : Instants, retire : Instants]

LEMMA AccountFacts ==
    ASSUME AccountsInv
    PROVE  /\ now \in Nat /\ now <= MaxTime /\ now < Never
           /\ \A life \in Lifetimes : now + life \in Instants
           /\ now + 1 \in Instants /\ now \in Instants
           /\ cred \in [Credentials -> CredentialRow]
           /\ \A c \in Credentials : c \in Nat
BY AccountsAssumption, AccountRowTypes
   DEF AccountsInv, AccountsTypes, AccountsTypeOK, CredentialRow, Lifetimes

LEMMA InitAccounts == AccountsInit => AccountsInv
<1> SUFFICES ASSUME AccountsInit PROVE AccountsInv
    OBVIOUS
<1>1. \A a \in Admins : adm[a] = NoAdmin
    BY DEF AccountsInit
<1>2. \A c \in Credentials : cred[c] = NoCredential
    BY DEF AccountsInit
<1>3. 0 \in Instants
    BY AccountRowTypes
<1>4. AccountsTypeOK
    BY <1>3, AccountsAssumption DEF AccountsInit, AccountsTypeOK, NoCredential, NoRotation
<1>5. AccountsTypes
    BY <1>4, AccountRowTypes DEF AccountsInit, AccountsTypes
<1> QED
    BY <1>1, <1>2, <1>5, AccountRowTypes
    DEF AccountsInit, AccountsInv, IssuedInOrder, Issued, AccountHasKey, RotationsSupersede,
        AdminKnows, NoCredential, NoRotation

\* The new row of an insertion is the credential in use.
LEMMA Insertion ==
    ASSUME AccountsInv, HasRow(cred), NEW k, k = NextRow(cred),
           cred' \in [Credentials -> CredentialRow],
           NEW life \in Lifetimes, cred'[k] = _issue_credential(life),
           \A c \in Credentials \ {k} : Issued(c)' <=> Issued(c)
    PROVE  /\ k \in Credentials /\ ~Issued(k) /\ InUse(k)'
           /\ IssuedInOrder'
           /\ \A c \in Credentials : Issued(c) => c # k /\ Issued(c)' /\ ~Newest(c)'
<1>0. /\ \A c \in Credentials : c \in Nat
      /\ cred \in [Credentials -> CredentialRow]
      /\ DOMAIN cred = Credentials
    BY AccountFacts, AccountsAssumption
<1>1. /\ k \in Credentials /\ ~Issued(k)
      /\ \A d \in Credentials : d < k => Issued(d)
    BY <1>0, NextRowFree DEF HasRow, Issued
<1>2. \A d \in Credentials : Issued(d) => d < k
    BY <1>0, <1>1 DEF AccountsInv, IssuedInOrder
<1>3. Issued(k)' /\ cred'[k].status = "active" /\ cred'[k].retire = Never
    BY <1>1 DEF Issued, _issue_credential
<1>4. \A c \in Credentials : Issued(c)' => c <= k
    BY <1>0, <1>1, <1>2
<1>5. InUse(k)'
    BY <1>3, <1>4 DEF InUse, Newest, Never
<1>6. \A c \in Credentials : Issued(c) => c # k /\ Issued(c)' /\ ~Newest(c)'
    BY <1>0, <1>1, <1>2, <1>3 DEF Newest
<1>7. ASSUME NEW c \in Credentials, NEW d \in Credentials, c < d, Issued(d)'
      PROVE  Issued(c)'
    <2>1. CASE d = k
        BY <2>1, <1>0, <1>1, <1>6, <1>7
    <2>2. CASE d # k
        <3>1. Issued(d)
            BY <2>2, <1>7
        <3>2. Issued(c)
            BY <3>1, <1>7 DEF AccountsInv, IssuedInOrder
        <3> QED
            BY <3>2, <1>6
    <2> QED
        BY <2>1, <2>2
<1>8. IssuedInOrder'
    BY <1>7 DEF IssuedInOrder
<1> QED
    BY <1>1, <1>5, <1>6, <1>8

LEMMA CreateAccount ==
    ASSUME AccountsInv, NEW life \in Lifetimes, create_service_account(life)
    PROVE  AccountsInv'
<1> USE DEF create_service_account
<1>0. /\ AccountsTypes /\ cred \in [Credentials -> CredentialRow]
      /\ \A c \in Credentials : c \in Nat /\ ~Issued(c)
      /\ \A a \in Admins : adm[a].kind = "idle"
      /\ DOMAIN cred = Credentials
    BY AccountFacts DEF AccountsInv, AccountHasKey
<1>1. HasRow(cred)
    BY <1>0, AccountsAssumption DEF HasRow, Issued
<1>k. PICK k : k = NextRow(cred)
    OBVIOUS
<1>2. k \in Credentials
    BY <1>k, <1>0, <1>1, NextRowFree DEF HasRow
<1>3. _issue_credential(life) \in CredentialRow
    BY AccountFacts, AccountRowTypes DEF _issue_credential, CredentialRow
<1>4. /\ cred' \in [Credentials -> CredentialRow]
      /\ cred'[k] = _issue_credential(life)
      /\ \A c \in Credentials \ {k} : cred'[c] = cred[c]
    BY <1>k, <1>0, <1>2, <1>3
<1>i. \A c \in Credentials \ {k} : Issued(c)' <=> Issued(c)
    BY <1>4 DEF Issued
<1>5. InUse(k)' /\ IssuedInOrder'
    BY <1>k, <1>1, <1>4, <1>i, Insertion
<1>6. AccountsTypes'
    BY <1>0, <1>4 DEF AccountsTypes, AccountsTypeOK, CredentialRow
<1>7. AccountHasKey'
    BY <1>2, <1>5 DEF AccountHasKey
<1>8. \A r \in Rotations : rotation[r].status = "absent"
    BY <1>0 DEF AccountsInv, RotationsSupersede
<1>9. RotationsSupersede' /\ \A a \in Admins : AdminKnows(a)'
    BY <1>0, <1>8 DEF RotationsSupersede, AdminKnows
<1> QED
    BY <1>5, <1>6, <1>7, <1>9 DEF AccountsInv

LEMMA TickAccounts == AccountsInv /\ Tick => AccountsInv'
<1> SUFFICES ASSUME AccountsInv, Tick PROVE AccountsInv'
    OBVIOUS
<1>0. /\ now' = now + 1 /\ now < MaxTime
      /\ UNCHANGED <<account, cred, rotation, adm, overlapped>>
    BY DEF Tick
<1>1. AccountsTypes'
    BY <1>0, AccountsAssumption DEF AccountsInv, AccountsTypes, AccountsTypeOK
<1>2. IssuedInOrder' /\ AccountHasKey' /\ RotationsSupersede'
    BY <1>0 DEF AccountsInv, IssuedInOrder, AccountHasKey, RotationsSupersede, InUse, Newest,
                Issued
<1>3. \A c \in Credentials : Spent(c) => Spent(c)'
    <2>1. /\ now \in Nat /\ \A c \in Credentials : cred[c].expires \in Nat
        BY AccountFacts, AccountRowTypes DEF CredentialRow
    <2> QED
        BY <1>0, <2>1 DEF Spent
<1>4. \A a \in Admins : AdminKnows(a)'
    BY <1>0, <1>3 DEF AccountsInv, AdminKnows, Issued
<1> QED
    BY <1>1, <1>2, <1>4 DEF AccountsInv

LEMMA UnchangedAccounts == AccountsInv /\ UNCHANGED svars => AccountsInv'
BY DEF svars, AccountsInv, AccountsTypes, AccountsTypeOK, IssuedInOrder, Issued, AccountHasKey,
       RotationsSupersede, AdminKnows, InUse, Newest, Spent

\* A request begins: it knows what its row says now.
LEMMA BeginsAdmin ==
    ASSUME AccountsInv, NEW a \in Admins, NEW new \in AdminRow, BeginAdmin(a, new),
           account # "absent",
           new.kind = "rotate" => new.old \in Credentials /\ Issued(new.old)
                                  /\ \A d \in Credentials : new.old < d /\ Issued(d) => Spent(d),
           new.kind = "complete" =>
                new.rot \in Rotations /\ rotation[new.rot].status # "absent",
           new.kind = "disable" => \A c \in new.revoke : Issued(c)
    PROVE  AccountsInv'
<1>0. /\ UNCHANGED <<now, account, cred, rotation>>
      /\ adm[a].kind = "idle" /\ adm' = [adm EXCEPT ![a] = new]
      /\ overlapped' = (overlapped \/ /\ new.kind = "rotate"
                                      /\ \E b \in Admins : adm[b].kind = "rotate")
      /\ adm \in [Admins -> AdminRow] /\ overlapped \in BOOLEAN
    BY DEF BeginAdmin, AccountsInv, AccountsTypes
<1>1. adm' \in [Admins -> AdminRow] /\ adm'[a] = new /\ \A b \in Admins \ {a} : adm'[b] = adm[b]
    BY <1>0
<1>2. AccountsTypes'
    BY <1>0, <1>1 DEF AccountsInv, AccountsTypes, AccountsTypeOK
<1>3. IssuedInOrder' /\ RotationsSupersede' /\ AccountHasKey'
    BY <1>0, <1>1 DEF AccountsInv, IssuedInOrder, RotationsSupersede, AccountHasKey, InUse,
                      Newest, Issued
<1>4. \A c : (Issued(c) <=> Issued(c)') /\ (Spent(c) <=> Spent(c)')
    BY <1>0 DEF Issued, Spent
<1>5. ASSUME NEW b \in Admins PROVE AdminKnows(b)'
    <2>1. CASE b = a
        <3>1. new.kind = "rotate" /\ ~overlapped' =>
                \A d \in Admins : adm'[d].kind = "rotate" => b = d
            BY <2>1, <1>0, <1>1
        <3> QED
            BY <2>1, <3>1, <1>0, <1>1, <1>4 DEF AdminKnows
    <2>2. CASE b # a
        <3>1. AdminKnows(b) /\ adm'[b] = adm[b]
            BY <2>2, <1>1 DEF AccountsInv
        <3>2. adm[b].kind = "rotate" /\ ~overlapped' =>
                ~overlapped /\ \A d \in Admins : adm'[d].kind = "rotate" => b = d
            BY <2>2, <3>1, <1>0, <1>1 DEF AdminKnows
        <3> QED
            BY <3>1, <3>2, <1>0, <1>1, <1>4 DEF AdminKnows
    <2> QED
        BY <2>1, <2>2
<1> QED
    BY <1>2, <1>3, <1>5 DEF AccountsInv

\* What was issued after the credential that a rotation replaces has ended.
LEMMA ReplacesLatest ==
    ASSUME AccountsInv, NEW c \in Credentials, ActiveCredential(c)
    PROVE  Issued(c) /\ \A d \in Credentials : c < d /\ Issued(d) => Spent(d)
<1>1. /\ cred \in [Credentials -> CredentialRow] /\ now \in Nat
      /\ \A d \in Credentials : d \in Nat /\ cred[d].expires \in Nat
    BY AccountFacts, AccountRowTypes DEF CredentialRow
<1>2. Issued(c)
    BY DEF ActiveCredential, Rotatable, Issued
<1>3. ASSUME NEW d \in Credentials, c < d, Issued(d) PROVE Spent(d)
    <2>1. d \notin Rotatable
        BY <1>1, <1>3 DEF ActiveCredential
    <2>2. cred[d].status \in {"active", "revoked"}
        BY <1>1, <1>3 DEF Issued, CredentialRow
    <2> QED
        BY <2>1, <2>2, <1>1 DEF Rotatable, Spent
<1> QED
    BY <1>2, <1>3

LEMMA StartsAdmin == AccountsInv /\ AdminStarts => AccountsInv'
<1> SUFFICES ASSUME AccountsInv, NEW a \in Admins,
                    \/ \E grace \in {0, 1} : BeginRotate(a, grace)
                    \/ \E r \in Rotations : BeginComplete(a, r)
                    \/ BeginDisable(a)
             PROVE  AccountsInv'
    BY DEF AdminStarts
<1>1. ASSUME NEW grace \in {0, 1}, BeginRotate(a, grace) PROVE AccountsInv'
    <2>1. PICK c \in Credentials :
            /\ ActiveCredential(c) /\ account = "active"
            /\ BeginAdmin(a, [NoAdmin EXCEPT !.kind = "rotate", !.old = c, !.grace = grace])
        BY <1>1 DEF BeginRotate
    <2> DEFINE new == [NoAdmin EXCEPT !.kind = "rotate", !.old = c, !.grace = grace]
    <2>2. new \in AdminRow /\ new.kind = "rotate" /\ new.old = c
        BY DEF NoAdmin, AdminRow
    <2>3. Issued(c) /\ \A d \in Credentials : c < d /\ Issued(d) => Spent(d)
        BY <2>1, ReplacesLatest
    <2> HIDE DEF new
    <2> QED
        BY <2>1, <2>2, <2>3, BeginsAdmin DEF new
<1>2. ASSUME NEW r \in Rotations, BeginComplete(a, r) PROVE AccountsInv'
    <2> DEFINE new == [NoAdmin EXCEPT !.kind = "complete", !.rot = r]
    <2>1. new \in AdminRow /\ new.kind = "complete" /\ new.rot = r
        BY DEF NoAdmin, AdminRow
    <2>2. BeginAdmin(a, new) /\ rotation[r].status # "absent"
        BY <1>2 DEF BeginComplete
    <2>3. account # "absent"
        BY <2>2 DEF AccountsInv, RotationsSupersede, AccountHasKey
    <2> HIDE DEF new
    <2> QED
        BY <2>1, <2>2, <2>3, BeginsAdmin
<1>3. ASSUME BeginDisable(a) PROVE AccountsInv'
    <2> DEFINE revoked == {c \in Credentials : cred[c].status = "active"}
               new == [NoAdmin EXCEPT !.kind = "disable", !.revoke = revoked]
    <2>1. new \in AdminRow /\ new.kind = "disable" /\ new.revoke = revoked
        BY DEF NoAdmin, AdminRow
    <2>2. BeginAdmin(a, new) /\ account # "absent"
        BY <1>3 DEF BeginDisable
    <2>3. \A c \in revoked : Issued(c)
        BY DEF Issued
    <2> HIDE DEF new
    <2> QED
        BY <2>1, <2>2, <2>3, BeginsAdmin
<1> QED
    BY <1>1, <1>2, <1>3

LEMMA RotateAccount ==
    ASSUME AccountsInv, NEW life \in Lifetimes, NEW a \in Admins, rotate_service_account(a, life)
    PROVE  AccountsInv'
<1>a. PICK k : k = NextRow(cred)
    OBVIOUS
<1>b. PICK n : n = NextRow(rotation)
    OBVIOUS
<1>c. PICK old : old = adm[a].old
    OBVIOUS
<1>d. PICK none \in BOOLEAN : none = (adm[a].grace = 0)
    OBVIOUS
<1>0. /\ adm[a].kind = "rotate" /\ HasRow(cred) /\ HasRow(rotation)
      /\ UNCHANGED <<now, account, overlapped>>
      /\ adm' = [adm EXCEPT ![a] = NoAdmin]
      /\ cred' = [cred EXCEPT ![k] = _issue_credential(life),
                              ![old].retire = now + adm[a].grace,
                              ![old].status = IF none THEN "revoked" ELSE @]
      /\ rotation' = [rotation EXCEPT ![n] =
                        [status |-> IF none THEN "completed" ELSE "grace-period",
                         old |-> old, ends |-> now + adm[a].grace]]
    BY <1>a, <1>b, <1>c, <1>d DEF rotate_service_account, End
<1>1. /\ AccountsTypes /\ cred \in [Credentials -> CredentialRow]
      /\ \A c \in Credentials : c \in Nat
      /\ DOMAIN cred = Credentials /\ DOMAIN rotation = Rotations
      /\ old \in Credentials /\ Issued(old)
      /\ adm \in [Admins -> AdminRow]
      /\ now + adm[a].grace \in Instants
    <2>1. adm[a].grace \in {0, 1}
        BY DEF AccountsInv, AccountsTypes, AdminRow
    <2> QED
        BY <2>1, <1>c, <1>0, AccountFacts DEF AccountsInv, AccountsTypes, AccountsTypeOK, AdminKnows
<1>2. /\ k \in Credentials /\ n \in Rotations /\ ~Issued(k) /\ k # old
    <2>1. k \in Credentials /\ ~Issued(k)
        BY <1>a, <1>0, <1>1, NextRowFree DEF HasRow, Issued
    <2>2. n \in Rotations
        BY <1>b, <1>0, <1>1, NextRowFree, AccountsAssumption DEF HasRow
    <2> QED
        BY <2>1, <2>2, <1>1
<1>3. _issue_credential(life) \in CredentialRow
    BY AccountFacts, AccountRowTypes DEF _issue_credential, CredentialRow
<1> DEFINE ended == [cred[old] EXCEPT !.retire = now + adm[a].grace,
                                      !.status = IF none THEN "revoked" ELSE @]
<1>4. /\ ended \in CredentialRow /\ ended.expires = cred[old].expires /\ ended.status # "absent"
    BY <1>1 DEF CredentialRow, Issued
<1>5. /\ cred' \in [Credentials -> CredentialRow]
      /\ cred'[k] = _issue_credential(life)
      /\ cred'[old] = ended
      /\ \A c \in Credentials \ {k, old} : cred'[c] = cred[c]
    BY <1>0, <1>1, <1>2, <1>3, <1>4 DEF CredentialRow
<1> HIDE DEF ended
<1>6. \A c \in Credentials \ {k} : Issued(c)' <=> Issued(c)
    BY <1>0, <1>1, <1>4, <1>5 DEF Issued
<1>7. /\ InUse(k)' /\ IssuedInOrder'
      /\ \A c \in Credentials : Issued(c) => c # k /\ Issued(c)' /\ ~Newest(c)'
    BY <1>a, <1>0, <1>5, <1>6, Insertion
<1>8. /\ rotation'[n].status # "absent" /\ rotation'[n].old = old
      /\ \A r \in Rotations \ {n} : rotation'[r] = rotation[r]
      /\ rotation' \in [Rotations -> [status : {"absent", "grace-period", "completed"},
                                      old : {0} \cup Credentials, ends : Instants]]
    BY <1>0, <1>1, <1>2 DEF AccountsTypes, AccountsTypeOK
<1>9. /\ adm' \in [Admins -> AdminRow] /\ adm'[a].kind = "idle"
      /\ \A b \in Admins \ {a} : adm'[b] = adm[b]
    BY <1>0, <1>1, AccountRowTypes
<1>10. AccountsTypes'
    BY <1>0, <1>1, <1>5, <1>8, <1>9 DEF AccountsTypes, AccountsTypeOK, CredentialRow
<1>11. AccountHasKey'
    BY <1>0, <1>1, <1>2, <1>7 DEF AccountsInv, AccountHasKey
<1>12. RotationsSupersede'
    <2> SUFFICES ASSUME NEW r \in Rotations, rotation'[r].status # "absent"
                 PROVE  /\ rotation'[r].old \in Credentials
                        /\ Issued(rotation[r].old)'
                        /\ ~Newest(rotation[r].old)'
        BY DEF RotationsSupersede
    <2>1. PICK c : c = rotation'[r].old
        OBVIOUS
    <2>2. c \in Credentials /\ Issued(c)
        BY <2>1, <1>1, <1>8 DEF AccountsInv, RotationsSupersede
    <2>3. Issued(c)' /\ ~Newest(c)'
        BY <2>2, <1>7
    <2> QED
        BY <2>1, <2>2, <2>3 DEF Issued, Newest
<1>13. ASSUME NEW b \in Admins PROVE AdminKnows(b)'
    <2>1. CASE b = a
        BY <2>1, <1>9 DEF AdminKnows
    <2>2. CASE b # a
        <3>1. AdminKnows(b) /\ adm'[b] = adm[b] /\ adm[b] \in AdminRow
            BY <2>2, <1>1, <1>9 DEF AccountsInv
        <3>2. adm[b].kind = "rotate" => overlapped'
            BY <2>2, <3>1, <1>0 DEF AccountsInv, AdminKnows
        <3>3. adm[b].kind = "rotate" => adm[b].old \in Credentials /\ cred'[adm[b].old].status # "absent"
            BY <3>1, <1>7 DEF AdminKnows, Issued
        <3>4. adm[b].kind = "disable" => \A c \in adm[b].revoke : cred'[c].status # "absent"
            BY <3>1, <1>7 DEF AdminKnows, Issued, AdminRow
        <3>5. adm[b].kind = "complete" =>
                adm[b].rot \in Rotations /\ rotation'[adm[b].rot].status # "absent"
            BY <3>1, <1>8 DEF AdminKnows
        <3> QED
            BY <3>1, <3>2, <3>3, <3>4, <3>5 DEF AdminKnows, Issued
    <2> QED
        BY <2>1, <2>2
<1> QED
    BY <1>7, <1>10, <1>11, <1>12, <1>13 DEF AccountsInv

\* A step that ends the request of a and retires credentials: those that a
\* disabled account had, or one that has a successor.
LEMMA RetireAccounts ==
    ASSUME AccountsInv, NEW a \in Admins, adm' = [adm EXCEPT ![a] = NoAdmin],
           cred' \in [Credentials -> CredentialRow], UNCHANGED <<now, overlapped>>,
           rotation' \in [Rotations -> [status : {"absent", "grace-period", "completed"},
                                        old : {0} \cup Credentials, ends : Instants]],
           \A r \in Rotations : /\ rotation'[r].old = rotation[r].old
                                /\ rotation'[r].status = "absent" <=> rotation[r].status = "absent",
           \A c \in Credentials : /\ cred'[c].expires = cred[c].expires
                                  /\ Issued(c) <=> Issued(c)'
                                  /\ cred[c].status = "revoked" => cred'[c].status = "revoked",
           \/ account = account' /\ \A c \in Credentials : Newest(c) => cred'[c] = cred[c]
           \/ account' = "disabled"
    PROVE  AccountsInv'
<1>1. /\ adm \in [Admins -> AdminRow] /\ adm' \in [Admins -> AdminRow]
      /\ adm'[a].kind = "idle" /\ \A b \in Admins \ {a} : adm'[b] = adm[b]
    BY AccountRowTypes DEF AccountsInv, AccountsTypes
<1>2. AccountsTypes'
    BY <1>1, AccountsAssumption DEF AccountsInv, AccountsTypes, AccountsTypeOK, CredentialRow
<1>3. IssuedInOrder'
    BY DEF AccountsInv, IssuedInOrder
<1>4. \A c \in Credentials : Newest(c) <=> Newest(c)'
    BY DEF Newest
<1>5. \A c \in Credentials : InUse(c) => InUse(c)' \/ account' = "disabled"
    BY <1>4 DEF InUse, Newest
<1>6. AccountHasKey'
    BY <1>1, <1>5 DEF AccountsInv, AccountHasKey
<1>7. RotationsSupersede'
    <2> SUFFICES ASSUME NEW r \in Rotations, rotation'[r].status # "absent"
                 PROVE  /\ rotation'[r].old \in Credentials
                        /\ Issued(rotation[r].old)'
                        /\ ~Newest(rotation[r].old)'
        BY DEF RotationsSupersede
    <2>1. PICK c : c = rotation'[r].old
        OBVIOUS
    <2>2. c \in Credentials /\ Issued(c) /\ ~Newest(c)
        BY <2>1 DEF AccountsInv, RotationsSupersede
    <2>3. Issued(c)' /\ ~Newest(c)'
        BY <2>2, <1>4
    <2> QED
        BY <2>1, <2>2, <2>3 DEF Issued, Newest
<1>o. \A c \in Credentials : Spent(c) => Spent(c)'
    BY DEF Spent
<1>8. ASSUME NEW b \in Admins PROVE AdminKnows(b)'
    <2>1. CASE b = a
        BY <2>1, <1>1 DEF AdminKnows
    <2>2. CASE b # a
        <3>1. AdminKnows(b) /\ adm'[b] = adm[b] /\ adm[b] \in AdminRow
            BY <2>2, <1>1 DEF AccountsInv
        <3>2. \A d \in Admins : adm'[d].kind = "rotate" => adm[d].kind = "rotate"
            BY <1>1
        <3>3. PICK old : old = adm[b].old
            OBVIOUS
        <3>4. adm[b].kind = "rotate" =>
                /\ old \in Credentials /\ Issued(old)'
                /\ ~overlapped => \A d \in Credentials : old < d /\ Issued(d)' => Spent(d)'
            BY <3>1, <3>3, <1>o DEF AdminKnows
        <3>5. adm[b].kind = "disable" => \A c \in adm[b].revoke : Issued(c)'
            BY <3>1 DEF AdminKnows, AdminRow
        <3>6. adm[b].kind = "complete" =>
                adm[b].rot \in Rotations /\ rotation'[adm[b].rot].status # "absent"
            BY <3>1 DEF AdminKnows
        <3>7. adm[b].kind = "rotate" /\ ~overlapped =>
                \A d \in Admins : adm'[d].kind = "rotate" => b = d
            BY <3>1, <3>2 DEF AdminKnows
        <3> QED
            BY <3>1, <3>3, <3>4, <3>5, <3>6, <3>7 DEF AdminKnows, Issued, Spent
    <2> QED
        BY <2>1, <2>2
<1> QED
    BY <1>2, <1>3, <1>6, <1>7, <1>8 DEF AccountsInv

LEMMA CompleteAccount == AccountsInv /\ (\E a \in Admins : complete_rotation(a)) => AccountsInv'
<1> SUFFICES ASSUME AccountsInv, NEW a \in Admins, complete_rotation(a) PROVE AccountsInv'
    OBVIOUS
<1>a. PICK r : r = adm[a].rot
    OBVIOUS
<1>b. PICK old : old = rotation[r].old
    OBVIOUS
<1>0. /\ adm[a].kind = "complete"
      /\ UNCHANGED <<now, account, overlapped>>
      /\ adm' = [adm EXCEPT ![a] = NoAdmin]
      /\ cred' = [cred EXCEPT ![old].status = "revoked", ![old].retire = now]
      /\ rotation' = [rotation EXCEPT ![r].status = "completed"]
    BY <1>a, <1>b DEF complete_rotation, End
<1>1. /\ AccountsTypes /\ cred \in [Credentials -> CredentialRow]
      /\ r \in Rotations /\ rotation[r].status # "absent" /\ now \in Instants
      /\ old \in Credentials /\ Issued(old) /\ ~Newest(old)
    BY <1>a, <1>b, <1>0, AccountFacts DEF AccountsInv, AccountsTypes, AdminKnows, RotationsSupersede
<1> DEFINE ended == [cred[old] EXCEPT !.status = "revoked", !.retire = now]
<1>2. ended \in CredentialRow /\ ended.expires = cred[old].expires /\ ended.status = "revoked"
    BY <1>1 DEF CredentialRow
<1>3. /\ cred' \in [Credentials -> CredentialRow] /\ cred'[old] = ended
      /\ \A c \in Credentials \ {old} : cred'[c] = cred[c]
    BY <1>0, <1>1, <1>2 DEF CredentialRow
<1> HIDE DEF ended
<1>4. \A c \in Credentials : /\ cred'[c].expires = cred[c].expires
                             /\ Issued(c) <=> Issued(c)'
                             /\ cred[c].status = "revoked" => cred'[c].status = "revoked"
    BY <1>1, <1>2, <1>3 DEF Issued
<1>5. \A c \in Credentials : Newest(c) => cred'[c] = cred[c]
    BY <1>1, <1>3
<1>6. /\ rotation' \in [Rotations -> [status : {"absent", "grace-period", "completed"},
                                      old : {0} \cup Credentials, ends : Instants]]
      /\ \A s \in Rotations : /\ rotation'[s].old = rotation[s].old
                              /\ rotation'[s].status = "absent" <=> rotation[s].status = "absent"
    BY <1>0, <1>1 DEF AccountsTypes, AccountsTypeOK
<1> QED
    BY <1>0, <1>3, <1>4, <1>5, <1>6, RetireAccounts

LEMMA DisableAccount == AccountsInv /\ (\E a \in Admins : disable_service_account(a)) => AccountsInv'
<1> SUFFICES ASSUME AccountsInv, NEW a \in Admins, disable_service_account(a) PROVE AccountsInv'
    OBVIOUS
<1>0. /\ adm[a].kind = "disable" /\ account' = "disabled"
      /\ UNCHANGED <<now, rotation, overlapped>>
      /\ adm' = [adm EXCEPT ![a] = NoAdmin]
      /\ cred' = [c \in Credentials |->
                    IF c \in adm[a].revoke
                    THEN [cred[c] EXCEPT !.status = "revoked", !.retire = now]
                    ELSE cred[c]]
    BY DEF disable_service_account, End
<1>1. /\ AccountsTypes /\ cred \in [Credentials -> CredentialRow] /\ now \in Instants
      /\ \A c \in adm[a].revoke : Issued(c)
    BY <1>0, AccountFacts DEF AccountsInv, AdminKnows
<1>2. /\ cred' \in [Credentials -> CredentialRow]
      /\ \A c \in Credentials :
            /\ cred'[c].expires = cred[c].expires
            /\ cred[c].status = "revoked" => cred'[c].status = "revoked"
    BY <1>0, <1>1 DEF CredentialRow
<1>3. \A c \in Credentials : Issued(c) <=> Issued(c)'
    BY <1>0, <1>1 DEF Issued, CredentialRow
<1>4. /\ rotation' \in [Rotations -> [status : {"absent", "grace-period", "completed"},
                                      old : {0} \cup Credentials, ends : Instants]]
      /\ \A s \in Rotations : /\ rotation'[s].old = rotation[s].old
                              /\ rotation'[s].status = "absent" <=> rotation[s].status = "absent"
    BY <1>0, <1>1 DEF AccountsTypes, AccountsTypeOK
<1> QED
    BY <1>0, <1>2, <1>3, <1>4, RetireAccounts

LEMMA CommitsAdmin == AccountsInv /\ AdminCommits => AccountsInv'
BY CreateAccount, RotateAccount, CompleteAccount, DisableAccount DEF AdminCommits

-----------------------------------------------------------------------------
\* The credential in use authenticates until it expires.
LEMMA AccountsHold == AccountsInv => CredentialsHold
<1> SUFFICES ASSUME AccountsInv PROVE CredentialsHold
    OBVIOUS
<1>1. DisabledStaysOut
    BY DEF DisabledStaysOut, authenticate_service_account
<1>2. ASSUME account = "active" PROVE NewestWorks
    <2>1. PICK c \in Credentials : InUse(c)
        BY <1>2 DEF AccountsInv, AccountHasKey
    <2>2. cred[c].expires > now => authenticate_service_account(c)
        BY <2>1, <1>2, AccountFacts, AccountRowTypes DEF InUse, authenticate_service_account
    <2> QED
        BY <2>1, <2>2 DEF NewestWorks, InUse, Newest, Issued
<1> QED
    BY <1>1, <1>2 DEF CredentialsHold, NewestWorks

StaysOut ==
    \A c \in Credentials :
        Issued(c) /\ ~authenticate_service_account(c) =>
            /\ Gone(c) => ~authenticate_service_account(c)'
            /\ Superseded(c) => ~authenticate_service_account(c)' \/ overlapped

\* A credential that authenticates after a step did so before, or a rotation gave
\* it a new end: then it had not ended itself, and what was issued later had.
LEMMA AccountsStayOut ==
    ASSUME AccountsInv, AdminStarts \/ AdminCommits \/ Tick \/ UNCHANGED svars
    PROVE  StaysOut
<1> SUFFICES ASSUME NEW c \in Credentials, Issued(c), authenticate_service_account(c)',
                    ~authenticate_service_account(c)
             PROVE  ~Gone(c) /\ (Superseded(c) => overlapped)
    BY DEF StaysOut
<1>0. /\ cred'[c].status = "active" /\ cred'[c].expires > now' /\ cred'[c].retire > now'
      /\ account' = "active"
    BY DEF authenticate_service_account
<1>1. /\ cred \in [Credentials -> CredentialRow] /\ now \in Nat /\ account # "absent"
      /\ cred[c].expires \in Nat /\ cred[c].retire \in Nat /\ now < Never
    BY AccountFacts, AccountRowTypes DEF CredentialRow, AccountsInv, AccountHasKey
<1>2. ~(UNCHANGED <<account, cred>> /\ (now' = now \/ now' = now + 1))
    BY <1>0, <1>1 DEF authenticate_service_account
<1>3. ~(AdminStarts \/ Tick \/ UNCHANGED svars)
    BY <1>2 DEF AdminStarts, BeginRotate, BeginComplete, BeginDisable, BeginAdmin, Tick, svars
<1>4. ASSUME NEW life \in Lifetimes, create_service_account(life) PROVE FALSE
    BY <1>1, <1>4 DEF create_service_account
<1>5. ASSUME NEW life \in Lifetimes, NEW a \in Admins, rotate_service_account(a, life)
      PROVE  ~Gone(c) /\ (Superseded(c) => overlapped)
    <2>a. PICK k : k = NextRow(cred)
        OBVIOUS
    <2>b. PICK old : old = adm[a].old
        OBVIOUS
    <2>c. PICK none \in BOOLEAN : none = (adm[a].grace = 0)
        OBVIOUS
    <2>1. /\ adm[a].kind = "rotate" /\ HasRow(cred)
          /\ UNCHANGED <<now, account>>
          /\ cred' = [cred EXCEPT ![k] = _issue_credential(life),
                                  ![old].retire = now + adm[a].grace,
                                  ![old].status = IF none THEN "revoked" ELSE @]
        BY <1>5, <2>a, <2>b, <2>c DEF rotate_service_account
    <2>2. DOMAIN cred = Credentials /\ DOMAIN cred \subseteq Nat
        BY <1>1, AccountsAssumption
    <2>3. k # c
        BY <2>a, <2>1, <2>2, NextRowFree DEF HasRow, Issued
    <2>4. c = old
        <3> SUFFICES ASSUME c # old PROVE FALSE
            OBVIOUS
        <3>1. cred'[c] = cred[c]
            BY <2>1, <2>2, <2>3
        <3> QED
            BY <3>1, <2>1, <1>0, <1>1 DEF authenticate_service_account
    <2>5. cred'[c].expires = cred[c].expires /\ cred[c].status = "active"
        BY <2>1, <2>2, <2>3, <2>4, <1>0, <1>1 DEF CredentialRow
    <2>6. ~Gone(c)
        BY <2>1, <2>5, <1>0, <1>1 DEF Gone
    <2>7. ASSUME ~overlapped, NEW d \in Credentials, c < d, authenticate_service_account(d)
          PROVE  FALSE
        <3>1. Issued(d) /\ cred[d].status = "active" /\ cred[d].expires > now
            BY <2>7 DEF Issued, authenticate_service_account
        <3>2. Spent(d)
            BY <2>1, <2>4, <2>b, <2>7, <3>1 DEF AccountsInv, AdminKnows
        <3>3. cred[d].expires \in Nat
            BY AccountRowTypes, <1>1 DEF CredentialRow
        <3> QED
            BY <3>1, <3>2, <3>3, <1>1 DEF Spent
    <2> QED
        BY <2>6, <2>7 DEF Superseded
<1>6. ASSUME NEW a \in Admins, complete_rotation(a) PROVE FALSE
    <2>1. PICK old : cred' = [cred EXCEPT ![old].status = "revoked", ![old].retire = now]
        BY <1>6 DEF complete_rotation
    <2>2. UNCHANGED <<now, account>>
        BY <1>6 DEF complete_rotation
    <2>3. c # old
        BY <2>1, <1>0, <1>1 DEF CredentialRow
    <2>4. cred'[c] = cred[c]
        BY <2>1, <2>3, <1>1
    <2> QED
        BY <2>2, <2>4, <1>0 DEF authenticate_service_account
<1>7. ASSUME NEW a \in Admins, disable_service_account(a) PROVE FALSE
    BY <1>0, <1>7 DEF disable_service_account
<1> QED
    BY <1>3, <1>4, <1>5, <1>6, <1>7 DEF AdminCommits

-----------------------------------------------------------------------------
(***************************************************************************)
(* Identities: each step keeps IdentityInv.                                *)
(***************************************************************************)
Flags == [asked : BOOLEAN, overlap : BOOLEAN, crashed : BOOLEAN, cancelled : BOOLEAN]
HandlerRow == [place : {"idle", "commit", "return", "dead"}, active : BOOLEAN, member : BOOLEAN]
QueueRow == [status : JobStatuses, attempts : 0..MaxAttempts]

LEMMA IdentityRowTypes ==
    /\ NoClient \in ScimRow /\ NoClient.kind = "idle" /\ NoClient.place = "idle"
    /\ NoClient.workflow = 0 /\ ~NoClient.put
    /\ NoHandler \in HandlerRow /\ NoHandler.place = "idle"
BY DEF NoClient, ScimRow, NoHandler, HandlerRow

LEMMA IdentityFacts ==
    ASSUME IdentityInv
    PROVE  /\ queue \in [Jobs -> QueueRow]
           /\ user \in [active : BOOLEAN, data : BOOLEAN] /\ member \in BOOLEAN
           /\ workflow \in [Workflows -> WorkflowStatuses]
           /\ payload \in [Jobs -> Workflows \cup {0}] /\ cancels \subseteq Jobs
           /\ handler \in [Jobs -> HandlerRow]
           /\ scim \in [Clients -> ScimRow]
           /\ hist \in Flags
           /\ 0 \notin Workflows
BY IdentityAssumption
   DEF IdentityInv, IdentityTypes, IdentityTypeOK, QueueTypeOK, QueueRow, HandlerRow, Flags

LEMMA InitIdentity == IdentityInit => IdentityInv
<1> SUFFICES ASSUME IdentityInit PROVE IdentityInv
    OBVIOUS
<1> USE DEF IdentityInit
<1>1. /\ \A c \in Clients : scim[c] = NoClient
      /\ \A j \in Jobs : handler[j] = NoHandler /\ payload[j] = 0 /\ queue[j] = AbsentJob
      /\ \A w \in Workflows : workflow[w] = "absent"
    BY DEF QueueInit
<1>2. IdentityTypes
    BY IdentityAssumption, IdentityRowTypes
       DEF IdentityTypes, IdentityTypeOK, QueueTypeOK, QueueInit, AbsentJob, JobStatuses,
           WorkflowStatuses, HandlerRow
<1>3. PendingHasAttempts
    BY <1>1 DEF PendingHasAttempts, AbsentJob
<1>4. WorkflowsKnown
    BY <1>1, IdentityRowTypes DEF WorkflowsKnown
<1>5. CopiesFresh
    BY <1>1, IdentityRowTypes DEF CopiesFresh
<1>6. RequestsDeactivate
    BY <1>1 DEF RequestsDeactivate, Requested, Deprovisioned
<1> QED
    BY <1>2, <1>3, <1>4, <1>5, <1>6 DEF IdentityInv

\* What the queue does for one job.
LEMMA QueueStep ==
    ASSUME queue \in [Jobs -> QueueRow], PendingHasAttempts, NEW j \in Jobs,
           Enqueue(j) \/ Claim(j) \/ Complete(j) \/ Fail(j) \/ Cancel(j) \/ Retry(j)
           \/ Recover({j})
    PROVE  queue' \in [Jobs -> QueueRow] /\ PendingHasAttempts'
<1>0. /\ queue[j] \in QueueRow /\ queue[j].attempts \in 0..MaxAttempts
      /\ MaxAttempts \in Nat \ {0}
    BY IdentityAssumption DEF QueueRow
<1>1. ASSUME NEW row \in QueueRow, row.status = "pending" => row.attempts < MaxAttempts,
             queue' = [queue EXCEPT ![j] = row]
      PROVE  queue' \in [Jobs -> QueueRow] /\ PendingHasAttempts'
    BY <1>1 DEF PendingHasAttempts
<1>2. CASE Enqueue(j)
    <2> DEFINE row == [status |-> "pending", attempts |-> 0]
    <2>1. row \in QueueRow /\ row.attempts < MaxAttempts
        BY <1>0 DEF QueueRow, JobStatuses
    <2> QED
        BY <2>1, <1>1, <1>2 DEF Enqueue
<1>3. CASE Claim(j)
    <2> DEFINE row == [status |-> "running", attempts |-> queue[j].attempts + 1]
    <2>1. queue[j].attempts < MaxAttempts
        BY <1>3 DEF Claim, PendingHasAttempts
    <2>2. row \in QueueRow
        BY <2>1, <1>0 DEF QueueRow, JobStatuses
    <2> QED
        BY <2>2, <1>1, <1>3 DEF Claim
<1>4. CASE Complete(j)
    <2> DEFINE row == [queue[j] EXCEPT !.status = "completed"]
    <2>1. row \in QueueRow /\ row.status = "completed"
        BY <1>0 DEF QueueRow, JobStatuses
    <2> QED
        BY <2>1, <1>1, <1>4 DEF Complete
<1>5. CASE Cancel(j)
    <2> DEFINE row == [queue[j] EXCEPT !.status = "cancelled"]
    <2>1. row \in QueueRow /\ row.status = "cancelled"
        BY <1>0 DEF QueueRow, JobStatuses
    <2> QED
        BY <2>1, <1>1, <1>5 DEF Cancel
<1>6. /\ AfterFailure(queue[j]) \in QueueRow
      /\ AfterFailure(queue[j]).status = "pending" =>
            AfterFailure(queue[j]).attempts < MaxAttempts
    BY <1>0 DEF AfterFailure, QueueRow, JobStatuses
<1>7. CASE Fail(j)
    BY <1>1, <1>6, <1>7 DEF Fail
<1>8. CASE Recover({j})
    <2>1. queue' = [queue EXCEPT ![j] = AfterFailure(queue[j])]
        BY <1>8 DEF Recover
    <2> QED
        BY <2>1, <1>1, <1>6
<1>9. CASE Retry(j)
    <2> DEFINE row == [status |-> "pending", attempts |-> 0]
    <2>1. row \in QueueRow /\ row.attempts < MaxAttempts
        BY <1>0 DEF QueueRow, JobStatuses
    <2> QED
        BY <2>1, <1>1, <1>9 DEF Retry
<1> QED
    BY <1>2, <1>3, <1>4, <1>5, <1>7, <1>8, <1>9

\* A request begins, with a fresh copy.
LEMMA BeginsScim ==
    ASSUME IdentityInv, NEW c \in Clients, NEW new \in ScimRow, BeginScim(c, new),
           new.kind # "idle", new.workflow = 0,
           new.kind = "user" => /\ new.copy = user.active /\ new.data = user.data
                                /\ new.place = "write" /\ ~new.put => new.to = user.data,
           new.kind = "group" => new.place = "write" /\ (~new.put => new.to = member)
    PROVE  IdentityInv'
<1>0. /\ scim[c].kind = "idle" /\ scim' = [scim EXCEPT ![c] = new]
      /\ UNCHANGED <<queue, user, member, workflow, payload, cancels, handler>>
      /\ hist' = [hist EXCEPT !.overlap = hist.overlap \/ Handling
                                          \/ \E d \in Clients : scim[d].kind # "idle"]
    BY DEF BeginScim
<1>1. /\ scim' \in [Clients -> ScimRow] /\ scim'[c] = new
      /\ \A d \in Clients \ {c} : scim'[d] = scim[d]
      /\ hist' \in Flags /\ hist'.asked = hist.asked
      /\ hist'.overlap = (hist.overlap \/ Handling \/ \E d \in Clients : scim[d].kind # "idle")
    BY <1>0, IdentityFacts DEF Flags
<1>2. IdentityTypes' /\ PendingHasAttempts'
    BY <1>0, <1>1 DEF IdentityInv, IdentityTypes, IdentityTypeOK, QueueTypeOK, Flags,
                      PendingHasAttempts
<1>3. WorkflowsKnown'
    BY <1>0, <1>1 DEF IdentityInv, WorkflowsKnown
<1>4. RequestsDeactivate'
    BY <1>0, <1>1, IdentityFacts DEF IdentityInv, RequestsDeactivate, Requested, Deprovisioned, Flags
<1>5. CopiesFresh'
    <2> SUFFICES ASSUME ~hist'.overlap PROVE CopiesFresh'
        BY DEF CopiesFresh
    <2>1. ~hist.overlap /\ ~Handling /\ \A d \in Clients : scim[d].kind = "idle"
        BY <1>1, IdentityFacts DEF Flags
    <2>2. \A d \in Clients \ {c} : scim'[d].kind = "idle"
        BY <2>1, <1>1
    <2>3. ~Handling'
        BY <2>1, <1>0 DEF Handling
    <2> QED
        BY <2>2, <2>3, <1>0, <1>1 DEF CopiesFresh, Handling
<1> QED
    BY <1>2, <1>3, <1>4, <1>5 DEF IdentityInv

LEMMA StartsScim ==
    ASSUME IdentityInv, NEW c \in Clients,
           \/ \E to \in BOOLEAN : BeginPutUser(c, to) \/ BeginPutGroup(c, to)
           \/ BeginPatchUser(c) \/ BeginPatchGroup(c) \/ BeginDeleteUser(c)
    PROVE  IdentityInv'
<1>0. user.active \in BOOLEAN /\ user.data \in BOOLEAN /\ member \in BOOLEAN
    BY IdentityFacts
<1>1. ASSUME NEW to \in BOOLEAN, BeginPutUser(c, to) PROVE IdentityInv'
    <2>1. PICK new : new = [NoClient EXCEPT !.kind = "user", !.place = "write", !.to = to,
                                !.put = TRUE, !.copy = user.active, !.data = user.data]
        OBVIOUS
    <2>2. /\ new \in ScimRow /\ new.kind = "user" /\ new.workflow = 0 /\ new.put
          /\ new.copy = user.active /\ new.data = user.data
        BY <2>1, <1>0 DEF NoClient, ScimRow
    <2> QED
        BY <2>1, <2>2, <1>1, BeginsScim DEF BeginPutUser
<1>2. ASSUME NEW to \in BOOLEAN, BeginPutGroup(c, to) PROVE IdentityInv'
    <2>1. PICK new : new = [NoClient EXCEPT !.kind = "group", !.place = "write", !.to = to,
                                !.put = TRUE]
        OBVIOUS
    <2>2. /\ new \in ScimRow /\ new.kind = "group" /\ new.workflow = 0 /\ new.put
          /\ new.place = "write"
        BY <2>1, <1>0 DEF NoClient, ScimRow
    <2> QED
        BY <2>1, <2>2, <1>2, BeginsScim DEF BeginPutGroup
<1>3. CASE BeginPatchUser(c)
    <2>1. PICK new : new = [NoClient EXCEPT !.kind = "user", !.place = "write", !.to = user.data,
                                !.copy = user.active, !.data = user.data]
        OBVIOUS
    <2>2. /\ new \in ScimRow /\ new.kind = "user" /\ new.workflow = 0 /\ new.to = user.data
          /\ new.copy = user.active /\ new.data = user.data
        BY <2>1, <1>0 DEF NoClient, ScimRow
    <2> QED
        BY <2>1, <2>2, <1>3, BeginsScim DEF BeginPatchUser
<1>4. CASE BeginPatchGroup(c)
    <2>1. PICK new : new = [NoClient EXCEPT !.kind = "group", !.place = "write", !.to = member]
        OBVIOUS
    <2>2. /\ new \in ScimRow /\ new.kind = "group" /\ new.workflow = 0 /\ new.to = member
          /\ new.place = "write"
        BY <2>1, <1>0 DEF NoClient, ScimRow
    <2> QED
        BY <2>1, <2>2, <1>4, BeginsScim DEF BeginPatchGroup
<1>5. CASE BeginDeleteUser(c)
    <2>1. PICK new : new = [NoClient EXCEPT !.kind = "user", !.place = "lookup",
                                !.copy = user.active, !.data = user.data]
        OBVIOUS
    <2>2. /\ new \in ScimRow /\ new.kind = "user" /\ new.workflow = 0 /\ new.place = "lookup"
          /\ new.copy = user.active /\ new.data = user.data
        BY <2>1, <1>0 DEF NoClient, ScimRow
    <2> QED
        BY <2>1, <2>2, <1>5, BeginsScim DEF BeginDeleteUser
<1> QED
    BY <1>1, <1>2, <1>3, <1>4, <1>5

\* A request ends, or goes on with what it wrote.
LEMMA MovesScim ==
    ASSUME IdentityInv, NEW c \in Clients, NEW new \in ScimRow, scim[c].kind # "idle",
           scim' = [scim EXCEPT ![c] = new],
           \/ new = NoClient
           \/ /\ new.kind = "user" /\ new.place \in {"lookup", "request", "enqueue"}
              /\ new.place # "enqueue" => new.copy = user'.active /\ new.data = user'.data
              /\ new.workflow # 0 => workflow'[new.workflow] # "absent",
           UNCHANGED <<payload, cancels, handler>>,
           queue' \in [Jobs -> QueueRow], PendingHasAttempts',
           workflow' \in [Workflows -> WorkflowStatuses],
           \A w \in Workflows : workflow[w] # "absent" => workflow'[w] # "absent",
           user' \in [active : BOOLEAN, data : BOOLEAN], member' \in BOOLEAN,
           hist' \in Flags, hist'.overlap = hist.overlap,
           RequestsDeactivate'
    PROVE  IdentityInv'
<1>1. /\ scim' \in [Clients -> ScimRow] /\ scim'[c] = new
      /\ \A d \in Clients \ {c} : scim'[d] = scim[d]
    BY IdentityFacts
<1>2. IdentityTypes'
    BY <1>1 DEF IdentityInv, IdentityTypes, IdentityTypeOK, QueueTypeOK, QueueRow, Flags
<1>3. WorkflowsKnown'
    BY <1>1, IdentityFacts, IdentityRowTypes DEF IdentityInv, WorkflowsKnown, ScimRow
<1>4. CopiesFresh'
    <2> SUFFICES ASSUME ~hist'.overlap PROVE CopiesFresh'
        BY DEF CopiesFresh
    <2>1. /\ ~Handling /\ ~Handling'
          /\ \A d \in Clients \ {c} : scim[d].kind = "idle" /\ scim'[d].kind = "idle"
        BY <1>1 DEF IdentityInv, CopiesFresh, Handling
    <2> QED
        BY <1>1, <2>1, IdentityRowTypes DEF CopiesFresh, Handling
<1> QED
    BY <1>2, <1>3, <1>4 DEF IdentityInv

LEMMA ReplaceUser == ASSUME IdentityInv, NEW c \in Clients, replace_resource(c) PROVE IdentityInv'
<1>a. PICK s : s = scim[c]
    OBVIOUS
<1>b. PICK new : new = IF s.copy /\ ~user'.active
                       THEN [s EXCEPT !.place = "lookup", !.copy = user'.active,
                                      !.data = user'.data]
                       ELSE NoClient
    OBVIOUS
<1>0. /\ s.place = "write" /\ s.kind = "user"
      /\ user' = [active |-> Written(user.active, s.copy, s.to), data |-> s.to]
      /\ scim' = [scim EXCEPT ![c] = new]
      /\ hist' = [hist EXCEPT !.asked = @ \/ Asked(c)]
      /\ UNCHANGED <<queue, member, workflow, payload, cancels, handler>>
    BY <1>a, <1>b DEF replace_resource
<1>1. s \in ScimRow /\ user' \in [active : BOOLEAN, data : BOOLEAN]
    BY <1>a, <1>0, IdentityFacts DEF ScimRow, Written
<1>2. /\ new \in ScimRow
      /\ new = NoClient \/ /\ new.kind = "user" /\ new.place = "lookup"
                           /\ new.copy = user'.active /\ new.data = user'.data
                           /\ new.workflow = s.workflow
    <2>1. PICK active, data : active = user'.active /\ data = user'.data
        OBVIOUS
    <2>2. active \in BOOLEAN /\ data \in BOOLEAN
        BY <1>1, <2>1
    <2>3. CASE s.copy /\ ~active
        <3>1. new = [s EXCEPT !.place = "lookup", !.copy = active, !.data = data]
            BY <1>b, <2>1, <2>3
        <3>2. new \in ScimRow
            BY ONLY <3>1, <2>2, <1>1 DEF ScimRow
        <3>3. /\ new.kind = s.kind /\ new.place = "lookup" /\ new.workflow = s.workflow
              /\ new.copy = active /\ new.data = data
            BY ONLY <3>1, <1>1 DEF ScimRow
        <3> QED
            BY <3>2, <3>3, <1>0, <2>1
    <2>4. CASE ~(s.copy /\ ~active)
        <3>1. new = NoClient
            BY <1>b, <2>1, <2>4
        <3> QED
            BY <3>1, IdentityRowTypes
    <2> QED
        BY <2>3, <2>4
<1>3. new # NoClient /\ new.workflow # 0 => workflow'[new.workflow] # "absent"
    BY <1>a, <1>0, <1>2 DEF IdentityInv, WorkflowsKnown
<1>4. hist' \in Flags /\ hist'.overlap = hist.overlap /\ hist'.asked = (hist.asked \/ Asked(c))
    BY <1>0, IdentityFacts DEF Flags
<1>5. RequestsDeactivate'
    <2> SUFFICES ASSUME ~hist'.overlap, ~hist'.asked PROVE RequestsDeactivate'
        BY DEF RequestsDeactivate
    <2>1. ~hist.overlap /\ ~hist.asked /\ ~Asked(c)
        BY <1>4, IdentityFacts DEF Flags, Asked
    <2>2. ASSUME Requested PROVE ~s.to
        <3>1. ~(s.put /\ s.to)
            BY <1>a, <2>1, <2>2 DEF Asked, Requested
        <3>2. ~s.put => s.to = user.data
            BY <1>a, <1>0, <2>1 DEF IdentityInv, CopiesFresh
        <3>3. ~user.data
            BY <2>1, <2>2 DEF IdentityInv, RequestsDeactivate
        <3> QED
            BY <3>1, <3>2, <3>3, <1>1 DEF ScimRow
    <2>3. Requested => ~user.active
        BY <2>1 DEF IdentityInv, RequestsDeactivate
    <2>4. Requested => ~user'.active /\ ~user'.data
        BY <1>0, <1>1, <2>2, <2>3 DEF Written, ScimRow
    <2> QED
        BY <2>1, <2>4, <1>0 DEF IdentityInv, RequestsDeactivate, Requested, Deprovisioned
<1> QED
    BY <1>a, <1>0, <1>1, <1>2, <1>3, <1>4, <1>5, IdentityFacts, MovesScim
       DEF IdentityInv, PendingHasAttempts

LEMMA ReplaceGroup == ASSUME IdentityInv, NEW c \in Clients, replace_group(c) PROVE IdentityInv'
<1>0. /\ scim[c].place = "write" /\ scim[c].kind = "group"
      /\ member' = scim[c].to
      /\ scim' = [scim EXCEPT ![c] = NoClient]
      /\ hist' = [hist EXCEPT !.asked = @ \/ Asked(c)]
      /\ UNCHANGED <<queue, user, workflow, payload, cancels, handler>>
    BY DEF replace_group
<1>1. scim[c] \in ScimRow /\ member' \in BOOLEAN
    BY <1>0, IdentityFacts DEF ScimRow
<1>4. hist' \in Flags /\ hist'.overlap = hist.overlap /\ hist'.asked = (hist.asked \/ Asked(c))
    BY <1>0, IdentityFacts DEF Flags
<1>5. RequestsDeactivate'
    <2> SUFFICES ASSUME ~hist'.overlap, ~hist'.asked PROVE RequestsDeactivate'
        BY DEF RequestsDeactivate
    <2>1. ~hist.overlap /\ ~hist.asked /\ ~Asked(c)
        BY <1>4, IdentityFacts DEF Flags, Asked
    <2>2. ASSUME Deprovisioned PROVE ~scim[c].to
        <3>1. ~(scim[c].put /\ scim[c].to)
            BY <2>1, <2>2 DEF Asked, Deprovisioned
        <3>2. ~scim[c].put => scim[c].to = member
            BY <1>0, <2>1 DEF IdentityInv, CopiesFresh
        <3>3. ~member
            BY <2>1, <2>2 DEF IdentityInv, RequestsDeactivate
        <3> QED
            BY <3>1, <3>2, <3>3, <1>1 DEF ScimRow
    <2> QED
        BY <2>1, <2>2, <1>0 DEF IdentityInv, RequestsDeactivate, Requested, Deprovisioned
<1> QED
    BY <1>0, <1>1, <1>4, <1>5, IdentityFacts, IdentityRowTypes, MovesScim
       DEF IdentityInv, PendingHasAttempts

LEMMA LooksUp == ASSUME IdentityInv, NEW c \in Clients, LookupWorkflow(c) PROVE IdentityInv'
<1>a. PICK new : new = IF \E w \in Workflows : workflow[w] = "pending" THEN NoClient
                       ELSE [scim[c] EXCEPT !.place = "request"]
    OBVIOUS
<1>0. /\ scim[c].place = "lookup" /\ scim' = [scim EXCEPT ![c] = new]
      /\ UNCHANGED <<queue, user, member, workflow, payload, cancels, handler, hist>>
    BY <1>a DEF LookupWorkflow
<1>1. scim[c] \in ScimRow /\ scim[c].kind = "user"
    BY <1>0, IdentityFacts DEF IdentityInv, WorkflowsKnown, ScimRow
<1>2. /\ new \in ScimRow
      /\ new = NoClient \/ /\ new.kind = "user" /\ new.place = "request"
                           /\ new.copy = scim[c].copy /\ new.data = scim[c].data
                           /\ new.workflow = scim[c].workflow
    BY <1>a, <1>1, IdentityRowTypes DEF ScimRow
<1>3. new # NoClient /\ new.workflow # 0 => workflow'[new.workflow] # "absent"
    BY <1>0, <1>2 DEF IdentityInv, WorkflowsKnown
<1>4. RequestsDeactivate'
    BY <1>0 DEF IdentityInv, RequestsDeactivate, Requested, Deprovisioned
<1>5. CopiesFresh'
    <2> SUFFICES ASSUME ~hist'.overlap PROVE CopiesFresh'
        BY DEF CopiesFresh
    <2>1. /\ ~Handling /\ ~Handling'
          /\ \A d \in Clients \ {c} : scim[d].kind = "idle" /\ scim'[d] = scim[d]
          /\ scim[c].copy = user.active /\ scim[c].data = user.data
        BY <1>0, <1>1, IdentityFacts DEF IdentityInv, CopiesFresh, Handling
    <2> QED
        BY <1>0, <1>2, <2>1, IdentityFacts, IdentityRowTypes DEF CopiesFresh, Handling
<1>6. scim' \in [Clients -> ScimRow] /\ scim'[c] = new /\ \A d \in Clients \ {c} : scim'[d] = scim[d]
    BY <1>0, <1>2, IdentityFacts
<1>7. IdentityTypes'
    BY <1>0, <1>6 DEF IdentityInv, IdentityTypes, IdentityTypeOK, QueueTypeOK
<1>8. WorkflowsKnown'
    BY <1>0, <1>2, <1>3, <1>6, IdentityRowTypes DEF IdentityInv, WorkflowsKnown
<1> QED
    BY <1>0, <1>4, <1>5, <1>7, <1>8 DEF IdentityInv, PendingHasAttempts

LEMMA RequestsDeprovision ==
    ASSUME IdentityInv, NEW c \in Clients, request_deprovision(c) PROVE IdentityInv'
<1>a. PICK w \in Workflows :
        /\ workflow[w] = "absent"
        /\ workflow' = [workflow EXCEPT ![w] = "pending"]
        /\ scim' = [scim EXCEPT ![c].place = "enqueue", ![c].workflow = w]
    BY DEF request_deprovision
<1>0. /\ scim[c].place = "request"
      /\ user' = [active |-> Written(user.active, scim[c].copy, FALSE),
                  data |-> Written(user.data, scim[c].data, FALSE)]
      /\ UNCHANGED <<queue, member, payload, cancels, handler, hist>>
    BY DEF request_deprovision
<1>1. scim[c] \in ScimRow /\ scim[c].kind = "user"
    BY <1>0, IdentityFacts DEF IdentityInv, WorkflowsKnown, ScimRow
<1>b. PICK new : new = [scim[c] EXCEPT !.place = "enqueue", !.workflow = w]
    OBVIOUS
<1>2. /\ new \in ScimRow /\ new.kind = "user" /\ new.place = "enqueue" /\ new.workflow = w
      /\ scim' = [scim EXCEPT ![c] = new]
    BY <1>a, <1>b, <1>1, IdentityFacts DEF ScimRow
<1>3. /\ workflow' \in [Workflows -> WorkflowStatuses]
      /\ workflow'[w] = "pending"
      /\ \A v \in Workflows \ {w} : workflow'[v] = workflow[v]
    BY <1>a, IdentityFacts DEF WorkflowStatuses
<1>4. user' \in [active : BOOLEAN, data : BOOLEAN]
    BY <1>0, IdentityFacts DEF Written
<1>5. ASSUME ~hist.overlap PROVE ~user'.active /\ ~user'.data
    <2>1. scim[c].copy = user.active /\ scim[c].data = user.data
        BY <1>0, <1>1, <1>5 DEF IdentityInv, CopiesFresh
    <2> QED
        BY <2>1, <1>0, IdentityFacts DEF Written
<1>6. RequestsDeactivate'
    BY <1>0, <1>3, <1>5 DEF IdentityInv, RequestsDeactivate, Deprovisioned
<1>7. \A v \in Workflows : workflow[v] # "absent" => workflow'[v] # "absent"
    BY <1>3
<1>8. /\ queue' \in [Jobs -> QueueRow] /\ PendingHasAttempts' /\ member' \in BOOLEAN
      /\ hist' \in Flags
    BY <1>0, IdentityFacts DEF IdentityInv, PendingHasAttempts
<1> QED
    BY <1>0, <1>1, <1>2, <1>3, <1>4, <1>6, <1>7, <1>8, MovesScim

LEMMA EnqueuesDeprovision ==
    ASSUME IdentityInv, NEW c \in Clients, EnqueueDeprovision(c) PROVE IdentityInv'
<1>a. PICK j \in Jobs : Enqueue(j) /\ payload' = [payload EXCEPT ![j] = scim[c].workflow]
    BY DEF EnqueueDeprovision
<1>0. /\ scim[c].place = "enqueue" /\ scim' = [scim EXCEPT ![c] = NoClient]
      /\ UNCHANGED <<user, member, workflow, cancels, handler, hist>>
    BY DEF EnqueueDeprovision
<1>1. queue' \in [Jobs -> QueueRow] /\ PendingHasAttempts'
    BY <1>a, IdentityFacts, QueueStep DEF IdentityInv
<1>2. /\ scim[c] \in ScimRow
      /\ scim' \in [Clients -> ScimRow] /\ scim'[c] = NoClient
      /\ \A d \in Clients \ {c} : scim'[d] = scim[d]
    BY <1>0, IdentityFacts, IdentityRowTypes
<1>3. /\ payload' \in [Jobs -> Workflows \cup {0}] /\ payload'[j] = scim[c].workflow
      /\ \A i \in Jobs \ {j} : payload'[i] = payload[i]
    BY <1>a, <1>2, IdentityFacts DEF ScimRow
<1>4. IdentityTypes'
    BY <1>0, <1>1, <1>2, <1>3
       DEF IdentityInv, IdentityTypes, IdentityTypeOK, QueueTypeOK, QueueRow
<1>5. WorkflowsKnown'
    BY <1>0, <1>2, <1>3, IdentityRowTypes DEF IdentityInv, WorkflowsKnown
<1>6. CopiesFresh'
    BY <1>0, <1>2, IdentityRowTypes DEF IdentityInv, CopiesFresh, Handling
<1>7. RequestsDeactivate'
    BY <1>0 DEF IdentityInv, RequestsDeactivate, Requested, Deprovisioned
<1> QED
    BY <1>1, <1>4, <1>5, <1>6, <1>7 DEF IdentityInv

LEMMA DiesScim == ASSUME IdentityInv, NEW c \in Clients, ClientDies(c) PROVE IdentityInv'
<1>0. /\ scim[c].kind # "idle" /\ scim' = [scim EXCEPT ![c] = NoClient]
      /\ hist' = [hist EXCEPT !.crashed = TRUE]
      /\ UNCHANGED <<queue, user, member, workflow, payload, cancels, handler>>
    BY DEF ClientDies
<1>1. hist' \in Flags /\ hist'.overlap = hist.overlap /\ hist'.asked = hist.asked
    BY <1>0, IdentityFacts DEF Flags
<1>2. RequestsDeactivate'
    BY <1>0, <1>1 DEF IdentityInv, RequestsDeactivate, Requested, Deprovisioned
<1> QED
    BY <1>0, <1>1, <1>2, IdentityFacts, IdentityRowTypes, MovesScim
       DEF IdentityInv, PendingHasAttempts

\* A handler takes a step: it meets no request, or changes nothing, or the
\* meeting is on record.
LEMMA MovesHandler ==
    ASSUME IdentityInv, NEW j \in Jobs, NEW row \in HandlerRow,
           handler' = [handler EXCEPT ![j] = row], UNCHANGED <<scim, payload>>, cancels' \subseteq Jobs,
           queue' \in [Jobs -> QueueRow], PendingHasAttempts',
           workflow' \in [Workflows -> WorkflowStatuses],
           \A w \in Workflows : workflow[w] # "absent" <=> workflow'[w] # "absent",
           user' \in [active : BOOLEAN, data : BOOLEAN], member' \in BOOLEAN,
           hist' \in Flags, hist'.asked = hist.asked, ~hist'.overlap => ~hist.overlap,
           ~hist'.overlap =>
                /\ member' => member
                /\ row.place = "commit" => (member' => row.member)
                /\ \/ UNCHANGED <<user, member>> /\ row.place # "commit"
                   \/ \A c \in Clients : scim[c].kind = "idle",
           ~hist'.overlap /\ ~hist.asked =>
                /\ user.active \/ ~user'.active
                /\ user.data \/ ~user'.data
                /\ Deprovisioned' => Deprovisioned \/ ~member'
    PROVE  IdentityInv'
<1>1. /\ handler' \in [Jobs -> HandlerRow] /\ handler'[j] = row
      /\ \A i \in Jobs \ {j} : handler'[i] = handler[i]
    BY IdentityFacts
<1>2. IdentityTypes'
    BY <1>1 DEF IdentityInv, IdentityTypes, IdentityTypeOK, QueueTypeOK, QueueRow, Flags, HandlerRow
<1>3. WorkflowsKnown'
    BY IdentityFacts DEF IdentityInv, WorkflowsKnown, ScimRow
<1>4. CopiesFresh'
    <2> SUFFICES ASSUME ~hist'.overlap PROVE CopiesFresh'
        BY DEF CopiesFresh
    <2>1. CopiesFresh /\ ~hist.overlap
        BY DEF IdentityInv
    <2>2. CASE UNCHANGED <<user, member>> /\ row.place # "commit"
        <3>1. ~Handling => ~Handling'
            BY <2>2, <1>1 DEF Handling
        <3>2. \A i \in Jobs : handler'[i].place = "commit" => handler'[i] = handler[i]
            BY <2>2, <1>1
        <3> HIDE DEF Handling
        <3> QED
            BY <2>1, <2>2, <3>1, <3>2 DEF CopiesFresh
    <2>3. CASE \A c \in Clients : scim[c].kind = "idle"
        <3>1. \A i \in Jobs : handler'[i].place = "commit" => (member' => handler'[i].member)
            BY <2>1, <1>1 DEF CopiesFresh
        <3> QED
            BY <2>3, <3>1 DEF CopiesFresh
    <2> QED
        BY <2>2, <2>3
<1>5. RequestsDeactivate'
    BY IdentityFacts DEF IdentityInv, RequestsDeactivate, Requested
<1> QED
    BY <1>2, <1>3, <1>4, <1>5 DEF IdentityInv

LEMMA LoadsJob == ASSUME IdentityInv, NEW j \in Jobs, LoadDeprovision(j) PROVE IdentityInv'
<1>a. PICK row : row = [place |-> IF workflow[payload[j]] = "completed" THEN "return" ELSE "commit",
                        active |-> user.active, member |-> member]
    OBVIOUS
<1>0. /\ Claim(j) /\ handler' = [handler EXCEPT ![j] = row]
      /\ hist' = [hist EXCEPT !.overlap = hist.overlap \/ \E c \in Clients : scim[c].kind # "idle"]
      /\ UNCHANGED <<user, member, workflow, payload, cancels, scim>>
    BY <1>a DEF LoadDeprovision
<1>1. row \in HandlerRow /\ row.member = member
    BY <1>a, IdentityFacts DEF HandlerRow
<1>2. queue' \in [Jobs -> QueueRow] /\ PendingHasAttempts'
    BY <1>0, IdentityFacts, QueueStep DEF IdentityInv
<1>3. /\ hist' \in Flags /\ hist'.asked = hist.asked
      /\ ~hist'.overlap => ~hist.overlap /\ \A c \in Clients : scim[c].kind = "idle"
    BY <1>0, IdentityFacts DEF Flags
<1>4. Deprovisioned' => Deprovisioned
    BY <1>0 DEF Deprovisioned
<1> QED
    BY <1>0, <1>1, <1>2, <1>3, <1>4, IdentityFacts, MovesHandler

LEMMA ExecutesJob == ASSUME IdentityInv, NEW j \in Jobs, execute_deprovision(j) PROVE IdentityInv'
<1>a. PICK row : row = [handler[j] EXCEPT !.place = "return"]
    OBVIOUS
<1>0. /\ handler[j].place = "commit"
      /\ user' = [user EXCEPT !.active = Written(user.active, handler[j].active, FALSE)]
      /\ member' = Written(member, handler[j].member, FALSE)
      /\ workflow' = [workflow EXCEPT ![payload[j]] = "completed"]
      /\ handler' = [handler EXCEPT ![j] = row]
      /\ UNCHANGED <<queue, payload, cancels, scim, hist>>
    BY <1>a, IdentityFacts DEF execute_deprovision, Retained
<1>1. row \in HandlerRow /\ row.place = "return"
    BY <1>a, IdentityFacts DEF HandlerRow
<1>2. /\ user' \in [active : BOOLEAN, data : BOOLEAN] /\ member' \in BOOLEAN
      /\ user'.data = user.data /\ (user'.active => user.active) /\ (member' => member)
    BY <1>0, IdentityFacts DEF Written
<1>3. /\ workflow' \in [Workflows -> WorkflowStatuses]
      /\ \A w \in Workflows : workflow[w] # "absent" <=> workflow'[w] # "absent"
    <2>1. payload[j] \in Workflows => workflow[payload[j]] # "absent"
        BY IdentityFacts DEF IdentityInv, WorkflowsKnown
    <2> QED
        BY <2>1, <1>0, IdentityFacts DEF WorkflowStatuses
<1>4. ~hist.overlap => ~member' /\ \A c \in Clients : scim[c].kind = "idle"
    BY <1>0, <1>2, IdentityFacts DEF IdentityInv, CopiesFresh, Handling, Written
<1>5. PendingHasAttempts' /\ queue' \in [Jobs -> QueueRow] /\ hist' \in Flags
    BY <1>0, IdentityFacts DEF IdentityInv, PendingHasAttempts
<1> QED
    BY <1>0, <1>1, <1>2, <1>3, <1>4, <1>5, IdentityFacts, MovesHandler

LEMMA RaisesJob == ASSUME IdentityInv, NEW j \in Jobs, JobRaises(j) PROVE IdentityInv'
<1>a. PICK status \in {"failed", "pending"} :
        workflow' = [workflow EXCEPT ![payload[j]] = status]
    BY DEF JobRaises, ErrorStatus
<1>0. /\ Fail(j) \/ Cancel(j)
      /\ handler' = [handler EXCEPT ![j] = NoHandler]
      /\ UNCHANGED <<user, member, payload, cancels, scim, hist>>
    BY DEF JobRaises
<1>1. queue' \in [Jobs -> QueueRow] /\ PendingHasAttempts'
    BY <1>0, IdentityFacts, QueueStep DEF IdentityInv
<1>2. /\ workflow' \in [Workflows -> WorkflowStatuses]
      /\ \A w \in Workflows : workflow[w] # "absent" <=> workflow'[w] # "absent"
      /\ Deprovisioned' => Deprovisioned
    <2>1. payload[j] \in Workflows => workflow[payload[j]] # "absent"
        BY IdentityFacts DEF IdentityInv, WorkflowsKnown
    <2> QED
        BY <2>1, <1>a, IdentityFacts DEF WorkflowStatuses, Deprovisioned
<1> QED
    BY <1>0, <1>1, <1>2, IdentityFacts, IdentityRowTypes, MovesHandler

\* The other steps of jobs leave the resources alone.
LEMMA EndsJob ==
    ASSUME IdentityInv, NEW j \in Jobs,
           \/ JobReturns(j) \/ JobCancelled(j) \/ HandlerDies(j) \/ RecoverDeprovision(j)
           \/ CancelDeprovision(j) \/ RetryDeprovision(j)
    PROVE  IdentityInv'
<1>0. /\ UNCHANGED <<user, member, workflow, payload, scim>>
      /\ \/ Complete(j) \/ Cancel(j) \/ Retry(j) \/ Recover({j}) \/ UNCHANGED queue
      /\ cancels' = cancels \/ cancels' = cancels \cup {j} \/ cancels' = cancels \ {j}
      /\ \/ hist' = hist \/ hist' = [hist EXCEPT !.cancelled = TRUE]
         \/ hist' = [hist EXCEPT !.crashed = TRUE]
      /\ \/ handler' = [handler EXCEPT ![j] = NoHandler]
         \/ handler' = [handler EXCEPT ![j] = [NoHandler EXCEPT !.place = "dead"]]
         \/ handler' = handler
    BY DEF JobReturns, JobCancelled, HandlerDies, RecoverDeprovision, CancelDeprovision,
           RetryDeprovision
<1>1. queue' \in [Jobs -> QueueRow] /\ PendingHasAttempts'
    BY <1>0, IdentityFacts, QueueStep DEF IdentityInv, PendingHasAttempts
<1>c. cancels' \subseteq Jobs
    BY <1>0, IdentityFacts
<1>2. hist' \in Flags /\ hist'.asked = hist.asked /\ hist'.overlap = hist.overlap
    BY <1>0, IdentityFacts DEF Flags
<1>3. Deprovisioned' = Deprovisioned /\ Requested' = Requested
    BY <1>0 DEF Deprovisioned, Requested
<1>4. CASE handler' # handler
    <2>1. PICK row : /\ handler' = [handler EXCEPT ![j] = row]
                     /\ row = NoHandler \/ row = [NoHandler EXCEPT !.place = "dead"]
        BY <1>0, <1>4
    <2>2. row \in HandlerRow /\ row.place # "commit"
        <3>1. CASE row = NoHandler
            BY <3>1 DEF NoHandler, HandlerRow
        <3>2. CASE row = [NoHandler EXCEPT !.place = "dead"]
            BY <3>2 DEF NoHandler, HandlerRow
        <3> QED
            BY <2>1, <3>1, <3>2
    <2> QED
        BY <2>1, <2>2, <1>0, <1>1, <1>c, <1>2, <1>3, IdentityFacts, MovesHandler
<1>5. CASE handler' = handler
    <2>1. IdentityTypes'
        BY <1>0, <1>1, <1>c, <1>2, <1>5
           DEF IdentityInv, IdentityTypes, IdentityTypeOK, QueueTypeOK, QueueRow, Flags
    <2>2. WorkflowsKnown' /\ CopiesFresh' /\ RequestsDeactivate'
        BY <1>0, <1>2, <1>3, <1>5
           DEF IdentityInv, WorkflowsKnown, CopiesFresh, Handling, RequestsDeactivate
    <2> QED
        BY <1>1, <2>1, <2>2 DEF IdentityInv
<1> QED
    BY <1>4, <1>5

LEMMA IdentityNext == IdentityInv /\ (IdentityArrives \/ IdentityStep) => IdentityInv'
BY StartsScim, ReplaceUser, ReplaceGroup, LooksUp, RequestsDeprovision, EnqueuesDeprovision,
   DiesScim, LoadsJob, ExecutesJob, RaisesJob, EndsJob
   DEF IdentityArrives, IdentityStep, ClientStep, JobStep

LEMMA UnchangedIdentity == IdentityInv /\ UNCHANGED ivars => IdentityInv'
BY DEF ivars, IdentityInv, IdentityTypes, IdentityTypeOK, QueueTypeOK, PendingHasAttempts,
       WorkflowsKnown, CopiesFresh, Handling, RequestsDeactivate, Requested, Deprovisioned

LEMMA IdentityHolds == IdentityInv => DeprovisionSticks
BY IdentityFacts DEF IdentityInv, RequestsDeactivate, DeprovisionSticks, Deprovisioned, Requested

-----------------------------------------------------------------------------
(***************************************************************************)
(* Exceptions: each step keeps ExceptionsInv.                              *)
(***************************************************************************)
LEMMA RequestFacts ==
    ASSUME ExceptionsInv, NEW r \in Requests
    PROVE  /\ request[r].at \in {"idle", "commit", "review"}
           /\ request[r].at = "idle" => request[r].op = "none" /\ request[r] = NoRequest
           /\ request[r].at # "idle" => request[r].op \in GovernanceOps
           /\ About(request[r].op) \in ReviewSubjects
           /\ request[r].op \in {"renew", "extend"} => r \in Under("renewal")
<1>0. ExceptionTypes
    BY DEF ExceptionsInv
<1>1. request[r] = NoRequest \/ (request[r].op \in GovernanceOps /\ request[r].at # "idle")
    BY <1>0 DEF ExceptionTypes, RequestTypes
<1>2. NoRequest.at = "idle" /\ NoRequest.op = "none"
    BY DEF NoRequest
<1>3. request[r].at \in {"idle", "commit", "review"}
    BY DEF ExceptionsInv, ExceptionTypes, RequestTypes, ExceptionsTypeOK
<1>4. request[r].op \in {"renew", "extend"} => request[r].at # "idle"
    BY <1>1, <1>2
<1> QED
    BY <1>1, <1>2, <1>3, <1>4 DEF About, ReviewSubjects, GovernanceOps, Under

\* One request moves.
LEMMA UnderMoves ==
    ASSUME DOMAIN request = Requests, NEW r \in Requests, NEW row,
           request' = [request EXCEPT ![r] = row], NEW s
    PROVE  /\ row.at = "idle" \/ About(row.op) # s => Under(s)' = Under(s) \ {r}
           /\ row.at # "idle" /\ About(row.op) = s => Under(s)' = Under(s) \cup {r}
<1>1. /\ Under(s) = {q \in Requests : request[q].at # "idle" /\ About(request[q].op) = s}
      /\ Under(s)' = {q \in Requests : request'[q].at # "idle" /\ About(request'[q].op) = s}
    BY DEF Under, About
<1>2. request'[r] = row /\ \A q \in Requests \ {r} : request'[q] = request[q]
    OBVIOUS
<1> QED
    BY <1>1, <1>2

LEMMA ReviewElsewhere ==
    ASSUME DOMAIN request = Requests, NEW r \in Requests, NEW row,
           request' = [request EXCEPT ![r] = row], NEW s, ReviewKnown(s),
           request[r].at = "idle" \/ About(request[r].op) # s,
           row.at = "idle" \/ About(row.op) # s,
           s \in asked.upset => s \in asked'.upset,
           Waits(s)' = Waits(s), Listed(s)' = Listed(s)
    PROVE  ReviewKnown(s)'
<1>1. Under(s)' = Under(s) /\ r \notin Under(s)
    BY UnderMoves DEF Under
<1>2. \A q \in Under(s) : q \in Requests /\ request'[q] = request[q]
    BY <1>1 DEF Under
<1> QED
    BY <1>1, <1>2 DEF ReviewKnown

\* The review task of a subject.
LEMMA TaskOpens ==
    ASSUME tasks \in [Tasks -> Task], NEW s \in ReviewSubjects, create_review_task(s)
    PROVE  /\ tasks' \in [Tasks -> Task]
           /\ OpenFor(s)' # {}
           /\ \A x \in ReviewSubjects \ {s} : OpenFor(x)' = OpenFor(x)
<1>1. CASE OpenFor(s) # {}
    BY <1>1 DEF create_review_task, OpenFor, IsOpen
<1>2. CASE OpenFor(s) = {}
    <2>1. PICK t \in Tasks :
            /\ tasks[t].subject = "none"
            /\ tasks' = [tasks EXCEPT ![t] = [subject |-> s, status |-> "open"]]
        BY <1>2 DEF create_review_task
    <2>2. tasks' \in [Tasks -> Task]
        BY <2>1 DEF Task, TaskStatuses
    <2>3. t \in OpenFor(s)'
        BY <2>1 DEF OpenFor, IsOpen, OPEN_STATUSES
    <2>4. ASSUME NEW x \in ReviewSubjects \ {s} PROVE OpenFor(x)' = OpenFor(x)
        <3>1. x # "none"
            BY DEF ReviewSubjects
        <3> QED
            BY <3>1, <2>1 DEF OpenFor, IsOpen
    <2> QED
        BY <2>2, <2>3, <2>4
<1> QED
    BY <1>1, <1>2

LEMMA TaskCompletes ==
    ASSUME tasks \in [Tasks -> Task], NEW s \in ReviewSubjects, complete_review_task(s)
    PROVE  /\ tasks' \in [Tasks -> Task]
           /\ OpenFor(s)' = {}
           /\ \A x \in ReviewSubjects \ {s} : OpenFor(x)' = OpenFor(x)
<1>1. ASSUME NEW t \in Tasks
      PROVE  /\ tasks'[t].subject = tasks[t].subject
             /\ t \in OpenFor(s) => tasks'[t].status = "completed"
             /\ t \notin OpenFor(s) => tasks'[t] = tasks[t]
             /\ tasks'[t] \in Task
    BY DEF complete_review_task, Task, TaskStatuses
<1>2. tasks' \in [Tasks -> Task]
    BY <1>1 DEF complete_review_task
<1> QED
    BY <1>1, <1>2 DEF OpenFor, IsOpen, OPEN_STATUSES

LEMMA InitExceptions == ExceptionsInit => ExceptionsInv
<1> SUFFICES ASSUME ExceptionsInit PROVE ExceptionsInv
    OBVIOUS
<1>1. \A r \in Requests : request[r] = NoRequest
    BY DEF ExceptionsInit
<1>2. NoRequest.at = "idle" /\ NoRequest.op = "none"
    BY DEF NoRequest
<1>3. \A s \in ReviewSubjects : Under(s) = {} /\ OpenFor(s) = {} /\ ~Waits(s)
    BY <1>1, <1>2
       DEF ExceptionsInit, ReviewsInit, NoTask, Under, OpenFor, IsOpen, OPEN_STATUSES, Waits,
           NoException
<1>4. tasks \in [Tasks -> Task]
    BY DEF ExceptionsInit, ReviewsInit, NoTask, Task, TaskStatuses
<1>5. ExceptionTypes
    <2>1. ExceptionsTypeOK
        BY <1>1, <1>2, <1>4, ExceptionsAssumption
           DEF ExceptionsInit, ExceptionsTypeOK, NoException, People
    <2>2. /\ exception.until = 0 /\ exception.override = "allow" /\ exception.known = FALSE
          /\ exception.active = FALSE /\ DOMAIN exception = DOMAIN NoException
        BY DEF ExceptionsInit, NoException
    <2>3. \A r \in Requests : /\ request[r].who = Nobody /\ request[r].until = 0
                              /\ request[r].loaded.until = 0
        BY <1>1 DEF NoRequest, NoException
    <2>4. /\ DOMAIN asked = {"wants", "extended", "overlap", "upset"} /\ asked.overlap = FALSE
          /\ DOMAIN request = Requests
        BY DEF ExceptionsInit
    <2>5. 0 \in 0..MaxExpiry /\ "allow" \in Decisions /\ Nobody \in People \cup {Nobody}
        BY ExceptionsAssumption DEF Decisions
    <2>6. \A r \in Requests :
            /\ request[r].who \in People \cup {Nobody}
            /\ request[r].until \in 0..MaxExpiry /\ request[r].loaded.until \in 0..MaxExpiry
        BY <2>3, <2>5
    <2> QED
        BY <1>1, <2>1, <2>2, <2>4, <2>5, <2>6 DEF ExceptionTypes, RequestTypes
<1>6. ExceptionKnown /\ RenewalKnown /\ ExtendedByAnother
    BY <1>1, <1>2, <1>3
       DEF ExceptionsInit, NoException, ExceptionKnown, RenewalKnown, ExtendedByAnother,
           ReviewSubjects
<1>7. \A s \in ReviewSubjects : ReviewKnown(s)
    BY <1>3 DEF ReviewKnown, Listed
<1> QED
    BY <1>5, <1>6, <1>7 DEF ExceptionsInv

\* The clock, the administrator's rows and delegations.
LEMMA ExceptionMoves ==
    ASSUME ExceptionsInv, UNCHANGED <<bundle, request, tasks, asked>>, clock' \in 0..MaxInstant,
           /\ exception'.expires \in 0..MaxExpiry /\ exception'.override \in Decisions
           /\ exception'.known \in BOOLEAN /\ exception'.active \in BOOLEAN
           /\ DOMAIN exception' = DOMAIN NoException,
           ~exception'.known => ~exception'.active,
           exception'.status = exception.status,
           \/ UNCHANGED <<exception.known, exception.until, exception.by>>
           \/ /\ ~exception.known /\ exception'.known
              /\ exception'.until = 0 /\ exception'.by = Nobody
    PROVE  ExceptionsInv'
<1>1. ExceptionTypes'
    <2>1. exception'.until \in 0..MaxExpiry /\ exception'.by \in People \cup {Nobody}
        BY ExceptionsAssumption DEF ExceptionsInv, ExceptionTypes, RequestTypes, ExceptionsTypeOK
    <2> QED
        BY <2>1 DEF ExceptionsInv, ExceptionTypes, RequestTypes, ExceptionsTypeOK
<1>2. \A s \in ReviewSubjects : /\ Under(s)' = Under(s) /\ OpenFor(s)' = OpenFor(s)
                                /\ Waits(s)' = Waits(s) /\ Listed(s)' = Listed(s)
    BY DEF Under, OpenFor, IsOpen, Waits, Listed
<1>3. \A s \in ReviewSubjects : ReviewKnown(s)'
    BY <1>2 DEF ExceptionsInv, ReviewKnown
<1>4. ExceptionKnown' /\ ExtendedByAnother'
    BY <1>2 DEF ExceptionsInv, ExceptionKnown, ExtendedByAnother, ReviewSubjects
<1>5. RenewalKnown'
    <2>1. CASE UNCHANGED <<exception.known, exception.until, exception.by>>
        BY <2>1 DEF ExceptionsInv, RenewalKnown, Asking
    <2>2. CASE ~exception.known
        <3>1. exception'.status # "pending"
            BY <2>2 DEF ExceptionsInv, ExceptionKnown
        <3>2. \A r \in Requests : request[r].op \notin {"renew", "extend"}
            BY <2>2, RequestFacts DEF ExceptionsInv, ExceptionKnown
        <3> QED
            BY <3>1, <3>2 DEF ExceptionsInv, RenewalKnown, Asking
    <2> QED
        BY <2>1, <2>2
<1> QED
    BY <1>1, <1>3, <1>4, <1>5 DEF ExceptionsInv

LEMMA ExceptionRows ==
    ASSUME ExceptionsInv
    PROVE  /\ clock \in 0..MaxInstant
           /\ exception.expires \in 0..MaxExpiry /\ exception.override \in Decisions
           /\ exception.known \in BOOLEAN /\ exception.active \in BOOLEAN
           /\ DOMAIN exception = DOMAIN NoException
           /\ ~exception.known => ~exception.active
BY DEF ExceptionsInv, ExceptionTypes, ExceptionsTypeOK, ExceptionKnown

LEMMA AdministersExceptions ==
    ASSUME ExceptionsInv,
           \/ ExceptionArrives \/ ExceptionStep
           \/ \E o \in Owners : \/ revoke_policy_approver_delegation(o)
                                \/ \E grant \in Grants : create_delegation(o, grant)
    PROVE  ExceptionsInv'
<1>1. CASE UNCHANGED exception /\ clock' \in 0..MaxInstant
           /\ UNCHANGED <<bundle, request, tasks, asked>>
    BY <1>1, ExceptionRows, ExceptionMoves
<1>2. CASE Instant
    <2>1. clock' \in 0..MaxInstant
        BY <1>2, ExceptionRows, ExceptionsAssumption DEF Instant
    <2> QED
        BY <1>1, <1>2, <2>1 DEF Instant
<1>3. CASE \E o \in Owners : \/ revoke_policy_approver_delegation(o)
                             \/ \E grant \in Grants : create_delegation(o, grant)
    BY <1>1, <1>3, ExceptionRows DEF revoke_policy_approver_delegation, create_delegation
<1>4. ASSUME NEW new \in NewExceptions, create_policy_exception(new) PROVE ExceptionsInv'
    <2>1. exception' = [NoException EXCEPT !.known = TRUE, !.active = TRUE,
                        !.expires = new.expires, !.policy = new.policy,
                        !.agent = new.agent, !.override = new.override]
        BY <1>4 DEF create_policy_exception
    <2>2. /\ exception'.known = TRUE /\ exception'.active = TRUE
          /\ exception'.expires = new.expires /\ exception'.override = new.override
          /\ exception'.status = "none" /\ exception'.until = 0 /\ exception'.by = Nobody
          /\ DOMAIN exception' = DOMAIN NoException
        BY <2>1 DEF NoException
    <2>3. /\ ~exception.known /\ exception.status = "none" /\ clock' = clock
          /\ UNCHANGED <<bundle, request, tasks, asked>>
        BY <1>4 DEF create_policy_exception, ExceptionsInv, ExceptionKnown
    <2>4. new.expires \in 0..MaxExpiry /\ new.override \in Decisions
        BY ExceptionsAssumption DEF Expiries
    <2> QED
        BY <2>2, <2>3, <2>4, ExceptionRows, ExceptionMoves
<1>5. CASE revoke_policy_exception
    <2>1. exception' = [exception EXCEPT !.active = FALSE] /\ clock' = clock
          /\ UNCHANGED <<bundle, request, tasks, asked>>
        BY <1>5 DEF revoke_policy_exception
    <2>2. /\ exception'.active = FALSE /\ exception'.known = exception.known
          /\ exception'.expires = exception.expires /\ exception'.override = exception.override
          /\ exception'.status = exception.status /\ exception'.until = exception.until
          /\ exception'.by = exception.by /\ DOMAIN exception' = DOMAIN exception
        BY <2>1, ExceptionRows DEF NoException
    <2> QED
        BY <2>1, <2>2, ExceptionRows, ExceptionMoves
<1> QED
    BY <1>2, <1>3, <1>4, <1>5 DEF ExceptionArrives, ExceptionStep

-----------------------------------------------------------------------------
(***************************************************************************)
(* The requests of governance.                                             *)
(***************************************************************************)
LEMMA BeginsRequest ==
    ASSUME ExceptionsInv, NEW op \in GovernanceOps, NEW p \in People,
           NEW until \in IF op = "renew" THEN Expiries ELSE {0}, BeginRequest(op, p, until)
    PROVE  ExceptionsInv'
<1>1. PICK r \in Idle : r = Min(Idle)
    <2>1. Idle # {} /\ Idle \subseteq Nat
        BY ExceptionsAssumption DEF BeginRequest, Idle
    <2>2. \E x \in Idle : \A y \in Idle : x <= y
        BY <2>1, Least
    <2> QED
        BY <2>2 DEF Min
<1>2. PICK loaded : /\ loaded = IF About(op) = "renewal" THEN exception ELSE NoException
    OBVIOUS
<1>3. PICK row : row = [op |-> op, at |-> "commit", who |-> p, until |-> until, loaded |-> loaded]
    OBVIOUS
<1>4. /\ request' = [request EXCEPT ![r] = row]
      /\ Accepted(op, p, until)
      /\ asked' = [asked EXCEPT
            !.overlap = @ \/ (op = "renew" /\ Under("renewal") # {}),
            !.upset = IF Under(About(op)) = {} THEN @ ELSE @ \cup {About(op)}]
      /\ UNCHANGED <<clock, exception, bundle, delegation, tasks>>
    BY <1>1, <1>2, <1>3 DEF BeginRequest
<1>5. /\ r \in Requests /\ request[r].at = "idle" /\ request[r].op = "none"
      /\ row.op = op /\ row.at = "commit" /\ row.who = p /\ row.until = until
      /\ row.loaded = loaded /\ About(op) \in ReviewSubjects
    BY <1>1, <1>3, RequestFacts DEF Idle, About, ReviewSubjects
<1>6. /\ asked'.overlap = (asked.overlap \/ (op = "renew" /\ Under("renewal") # {}))
      /\ asked'.upset = IF Under(About(op)) = {} THEN asked.upset
                                                 ELSE asked.upset \cup {About(op)}
      /\ asked'.wants = asked.wants /\ asked'.extended = asked.extended
      /\ DOMAIN asked' = DOMAIN asked
    BY <1>4 DEF ExceptionsInv, ExceptionTypes
<1>7. /\ op = "renew" => InForce /\ exception.status # "pending"
      /\ op = "extend" => exception.by # p /\ exception.status = "pending"
      /\ op = "submit" => bundle = "draft"
      /\ op = "approve" => bundle = "pending"
    <2>1. op = "renew" => Renewable(until)
        BY <1>4 DEF Accepted
    <2>2. op = "extend" => Extendable(p)
        BY <1>4 DEF Accepted
    <2>3. /\ op = "submit" => bundle = "draft"
          /\ op = "approve" => bundle = "pending"
        BY <1>4 DEF Accepted
    <2> QED
        BY <2>1, <2>2, <2>3 DEF Renewable, Extendable
<1>8. DOMAIN request = Requests
    BY DEF ExceptionsInv, ExceptionTypes, RequestTypes
<1>9. /\ \A q \in Requests \ {r} : request'[q] = request[q]
      /\ request'[r] = row
    BY <1>4, <1>5, <1>8
<1>10. ExceptionTypes'
    <2>1. row.until \in 0..MaxExpiry /\ row.loaded.until \in 0..MaxExpiry
        BY <1>2, <1>5, ExceptionsAssumption DEF Expiries, NoException, ExceptionsInv, ExceptionTypes, RequestTypes
    <2>2. DOMAIN row = DOMAIN NoRequest
        BY <1>3 DEF NoRequest
    <2>3. ExceptionsTypeOK'
        BY <1>4, <1>5, <1>9 DEF ExceptionsInv, ExceptionTypes, RequestTypes, ExceptionsTypeOK
    <2>4. DOMAIN request' = Requests
        BY <1>4, <1>8
    <2>5. asked'.overlap \in BOOLEAN /\ DOMAIN asked' = {"wants", "extended", "overlap", "upset"}
        BY <1>6 DEF ExceptionsInv, ExceptionTypes
    <2> QED
        BY <2>1, <2>2, <2>3, <2>4, <2>5, <1>4, <1>5, <1>9 DEF ExceptionsInv, ExceptionTypes, RequestTypes
<1>11. ExceptionKnown'
    <2>1. CASE About(op) = "renewal"
        <3>1. exception.known
            BY <2>1, <1>7 DEF About, GovernanceOps, InForce, ExceptionsInv, ExceptionKnown
        <3> QED
            BY <3>1, <1>4
               DEF ExceptionKnown
    <2>2. CASE About(op) # "renewal"
        <3>1. PICK s : s = "renewal"
            OBVIOUS
        <3>2. About(row.op) # s
            BY <3>1, <2>2, <1>5
        <3>3. Under(s)' = Under(s) \ {r}
            BY <3>2, <1>5, <1>9 DEF Under
        <3> QED
            BY <3>1, <3>3, <1>4 DEF ExceptionsInv, ExceptionKnown
    <2> QED
        BY <2>1, <2>2
<1>12. RenewalKnown'
    <2>1. SUFFICES ASSUME ~asked'.overlap PROVE RenewalKnown'
        BY DEF RenewalKnown
    <2>2. /\ ~asked.overlap
          /\ op = "renew" => Under("renewal") = {}
        BY <2>1, <1>6 DEF ExceptionsInv, ExceptionTypes
    <2>3. \A q \in Requests \ {r} : op = "renew" => request'[q].op # "renew"
        BY <2>2, <1>9, RequestFacts
    <2>4. op \in {"renew", "extend"} => loaded = exception
        BY <1>2 DEF About
    <2> QED
        BY <2>2, <2>3, <2>4, <1>4, <1>5, <1>6, <1>7, <1>9
           DEF ExceptionsInv, RenewalKnown, Asking
<1>13. ExtendedByAnother'
    BY <1>6 DEF ExceptionsInv, ExceptionTypes, ExtendedByAnother
<1>14. ASSUME NEW s \in ReviewSubjects PROVE ReviewKnown(s)'
    <2>1. Waits(s)' = Waits(s) /\ Listed(s)' = Listed(s) /\ ReviewKnown(s)
        BY <1>4 DEF Waits, Listed, OpenFor, IsOpen, ExceptionsInv
    <2>2. CASE s # About(op)
        <3>1. About(row.op) # s
            BY <2>2, <1>5
        <3>2. s \in asked.upset => s \in asked'.upset
            BY <1>6
        <3> QED
            BY <2>1, <3>1, <3>2, <1>4, <1>5, <1>8, ReviewElsewhere
    <2>3. CASE s = About(op)
        <3>1. SUFFICES ASSUME s \notin asked'.upset PROVE ReviewKnown(s)'
            BY DEF ReviewKnown
        <3>2. Under(s) = {} /\ s \notin asked.upset
            BY <3>1, <2>3, <1>6
        <3>3. Under(s)' = {r}
            <4>1. request' = [request EXCEPT ![r] = row]
                BY <1>4
            <4>2. row.at # "idle" /\ About(row.op) = s
                BY <2>3, <1>5
            <4>3. Under(s)' = Under(s) \cup {r}
                BY <4>1, <4>2, <1>5, <1>8, UnderMoves
            <4> QED
                BY <3>2, <4>3
        <3>4. Listed(s)'
            BY <3>2, <2>1 DEF ReviewKnown
        <3>5. Opens(op) <=> ~Waits(s)
            BY <1>7, <2>3 DEF Opens, Waits, About, GovernanceOps
        <3> QED
            BY <3>3, <3>4, <3>5, <2>1, <1>5, <1>9 DEF ReviewKnown
    <2> QED
        BY <2>2, <2>3
<1> QED
    BY <1>10, <1>11, <1>12, <1>13, <1>14 DEF ExceptionsInv

\* What a commit leaves to be shown, whatever it writes.
LEMMA CommitMoves ==
    ASSUME ExceptionsInv, NEW r \in Requests, request[r].at = "commit",
           request' = [request EXCEPT ![r].at = "review"],
           UNCHANGED <<clock, delegation, tasks>>,
           asked'.upset = asked.upset,
           \A s \in ReviewSubjects :
                Waits(s)' = IF s = About(request[r].op) THEN Opens(request[r].op) ELSE Waits(s)
    PROVE  /\ \A q \in Requests : request'[q].op = request[q].op
           /\ \A q \in Requests : request'[q].at = IF q = r THEN "review" ELSE request[q].at
           /\ \A q \in Requests : request'[q].loaded = request[q].loaded
           /\ \A q \in Requests : request'[q].who = request[q].who
           /\ \A q \in Requests : request'[q].until = request[q].until
           /\ \A q \in Requests : DOMAIN request'[q] = DOMAIN NoRequest
           /\ \A q \in Requests : request'[q] = NoRequest \/ request'[q].at # "idle"
           /\ DOMAIN request' = Requests
           /\ \A s \in ReviewSubjects : Under(s)' = Under(s) /\ ReviewKnown(s)'
           /\ RequestTypes'
<1>0. PICK row : row = [request[r] EXCEPT !.at = "review"]
    OBVIOUS
<1>1. DOMAIN request = Requests /\ DOMAIN request[r] = DOMAIN NoRequest
    BY DEF ExceptionsInv, ExceptionTypes, RequestTypes
<1>2. /\ request' = [request EXCEPT ![r] = row]
      /\ row.at = "review" /\ row.op = request[r].op /\ row.loaded = request[r].loaded
      /\ row.who = request[r].who /\ row.until = request[r].until
      /\ DOMAIN row = DOMAIN NoRequest
    BY <1>0, <1>1 DEF NoRequest
<1>3. request'[r] = row /\ \A q \in Requests \ {r} : request'[q] = request[q]
    BY <1>1, <1>2
<1>4. ASSUME NEW s \in ReviewSubjects PROVE Under(s)' = Under(s) /\ ReviewKnown(s)'
    <2>1. Under(s)' = Under(s)
        BY <1>1, <1>2, UnderMoves DEF Under
    <2>2. ReviewKnown(s)
        BY DEF ExceptionsInv
    <2>3. CASE s # About(request[r].op)
        <3>1. Waits(s)' = Waits(s) /\ Listed(s)' = Listed(s)
            BY <2>3 DEF Listed, OpenFor, IsOpen
        <3>2. r \notin Under(s)
            BY <2>3 DEF Under
        <3>3. \A q \in Under(s) : q \in Requests /\ request'[q] = request[q]
            BY <3>2, <1>3 DEF Under
        <3> QED
            BY <2>1, <2>2, <3>1, <3>3 DEF ReviewKnown
    <2>4. CASE s = About(request[r].op)
        <3>1. r \in Under(s)
            BY <2>4 DEF Under
        <3> QED
            BY <2>1, <2>2, <2>4, <3>1, <1>2, <1>3 DEF ReviewKnown
    <2> QED
        BY <2>1, <2>3, <2>4
<1>5. /\ \A q \in Requests : request'[q].op = request[q].op
      /\ \A q \in Requests : request'[q].at = IF q = r THEN "review" ELSE request[q].at
      /\ \A q \in Requests : request'[q].loaded = request[q].loaded
      /\ \A q \in Requests : request'[q].who = request[q].who
      /\ \A q \in Requests : request'[q].until = request[q].until
      /\ DOMAIN request' = Requests
    BY <1>1, <1>2, <1>3
<1>6. RequestTypes
    BY DEF ExceptionsInv, ExceptionTypes, RequestTypes
<1>7. ASSUME NEW q \in Requests
      PROVE  /\ \/ request'[q] = NoRequest
                \/ request'[q].op \in GovernanceOps /\ request'[q].at # "idle"
             /\ DOMAIN request'[q] = DOMAIN NoRequest
    <2>1. request[r].op \in GovernanceOps
        BY RequestFacts
    <2> QED
        BY <2>1, <1>1, <1>2, <1>3, <1>6 DEF RequestTypes
<1>8. RequestTypes'
    BY <1>5, <1>6, <1>7 DEF RequestTypes
<1> QED
    BY <1>4, <1>5, <1>7, <1>8

LEMMA CommitsRenewal ==
    ASSUME ExceptionsInv, NEW r \in Requests, CommitRequest(r), request[r].op = "renew"
    PROVE  ExceptionsInv'
<1> DEFINE q == request[r]
<1>1. /\ q.at = "commit" /\ request' = [request EXCEPT ![r].at = "review"]
      /\ UNCHANGED <<clock, delegation, tasks>>
      /\ request_exception_renewal(q)
    BY DEF CommitRequest
<1>2. /\ exception'.status = "pending"
      /\ exception'.until = WrittenColumn(exception.until, q.loaded.until, q.until)
      /\ exception'.by = WrittenColumn(exception.by, q.loaded.by, q.who)
      /\ exception'.known = exception.known /\ exception'.active = exception.active
      /\ exception'.expires = exception.expires /\ exception'.override = exception.override
      /\ DOMAIN exception' = DOMAIN NoException /\ bundle' = bundle
    BY <1>1, ExceptionRows DEF request_exception_renewal, NoException
<1>3. /\ asked'.wants = asked.wants \cup {<<q.who, q.until>>}
      /\ asked'.extended = asked.extended /\ asked'.overlap = asked.overlap
      /\ asked'.upset = asked.upset /\ DOMAIN asked' = DOMAIN asked
    BY <1>1 DEF request_exception_renewal, ExceptionsInv, ExceptionTypes
<1>4. \A s \in ReviewSubjects :
        Waits(s)' = IF s = About(request[r].op) THEN Opens(request[r].op) ELSE Waits(s)
    BY <1>2 DEF Waits, About, Opens, ReviewSubjects
<1>5. /\ \A x \in Requests : request'[x].op = request[x].op
      /\ \A x \in Requests : request'[x].at = IF x = r THEN "review" ELSE request[x].at
      /\ \A x \in Requests : request'[x].loaded = request[x].loaded
      /\ \A x \in Requests : request'[x].who = request[x].who
      /\ \A x \in Requests : request'[x].until = request[x].until
      /\ \A x \in Requests : DOMAIN request'[x] = DOMAIN NoRequest
      /\ \A x \in Requests : request'[x] = NoRequest \/ request'[x].at # "idle"
      /\ DOMAIN request' = Requests
      /\ \A s \in ReviewSubjects : Under(s)' = Under(s) /\ ReviewKnown(s)'
      /\ RequestTypes'
    BY <1>1, <1>3, <1>4, CommitMoves
<1>6. ExceptionTypes'
    <2>1. exception'.until \in 0..MaxExpiry /\ exception'.by \in People \cup {Nobody}
        BY <1>2 DEF WrittenColumn, ExceptionsInv, ExceptionTypes, RequestTypes, ExceptionsTypeOK
    <2>2. ExceptionsTypeOK'
        BY <2>1, <1>1, <1>2, <1>5 DEF ExceptionsInv, ExceptionTypes, RequestTypes, ExceptionsTypeOK
    <2> QED
        BY <2>1, <2>2, <1>2, <1>3, <1>5 DEF ExceptionsInv, ExceptionTypes
<1>7. exception.known
    BY RequestFacts DEF ExceptionsInv, ExceptionKnown
<1>8. ExceptionKnown' /\ ExtendedByAnother'
    BY <1>2, <1>3, <1>7 DEF ExceptionKnown, ExceptionsInv, ExtendedByAnother
<1>9. RenewalKnown'
    <2>1. SUFFICES ASSUME ~asked.overlap PROVE RenewalKnown'
        BY <1>3 DEF RenewalKnown
    <2>2. /\ q.loaded.until = exception.until /\ q.loaded.by = exception.by
          /\ \A x \in Requests : request[x].op = "renew" => x = r
        BY <2>1, <1>1 DEF ExceptionsInv, RenewalKnown
    <2>3. exception'.until = q.until /\ exception'.by = q.who
        BY <2>2, <1>2 DEF WrittenColumn
    <2> QED
        BY <2>1, <2>2, <2>3, <1>3, <1>5 DEF ExceptionsInv, RenewalKnown, Asking
<1> QED
    BY <1>5, <1>6, <1>8, <1>9 DEF ExceptionsInv

LEMMA CommitsExtension ==
    ASSUME ExceptionsInv, NEW r \in Requests, CommitRequest(r), request[r].op = "extend"
    PROVE  ExceptionsInv'
<1> DEFINE q == request[r]
<1>1. /\ q.at = "commit" /\ request' = [request EXCEPT ![r].at = "review"]
      /\ UNCHANGED <<clock, delegation, tasks>>
      /\ approve_exception_renewal(q)
    BY DEF CommitRequest
<1>2. /\ exception'.status = "approved" /\ exception'.expires = q.loaded.until
      /\ exception'.until = exception.until /\ exception'.by = exception.by
      /\ exception'.known = exception.known /\ exception'.active = exception.active
      /\ exception'.override = exception.override
      /\ DOMAIN exception' = DOMAIN NoException /\ bundle' = bundle
    BY <1>1, ExceptionRows DEF approve_exception_renewal, Extend, NoException
<1>3. /\ asked'.extended = asked.extended \cup {<<q.who, q.loaded.until>>}
      /\ asked'.wants = asked.wants /\ asked'.overlap = asked.overlap
      /\ asked'.upset = asked.upset /\ DOMAIN asked' = DOMAIN asked
    BY <1>1 DEF approve_exception_renewal, ExceptionsInv, ExceptionTypes
<1>4. \A s \in ReviewSubjects :
        Waits(s)' = IF s = About(request[r].op) THEN Opens(request[r].op) ELSE Waits(s)
    BY <1>2 DEF Waits, About, Opens, ReviewSubjects
<1>5. /\ \A x \in Requests : request'[x].op = request[x].op
      /\ \A x \in Requests : request'[x].at = IF x = r THEN "review" ELSE request[x].at
      /\ \A x \in Requests : request'[x].loaded = request[x].loaded
      /\ \A x \in Requests : request'[x].who = request[x].who
      /\ \A x \in Requests : request'[x].until = request[x].until
      /\ \A x \in Requests : DOMAIN request'[x] = DOMAIN NoRequest
      /\ \A x \in Requests : request'[x] = NoRequest \/ request'[x].at # "idle"
      /\ DOMAIN request' = Requests
      /\ \A s \in ReviewSubjects : Under(s)' = Under(s) /\ ReviewKnown(s)'
      /\ RequestTypes'
    BY <1>1, <1>3, <1>4, CommitMoves
<1>6. ExceptionTypes'
    <2>1. exception'.expires \in 0..MaxExpiry /\ exception'.by \in People \cup {Nobody}
        BY <1>2 DEF ExceptionsInv, ExceptionTypes, RequestTypes, ExceptionsTypeOK
    <2>2. ExceptionsTypeOK'
        BY <2>1, <1>1, <1>2, <1>5 DEF ExceptionsInv, ExceptionTypes, RequestTypes, ExceptionsTypeOK
    <2> QED
        BY <2>1, <2>2, <1>2, <1>3, <1>5 DEF ExceptionsInv, ExceptionTypes
<1>7. exception.known
    BY RequestFacts DEF ExceptionsInv, ExceptionKnown
<1>8. ExceptionKnown'
    BY <1>2, <1>7 DEF ExceptionKnown, ExceptionsInv
<1>9. ExtendedByAnother'
    <2>1. SUFFICES ASSUME ~asked.overlap PROVE ExtendedByAnother'
        BY <1>3 DEF ExtendedByAnother
    <2>2. q.loaded.by # q.who /\ <<q.loaded.by, q.loaded.until>> \in asked.wants
        BY <2>1, <1>1 DEF ExceptionsInv, RenewalKnown, Asking
    <2>3. PICK w, x : /\ w = <<q.loaded.by, q.loaded.until>>
                      /\ x = <<q.who, q.loaded.until>>
        OBVIOUS
    <2>4. w \in asked.wants /\ w[2] = x[2] /\ w[1] # x[1]
        BY <2>2, <2>3
    <2> QED
        BY <2>1, <2>3, <2>4, <1>3 DEF ExceptionsInv, ExtendedByAnother
<1>10. RenewalKnown'
    BY <1>1, <1>2, <1>3, <1>5 DEF ExceptionsInv, RenewalKnown, Asking
<1> QED
    BY <1>5, <1>6, <1>8, <1>9, <1>10 DEF ExceptionsInv

LEMMA CommitsBundle ==
    ASSUME ExceptionsInv, NEW r \in Requests, CommitRequest(r),
           request[r].op \in {"submit", "approve"}
    PROVE  ExceptionsInv'
<1> DEFINE q == request[r]
<1>1. /\ q.at = "commit" /\ request' = [request EXCEPT ![r].at = "review"]
      /\ UNCHANGED <<clock, delegation, tasks>>
      /\ bundle' = IF q.op = "submit" THEN "pending" ELSE "approved"
      /\ UNCHANGED <<exception, asked>>
    BY DEF CommitRequest, ReviewBundle
<1>2. \A s \in ReviewSubjects :
        Waits(s)' = IF s = About(request[r].op) THEN Opens(request[r].op) ELSE Waits(s)
    BY <1>1 DEF Waits, About, Opens, ReviewSubjects
<1>3. /\ \A x \in Requests : request'[x].op = request[x].op
      /\ \A x \in Requests : request'[x].at = IF x = r THEN "review" ELSE request[x].at
      /\ \A x \in Requests : request'[x].loaded = request[x].loaded
      /\ \A x \in Requests : request'[x].who = request[x].who
      /\ \A x \in Requests : request'[x].until = request[x].until
      /\ \A x \in Requests : DOMAIN request'[x] = DOMAIN NoRequest
      /\ \A x \in Requests : request'[x] = NoRequest \/ request'[x].at # "idle"
      /\ DOMAIN request' = Requests
      /\ \A s \in ReviewSubjects : Under(s)' = Under(s) /\ ReviewKnown(s)'
      /\ RequestTypes'
    BY <1>1, <1>2, CommitMoves
<1>4. ExceptionTypes'
    <2>1. ExceptionsTypeOK'
        BY <1>1, <1>3 DEF ExceptionsInv, ExceptionTypes, RequestTypes, ExceptionsTypeOK
    <2> QED
        BY <2>1, <1>1, <1>3 DEF ExceptionsInv, ExceptionTypes
<1>5. ExceptionKnown' /\ ExtendedByAnother'
    BY <1>1, <1>3 DEF ExceptionsInv, ExceptionKnown, ExtendedByAnother, ReviewSubjects
<1>6. RenewalKnown'
    BY <1>1, <1>3 DEF ExceptionsInv, RenewalKnown, Asking
<1> QED
    BY <1>3, <1>4, <1>5, <1>6 DEF ExceptionsInv

\* A request that ends: the tasks tell what waits, or its subject is upset.
LEMMA RequestEnds ==
    ASSUME ExceptionsInv, NEW r \in Requests, request[r].at # "idle",
           NEW s, s = About(request[r].op),
           request' = [request EXCEPT ![r] = NoRequest],
           UNCHANGED <<clock, exception, bundle, delegation>>,
           tasks' \in [Tasks -> Task],
           /\ asked'.wants = asked.wants /\ asked'.extended = asked.extended
           /\ asked'.overlap = asked.overlap /\ DOMAIN asked' = DOMAIN asked
           /\ asked.upset \subseteq asked'.upset,
           \A x \in ReviewSubjects \ {s} : OpenFor(x)' = OpenFor(x),
           \/ s \in asked'.upset
           \/ request[r].at = "review" /\ (OpenFor(s)' # {} <=> Opens(request[r].op))
    PROVE  ExceptionsInv'
<1>1. /\ DOMAIN request = Requests /\ s \in ReviewSubjects
      /\ NoRequest.at = "idle" /\ NoRequest.op = "none"
      /\ NoRequest.until = 0 /\ NoRequest.loaded.until = 0 /\ NoRequest.who = Nobody
    BY RequestFacts DEF ExceptionsInv, ExceptionTypes, RequestTypes, NoRequest, NoException
<1>2. /\ request'[r] = NoRequest /\ DOMAIN request' = Requests
      /\ \A q \in Requests \ {r} : request'[q] = request[q]
    BY <1>1
<1>3. ExceptionTypes'
    <2>1. ExceptionsTypeOK'
        BY <1>1, <1>2 DEF ExceptionsInv, ExceptionTypes, RequestTypes, ExceptionsTypeOK
    <2> QED
        BY <2>1, <1>1, <1>2, ExceptionsAssumption DEF ExceptionsInv, ExceptionTypes, RequestTypes
<1>4. ASSUME NEW x \in ReviewSubjects PROVE Under(x)' = Under(x) \ {r}
    BY <1>1, <1>2 DEF Under
<1>5. ExceptionKnown'
    BY <1>4 DEF ExceptionsInv, ExceptionKnown, ReviewSubjects
<1>6. ExtendedByAnother'
    BY DEF ExceptionsInv, ExtendedByAnother
<1>7. RenewalKnown'
    BY <1>1, <1>2 DEF ExceptionsInv, RenewalKnown, Asking
<1>8. ASSUME NEW x \in ReviewSubjects PROVE ReviewKnown(x)'
    <2>1. Waits(x)' = Waits(x) /\ ReviewKnown(x)
        BY DEF Waits, ExceptionsInv
    <2>2. CASE x # s
        <3>1. Listed(x)' = Listed(x)
            BY <2>1, <2>2 DEF Listed
        <3>2. x \in asked.upset => x \in asked'.upset
            OBVIOUS
        <3> QED
            BY <2>1, <2>2, <3>1, <3>2, <1>1, ReviewElsewhere
    <2>3. CASE x = s
        <3>1. SUFFICES ASSUME s \notin asked'.upset PROVE ReviewKnown(s)'
            BY <2>3 DEF ReviewKnown
        <3>2. r \in Under(s)
            BY DEF Under
        <3>3. Under(s)' = {}
            <4>1. \A q \in Under(s) : q = r
                BY <3>1, <3>2, <2>1, <2>3 DEF ReviewKnown
            <4> QED
                BY <4>1, <1>1, <1>4
        <3>4. Opens(request[r].op) <=> Waits(s)
            BY <3>1, <3>2, <2>1, <2>3 DEF ReviewKnown
        <3>5. Listed(s)'
            BY <3>1, <3>4, <2>1, <2>3 DEF Listed
        <3> QED
            BY <3>3, <3>5 DEF ReviewKnown
    <2> QED
        BY <2>2, <2>3
<1> QED
    BY <1>3, <1>5, <1>6, <1>7, <1>8 DEF ExceptionsInv

LEMMA Reviews ==
    ASSUME ExceptionsInv, NEW r \in Requests, ReviewRequest(r)
    PROVE  ExceptionsInv'
<1>0. PICK s : s = About(request[r].op)
    OBVIOUS
<1>1. /\ request[r].at = "review" /\ request' = [request EXCEPT ![r] = NoRequest]
      /\ UNCHANGED <<clock, exception, bundle, delegation, asked>>
      /\ IF Opens(request[r].op) THEN create_review_task(s) ELSE complete_review_task(s)
    BY <1>0 DEF ReviewRequest
<1>2. s \in ReviewSubjects /\ tasks \in [Tasks -> Task]
    BY <1>0, RequestFacts DEF ExceptionsInv, ExceptionTypes, ExceptionsTypeOK
<1>3. /\ tasks' \in [Tasks -> Task]
      /\ \A x \in ReviewSubjects \ {s} : OpenFor(x)' = OpenFor(x)
      /\ (OpenFor(s)' # {} <=> Opens(request[r].op))
    <2>1. CASE Opens(request[r].op)
        BY <2>1, <1>1, <1>2, TaskOpens
    <2>2. CASE ~Opens(request[r].op)
        BY <2>2, <1>1, <1>2, TaskCompletes
    <2> QED
        BY <2>1, <2>2
<1> QED
    BY <1>0, <1>1, <1>3, RequestEnds

LEMMA DiesRequest ==
    ASSUME ExceptionsInv, NEW r \in Requests, RequestDies(r)
    PROVE  ExceptionsInv'
<1>0. PICK s : s = About(request[r].op)
    OBVIOUS
<1>1. /\ request[r].at # "idle" /\ request' = [request EXCEPT ![r] = NoRequest]
      /\ UNCHANGED <<clock, exception, bundle, delegation, tasks>>
      /\ asked' = [asked EXCEPT !.upset = @ \cup {s}]
    BY <1>0 DEF RequestDies
<1>2. /\ asked'.wants = asked.wants /\ asked'.extended = asked.extended
      /\ asked'.overlap = asked.overlap /\ DOMAIN asked' = DOMAIN asked
      /\ asked'.upset = asked.upset \cup {s}
    BY <1>1 DEF ExceptionsInv, ExceptionTypes
<1>3. tasks' \in [Tasks -> Task]
    BY <1>1 DEF ExceptionsInv, ExceptionTypes, ExceptionsTypeOK
<1>4. \A x \in ReviewSubjects : OpenFor(x)' = OpenFor(x)
    BY <1>1 DEF OpenFor, IsOpen
<1> QED
    BY <1>0, <1>1, <1>2, <1>3, <1>4, RequestEnds

LEMMA ExceptionsNext ==
    ExceptionsInv /\ (ExceptionArrives \/ ExceptionStep \/ GovernanceArrives \/ GovernanceStep)
        => ExceptionsInv'
<1> SUFFICES ASSUME ExceptionsInv,
                    ExceptionArrives \/ ExceptionStep \/ GovernanceArrives \/ GovernanceStep
             PROVE  ExceptionsInv'
    OBVIOUS
<1>1. ASSUME NEW r \in Requests, CommitRequest(r) PROVE ExceptionsInv'
    <2>1. request[r].at = "commit"
        BY <1>1 DEF CommitRequest
    <2>2. request[r].op \in GovernanceOps
        BY <2>1, RequestFacts
    <2> QED
        BY <1>1, <2>2, CommitsRenewal, CommitsExtension, CommitsBundle DEF GovernanceOps
<1>2. CASE GovernanceStep
    BY <1>1, <1>2, Reviews DEF GovernanceStep
<1>3. CASE GovernanceArrives
    BY <1>3, AdministersExceptions, BeginsRequest, DiesRequest
       DEF GovernanceArrives, GovernanceOps
<1> QED
    BY <1>2, <1>3, AdministersExceptions

LEMMA UnchangedExceptions == ExceptionsInv /\ UNCHANGED evars => ExceptionsInv'
BY DEF evars, ExceptionsInv, ExceptionTypes, RequestTypes, ExceptionsTypeOK, ExceptionKnown, RenewalKnown,
       ExtendedByAnother, ReviewKnown, Under, Listed, Waits, OpenFor, IsOpen, Asking

LEMMA ExceptionsHold == ExceptionsInv => ApprovalsGoverned
BY DEF ExceptionsInv, ApprovalsGoverned, ReviewsFollow, ReviewKnown, Listed, Waits

\* Only a new exception becomes active, and there is one row.
LEMMA ExceptionsStayOut ==
    ASSUME ExceptionsInv,
           ExceptionArrives \/ ExceptionStep \/ GovernanceArrives \/ GovernanceStep
    PROVE  exception.known /\ ~exception.active => ~exception'.active
<1> SUFFICES ASSUME exception.known, ~exception.active PROVE ~exception'.active
    OBVIOUS
<1>1. ASSUME NEW r \in Requests, CommitRequest(r) PROVE ~exception'.active
    <2>1. request[r].op \in GovernanceOps
        BY <1>1, RequestFacts DEF CommitRequest
    <2>2. CASE request[r].op = "renew"
        BY <1>1, <2>2, ExceptionRows DEF CommitRequest, request_exception_renewal, NoException
    <2>3. CASE request[r].op = "extend"
        BY <1>1, <2>3, ExceptionRows DEF CommitRequest, approve_exception_renewal, Extend, NoException
    <2>4. CASE request[r].op \in {"submit", "approve"}
        BY <1>1, <2>4 DEF CommitRequest, ReviewBundle
    <2> QED
        BY <2>1, <2>2, <2>3, <2>4 DEF GovernanceOps
<1>2. CASE GovernanceStep
    BY <1>1, <1>2 DEF GovernanceStep, ReviewRequest
<1>3. CASE GovernanceArrives
    BY <1>3 DEF GovernanceArrives, revoke_policy_approver_delegation, create_delegation,
                BeginRequest, RequestDies
<1>4. CASE ExceptionArrives \/ ExceptionStep
    BY <1>4, ExceptionRows
       DEF ExceptionArrives, ExceptionStep, revoke_policy_exception, Instant,
           create_policy_exception, NoException
<1> QED
    BY <1>2, <1>3, <1>4

-----------------------------------------------------------------------------
(***************************************************************************)
(* Decisions: more policies decide no milder.                              *)
(***************************************************************************)
LEMMA Harshest ==
    ASSUME NEW matches, \A p \in matches : p.decision \in Decisions
    PROVE  PolicyDecided(matches) =
                IF \E p \in matches : p.decision = "deny" THEN "deny"
                ELSE IF \E p \in matches : p.decision = "conditional" THEN "conditional"
                ELSE "allow"
<1> DEFINE decisions == {p.decision : p \in matches}
           harshest(d) == \A p \in matches : DECISION_ORDER[d] >= DECISION_ORDER[p.decision]
<1>1. CASE matches = {}
    BY <1>1 DEF PolicyDecided
<1>2. CASE matches # {}
    <2>1. PolicyDecided(matches) = CHOOSE d \in decisions : harshest(d)
        BY <1>2 DEF PolicyDecided
    <2>2. ASSUME NEW d \in decisions, NEW e \in decisions, harshest(d), harshest(e) PROVE d = e
        <3>1. d \in Decisions /\ e \in Decisions
            OBVIOUS
        <3>2. DECISION_ORDER[d] >= DECISION_ORDER[e] /\ DECISION_ORDER[e] >= DECISION_ORDER[d]
            BY <2>2
        <3> QED
            BY <3>1, <3>2 DEF Decisions, DECISION_ORDER
    <2>3. CASE \E p \in matches : p.decision = "deny"
        <3>1. "deny" \in decisions /\ harshest("deny")
            BY <2>3 DEF Decisions, DECISION_ORDER
        <3> QED
            BY <3>1, <2>1, <2>2, <2>3
    <2>4. CASE /\ ~\E p \in matches : p.decision = "deny"
               /\ \E p \in matches : p.decision = "conditional"
        <3>1. "conditional" \in decisions /\ harshest("conditional")
            BY <2>4 DEF Decisions, DECISION_ORDER
        <3> QED
            BY <3>1, <2>1, <2>2, <2>4
    <2>5. CASE \A p \in matches : p.decision = "allow"
        <3>1. "allow" \in decisions /\ harshest("allow")
            BY <1>2, <2>5 DEF Decisions, DECISION_ORDER
        <3> QED
            BY <3>1, <2>1, <2>2, <2>5
    <2> QED
        BY <2>3, <2>4, <2>5 DEF Decisions
<1> QED
    BY <1>1, <1>2

LEMMA MorePoliciesDecide ==
    ASSUME NEW matches, \A p \in matches : p.decision \in Decisions,
           NEW fewer \in SUBSET matches
    PROVE  /\ PolicyDecided(matches) \in Decisions /\ PolicyDecided(fewer) \in Decisions
           /\ DECISION_ORDER[PolicyDecided(matches)] >= DECISION_ORDER[PolicyDecided(fewer)]
BY Harshest DEF Decisions, DECISION_ORDER

\* The greatest of a set of risks.
LEMMA Greatest ==
    ASSUME NEW S \in SUBSET (0..100), S # {}
    PROVE  Max(S) \in S /\ \A x \in S : Max(S) >= x
<1> DEFINE below == {100 - x : x \in S}
<1>1. below \subseteq Nat /\ below # {}
    <2>1. \A x \in S : x \in 0..100 /\ 100 - x \in Nat
        OBVIOUS
    <2> QED
        BY <2>1
<1>2. PICK n \in below : \A m \in below : n <= m
    BY <1>1, Least
<1>3. PICK x \in S : n = 100 - x
    OBVIOUS
<1>4. \A y \in S : x >= y
    BY <1>2, <1>3
<1> QED
    BY <1>4 DEF Max

LEMMA MorePoliciesRisk ==
    ASSUME NEW matches, \A p \in matches : p.risk \in 0..100,
           NEW fewer \in SUBSET matches, NEW q
    PROVE  /\ Risk(q, matches) \in Nat /\ Risk(q, fewer) \in Nat
           /\ Risk(q, matches) >= Risk(q, fewer)
<1> DEFINE risks(set) == {20} \cup {p.risk : p \in set}
           capped(n) == IF n <= 100 THEN n ELSE 100
<1>1. ASSUME NEW condition, NEW risk \in Nat PROVE Weight(condition, risk) \in Nat
    BY DEF Weight
<1>2. PICK a, b, c, d, e, f : /\ a = Weight(~q.approved, 45)
                              /\ b = Weight(q.sensitivity > q.ceiling, 40)
                              /\ c = Weight("domain" \in q.outside, 25)
                              /\ d = Weight("external" \in q.outside, 25)
                              /\ e = Weight("public" \in q.outside
                                                /\ q.sensitivity >= Confidential, 25)
                              /\ f = Weight("training" \in q.outside, 30)
    OBVIOUS
<1>0. a \in Nat /\ b \in Nat /\ c \in Nat /\ d \in Nat /\ e \in Nat /\ f \in Nat
    <2>1. a \in Nat /\ b \in Nat
        BY <1>1, <1>2
    <2>2. c \in Nat /\ d \in Nat
        BY <1>1, <1>2
    <2>3. e \in Nat /\ f \in Nat
        BY <1>1, <1>2
    <2> QED
        BY <2>1, <2>2, <2>3
<1>3. ASSUME NEW n \in Nat PROVE Min({100, n}) = capped(n)
    BY DEF Min
<1>4. PICK most, least : most = Max(risks(matches)) /\ least = Max(risks(fewer))
    OBVIOUS
<1>5. most \in Nat /\ least \in Nat /\ most >= least
    <2>1. risks(matches) \in SUBSET (0..100) /\ risks(matches) # {}
        OBVIOUS
    <2>2. risks(fewer) \in SUBSET risks(matches) /\ risks(fewer) # {}
        OBVIOUS
    <2>3. /\ most \in risks(matches) /\ \A x \in risks(matches) : most >= x
        BY <2>1, <1>4, Greatest
    <2>4. least \in risks(fewer)
        BY <2>1, <2>2, <1>4, Greatest
    <2> HIDE DEF risks
    <2> QED
        BY <2>1, <2>2, <2>3, <2>4
<1>6. PICK m, l : m = most + a + b + c + d + e + f /\ l = least + a + b + c + d + e + f
    OBVIOUS
<1>7. m \in Nat /\ l \in Nat /\ m >= l
    BY <1>0, <1>5, <1>6
<1>8. Risk(q, matches) = capped(m) /\ Risk(q, fewer) = capped(l)
    <2>1. Risk(q, matches) = Min({100, m}) /\ Risk(q, fewer) = Min({100, l})
        BY <1>2, <1>4, <1>6 DEF Risk
    <2> QED
        BY <2>1, <1>3, <1>7
<1> QED
    BY <1>7, <1>8

LEMMA MorePoliciesRestrict ==
    ASSUME NEW matches, \A p \in matches : p.decision \in Decisions /\ p.risk \in 0..100,
           NEW fewer \in SUBSET matches, NEW q
    PROVE  /\ AgentDecision(q, matches) \in Decisions
           /\ ContextDecision(q, matches) \in Decisions
           /\ DECISION_ORDER[AgentDecision(q, matches)] >= DECISION_ORDER[AgentDecision(q, fewer)]
           /\ DECISION_ORDER[ContextDecision(q, matches)]
                >= DECISION_ORDER[ContextDecision(q, fewer)]
<1>1. PICK m, f : m = PolicyDecided(matches) /\ f = PolicyDecided(fewer)
    OBVIOUS
<1>2. PICK r, s : r = Risk(q, matches) /\ s = Risk(q, fewer)
    OBVIOUS
<1>3. m \in Decisions /\ f \in Decisions /\ DECISION_ORDER[m] >= DECISION_ORDER[f]
    BY <1>1, MorePoliciesDecide
<1>4. r \in Nat /\ s \in Nat /\ r >= s
    BY <1>2, MorePoliciesRisk
<1> QED
    BY <1>1, <1>2, <1>3, <1>4 DEF AgentDecision, ContextDecision, Decisions, DECISION_ORDER

LEMMA ExceptionsRestrict == ExceptionsInv => PoliciesOnlyRestrict
<1> SUFFICES ASSUME ExceptionsInv, NEW p \in Bundle, NEW q, NEW d, NEW e,
                    p.id \notin exception.policy,
                    d \in evaluate_policy_only(q, Bundle, Exceptions),
                    e \in evaluate_policy_only(q, Bundle \ {p}, Exceptions)
             PROVE  DECISION_ORDER[d] >= DECISION_ORDER[e]
    BY DEF PoliciesOnlyRestrict, Answers
<1>1. PICK matches, fewer : /\ matches = evaluate_policy_definitions(q, Bundle)
                            /\ fewer = evaluate_policy_definitions(q, Bundle \ {p})
    OBVIOUS
<1>2. /\ \A x \in matches : x.decision \in Decisions /\ x.risk \in 0..100
      /\ fewer \in SUBSET matches /\ matches \subseteq fewer \cup {p}
    BY <1>1, BundleAssumption DEF evaluate_policy_definitions
<1>3. PICK found : found = {x \in Exceptions : Excepts(x, q, matches)}
    OBVIOUS
<1>4. found = {x \in Exceptions : Excepts(x, q, fewer)} /\ found \subseteq {exception}
    BY <1>2, <1>3 DEF Exceptions, Excepts
<1>5. /\ evaluate(q, Bundle, Exceptions) = IF found = {} THEN {AgentDecision(q, matches)}
                                           ELSE {x.override : x \in found}
      /\ evaluate(q, Bundle \ {p}, Exceptions) = IF found = {} THEN {AgentDecision(q, fewer)}
                                                 ELSE {x.override : x \in found}
    BY <1>1, <1>3, <1>4 DEF evaluate
<1>6. exception.override \in Decisions
    BY ExceptionRows
<1>7. \A x \in Decisions : DECISION_ORDER[x] >= DECISION_ORDER[x]
    BY DEF Decisions, DECISION_ORDER
<1>8. CASE /\ d \in evaluate(q, Bundle, Exceptions)
           /\ e \in evaluate(q, Bundle \ {p}, Exceptions)
    <2>1. CASE found = {}
        BY <2>1, <1>2, <1>5, <1>8, MorePoliciesRestrict
    <2>2. CASE found # {}
        BY <2>2, <1>4, <1>5, <1>6, <1>7, <1>8
    <2> QED
        BY <2>1, <2>2
<1>9. CASE d = "deny" /\ e = "deny"
    BY <1>9 DEF DECISION_ORDER
<1>10. CASE d = ContextDecision(q, matches) /\ e = ContextDecision(q, fewer)
    BY <1>10, <1>2, MorePoliciesRestrict
<1> QED
    BY <1>1, <1>8, <1>9, <1>10 DEF evaluate_policy_only

-----------------------------------------------------------------------------
(***************************************************************************)
(* Lineage: rows, maps and sessions.                                       *)
(***************************************************************************)
LEMMA OverRow ==
    ASSUME NEW k, NEW row, NEW f
    PROVE  /\ DOMAIN Over(f, Row(k, row)) = DOMAIN f \cup {k}
           /\ DOMAIN Over(Row(k, row), f) = DOMAIN f \cup {k}
           /\ \A x \in DOMAIN f : Over(f, Row(k, row))[x] = f[x]
           /\ k \notin DOMAIN f => Over(f, Row(k, row))[k] = row
           /\ Over(Row(k, row), f)[k] = row
           /\ \A x \in DOMAIN f : x # k => Over(Row(k, row), f)[x] = f[x]
BY DEF Over, Row

LEMMA OverMap ==
    ASSUME NEW S, NEW T, NEW f, IsMap(f, S, T), NEW k \in S, NEW row \in T
    PROVE  IsMap(Over(f, Row(k, row)), S, T) /\ IsMap(Over(Row(k, row), f), S, T)
BY DEF IsMap, Over, Row

LEMMA EmptyMap == ASSUME NEW S, NEW T PROVE IsMap(<<>>, S, T) /\ DOMAIN <<>> = {}
BY DEF IsMap

LEMMA SessionFields ==
    ASSUME NEW s, IsSession(s)
    PROVE  /\ s.busy \in BOOLEAN /\ s.todo \in Seq(SpanRow)
           /\ s.flushed \subseteq Events /\ s.found \subseteq Models
           /\ IsMap(s.loaded, Models, [relation : Relation, edge : Seq(EdgeRow)])
           /\ IsMap(s.copy, Models, Relation)
           /\ IsMap(s.obs, Events, Observation)
           /\ IsMap(s.imp, Events, Imported)
           /\ DOMAIN s.copy \subseteq Models /\ DOMAIN s.obs \subseteq Events
           /\ DOMAIN s.imp \subseteq Events
           /\ \A m \in DOMAIN s.copy : s.copy[m] \in Relation
           /\ \A m \in DOMAIN s.loaded :
                s.loaded[m] \in [relation : Relation, edge : Seq(EdgeRow)]
           /\ \A e \in DOMAIN s.obs : s.obs[e] \in Observation /\ s.obs[e].of \in Models
           /\ \A e \in DOMAIN s.imp : s.imp[e] \in Imported /\ s.imp[e].model \in Models
BY DEF IsSession, IsMap, Observation, Imported

LEMMA EmptySessions ==
    ASSUME NEW s, NEW busy \in BOOLEAN, NEW todo \in Seq(SpanRow), NEW empty, empty = <<>>,
           s = [busy |-> busy, todo |-> todo, loaded |-> empty, copy |-> empty,
                obs |-> empty, imp |-> empty, flushed |-> {}, found |-> {}]
    PROVE  /\ IsSession(s) /\ SessionKnown(s)
           /\ s.loaded = <<>> /\ s.copy = <<>> /\ s.obs = <<>> /\ s.imp = <<>>
           /\ s.found = {} /\ s.busy = busy /\ s.todo = todo
<1>2. s \in [busy : BOOLEAN, todo : Seq(SpanRow), loaded : {s.loaded}, copy : {s.copy},
             obs : {s.obs}, imp : {s.imp}, flushed : SUBSET Events, found : SUBSET Models]
    <2>1. s.loaded = empty /\ s.copy = empty /\ s.obs = empty /\ s.imp = empty
        OBVIOUS
    <2>2. s = [busy |-> busy, todo |-> todo, loaded |-> s.loaded, copy |-> s.copy,
               obs |-> s.obs, imp |-> s.imp, flushed |-> {}, found |-> {}]
        BY <2>1
    <2> QED
        BY <2>2
<1>3. /\ s.loaded = <<>> /\ s.copy = <<>> /\ s.obs = <<>> /\ s.imp = <<>>
      /\ s.found = {} /\ s.busy = busy /\ s.todo = todo
    <2>1. s.loaded = empty /\ s.copy = empty /\ s.obs = empty /\ s.imp = empty
        OBVIOUS
    <2>2. s.found = {} /\ s.todo = todo
        OBVIOUS
    <2>3. s.busy = busy
        OBVIOUS
    <2> QED
        BY <2>1, <2>2, <2>3
<1>4. IsSession(s)
    BY <1>2, <1>3, EmptyMap DEF IsSession
<1>5. SessionKnown(s)
    BY <1>3, EmptyMap DEF SessionKnown, CopiesKnown, ImportsKnown
<1> QED
    BY <1>3, <1>4, <1>5

LEMMA NewSessions ==
    ASSUME NEW s, NEW busy \in BOOLEAN, NEW todo \in Seq(SpanRow),
           s = [NewSession EXCEPT !.busy = busy, !.todo = todo]
    PROVE  /\ IsSession(s) /\ SessionKnown(s)
           /\ s.loaded = <<>> /\ s.copy = <<>> /\ s.obs = <<>> /\ s.imp = <<>>
           /\ s.found = {} /\ s.busy = busy /\ s.todo = todo
<1>0. PICK empty : empty = <<>>
    OBVIOUS
<1>1. PICK t : t = [busy |-> busy, todo |-> todo, loaded |-> empty, copy |-> empty,
                    obs |-> empty, imp |-> empty, flushed |-> {}, found |-> {}]
    OBVIOUS
<1>2. s = t
    <2>1. s = [busy |-> busy, todo |-> todo, loaded |-> empty, copy |-> empty,
               obs |-> empty, imp |-> empty, flushed |-> {}, found |-> {}]
        BY <1>0 DEF NewSession
    <2> QED
        BY <2>1, <1>1, Zenon
<1>3. /\ IsSession(t) /\ SessionKnown(t)
      /\ t.loaded = <<>> /\ t.copy = <<>> /\ t.obs = <<>> /\ t.imp = <<>>
      /\ t.found = {} /\ t.busy = busy /\ t.todo = todo
    BY <1>0, <1>1, EmptySessions, Zenon
<1> QED
    BY <1>2, <1>3, Zenon

LEMMA LineageFacts ==
    ASSUME LineageInv
    PROVE  /\ \A m \in Models : /\ relation[m] \in Relation /\ edge[m] \in Seq(EdgeRow)
                                /\ ObservationsOf(m) \in SUBSET Events
                                /\ IsFiniteSet(ObservationsOf(m))
                                /\ Cardinality(ObservationsOf(m)) \in Nat
           /\ \A e \in Events : observed[e] = NoObservation \/ observed[e].of \in Models
           /\ \A e \in Events : imported[e] = NoSpan \/ imported[e].model \in Models
           /\ NoObservation.of \notin Models /\ NoSpan.model \notin Models
<1>1. \A m \in Models : ObservationsOf(m) \in SUBSET Events
    BY DEF ObservationsOf
<1>2. \A m \in Models : IsFiniteSet(ObservationsOf(m)) /\ Cardinality(ObservationsOf(m)) \in Nat
    BY <1>1, LineageAssumption, FS_Subset, FS_CardinalityType
<1>3. NoObservation.of \notin Models /\ NoSpan.model \notin Models
    BY LineageAssumption DEF NoObservation, NoSpan
<1> QED
    BY <1>1, <1>2, <1>3 DEF LineageInv, LineageTypes, Observation, Imported

LEMMA AddsFinite ==
    ASSUME NEW s, IsSession(s), NEW m
    PROVE  /\ Adds(s, m) \subseteq Events /\ IsFiniteSet(Adds(s, m))
           /\ Cardinality(Adds(s, m)) \in Nat
<1>1. Adds(s, m) \subseteq Events
    BY SessionFields DEF Adds
<1> QED
    BY <1>1, LineageAssumption, FS_Subset, FS_CardinalityType

\* A relationship as it is in the database has what a session may have loaded.
LEMMA CurrentKnown ==
    ASSUME LineageInv, NEW m \in Models
    PROVE  LoadedKnown([relation |-> relation[m], edge |-> edge[m]], m)
<1>1. relation[m] \in Relation /\ edge[m] \in Seq(EdgeRow)
    BY LineageFacts
<1>2. /\ Len(edge[m]) = IF relation[m].known THEN 1 ELSE 0
      /\ relation[m].count <= Cardinality(ObservationsOf(m))
      /\ ~relation[m].known => relation[m] = NoRelation
    BY DEF LineageInv, LineageHolds, RelationsAccounted, RelationsKnown
<1>3. Len(edge[m]) = 0 => edge[m] = <<>>
    BY <1>1
<1> QED
    BY <1>1, <1>2, <1>3 DEF LoadedKnown

\* A session writes the row of a relationship.
LEMMA Writes ==
    ASSUME LineageInv, NEW s, IsSession(s), CopiesKnown(s), NEW m \in Models,
           NEW row \in Relation, NEW t, t = Write(s, m, row)
    PROVE  /\ IsSession(t)
           /\ DOMAIN t.copy = DOMAIN s.copy \cup {m} /\ DOMAIN t.loaded = DOMAIN t.copy
           /\ t.copy[m] = row
           /\ \A n \in DOMAIN s.copy : /\ n # m => t.copy[n] = s.copy[n]
                                       /\ t.loaded[n] = s.loaded[n]
           /\ m \notin DOMAIN s.copy => t.loaded[m].relation = relation[m]
           /\ \A n \in DOMAIN t.copy : LoadedKnown(t.loaded[n], n)
           /\ t.obs = s.obs /\ t.imp = s.imp /\ t.found = s.found /\ t.busy = s.busy
           /\ t.todo = s.todo /\ t.flushed = s.flushed
<1>0. PICK now_ : now_ = [relation |-> relation[m], edge |-> edge[m]]
    OBVIOUS
<1>1. PICK loaded, copy : /\ loaded = Over(s.loaded, Row(m, now_))
                          /\ copy = Over(Row(m, row), s.copy)
    OBVIOUS
<1>2. t = [s EXCEPT !.loaded = loaded, !.copy = copy]
    BY <1>0, <1>1 DEF Write
<1>3. s = [busy |-> s.busy, todo |-> s.todo, loaded |-> s.loaded, copy |-> s.copy,
           obs |-> s.obs, imp |-> s.imp, flushed |-> s.flushed, found |-> s.found]
    BY DEF IsSession
<1>4. t = [busy |-> s.busy, todo |-> s.todo, loaded |-> loaded, copy |-> copy,
           obs |-> s.obs, imp |-> s.imp, flushed |-> s.flushed, found |-> s.found]
    BY <1>2, <1>3
<1>5. now_ \in [relation : Relation, edge : Seq(EdgeRow)] /\ LoadedKnown(now_, m)
    BY <1>0, LineageFacts, CurrentKnown
<1>6. /\ IsMap(loaded, Models, [relation : Relation, edge : Seq(EdgeRow)])
      /\ IsMap(copy, Models, Relation)
    BY <1>1, <1>5, SessionFields, OverMap
<1>7. IsSession(t)
    BY <1>4, <1>6, SessionFields DEF IsSession
<1>8. /\ DOMAIN t.copy = DOMAIN s.copy \cup {m} /\ DOMAIN t.loaded = DOMAIN t.copy
      /\ t.copy[m] = row
      /\ \A n \in DOMAIN s.copy : /\ n # m => t.copy[n] = s.copy[n]
                                  /\ t.loaded[n] = s.loaded[n]
      /\ m \notin DOMAIN s.copy => t.loaded[m] = now_
    <2>1. DOMAIN s.loaded = DOMAIN s.copy
        BY DEF CopiesKnown
    <2>2. /\ DOMAIN loaded = DOMAIN s.loaded \cup {m}
          /\ \A n \in DOMAIN s.loaded : loaded[n] = s.loaded[n]
          /\ m \notin DOMAIN s.loaded => loaded[m] = now_
        BY <1>1 DEF Over, Row
    <2>3. /\ DOMAIN copy = DOMAIN s.copy \cup {m} /\ copy[m] = row
          /\ \A n \in DOMAIN s.copy : n # m => copy[n] = s.copy[n]
        BY <1>1 DEF Over, Row
    <2>4. t.loaded = loaded /\ t.copy = copy
        BY <1>4
    <2> QED
        BY <2>1, <2>2, <2>3, <2>4
<1>9. \A n \in DOMAIN t.copy : LoadedKnown(t.loaded[n], n)
    BY <1>5, <1>8 DEF CopiesKnown, CopyKnown
<1> QED
    BY <1>0, <1>4, <1>7, <1>8, <1>9

\* The row that a session reads is the one it has written, or the current one.
LEMMA ReadsRelationship ==
    ASSUME LineageInv, NEW s, IsSession(s), CopiesKnown(s), NEW m \in Models
    PROVE  /\ _relationship(s, m) \in Relation
           /\ m \in DOMAIN s.copy => _relationship(s, m) = s.copy[m]
           /\ m \notin DOMAIN s.copy => _relationship(s, m) = relation[m] /\ Adds(s, m) = {}
BY LineageFacts, SessionFields DEF _relationship, CopiesKnown, Adds

LEMMA Declares ==
    ASSUME LineageInv, NEW s, IsSession(s), CopiesKnown(s), DOMAIN s.obs = {}, DOMAIN s.imp = {},
           NEW m \in Models, NEW expected \in BOOLEAN, NEW t, t = declare(s, m, expected)
    PROVE  IsSession(t) /\ SessionKnown(t)
<1>1. PICK old : old = _relationship(s, m)
    OBVIOUS
<1>2. PICK row : row = [old EXCEPT !.known = TRUE, !.expected = expected]
    OBVIOUS
<1>3. old \in Relation
    BY <1>1, ReadsRelationship
<1>4. row \in Relation /\ row.known = TRUE /\ row.count = old.count
    BY <1>2, <1>3 DEF Relation
<1>5. t = Write(s, m, row)
    BY <1>1, <1>2 DEF declare
<1>6. /\ IsSession(t)
      /\ DOMAIN t.copy = DOMAIN s.copy \cup {m} /\ DOMAIN t.loaded = DOMAIN t.copy
      /\ t.copy[m] = row
      /\ \A n \in DOMAIN s.copy : /\ n # m => t.copy[n] = s.copy[n]
                                  /\ t.loaded[n] = s.loaded[n]
      /\ m \notin DOMAIN s.copy => t.loaded[m].relation = relation[m]
      /\ \A n \in DOMAIN t.copy : LoadedKnown(t.loaded[n], n)
      /\ t.obs = s.obs /\ t.imp = s.imp
    BY <1>4, <1>5, Writes
<1>7. \A n : Adds(t, n) = {} /\ Adds(s, n) = {} /\ Cardinality(Adds(t, n)) = 0
    BY <1>6, FS_EmptySet DEF Adds
<1>8. \A n \in DOMAIN s.copy : s.copy[n].known /\ s.copy[n].count = s.loaded[n].relation.count + 0
    <2> TAKE n \in DOMAIN s.copy
    <2>1. CopyKnown(s, n)
        BY DEF CopiesKnown
    <2>2. Cardinality(Adds(s, n)) = 0
        BY <1>7, FS_EmptySet
    <2> QED
        BY <2>1, <2>2 DEF CopyKnown
<1>9. t.copy[m].count = t.loaded[m].relation.count + 0
    <2>1. CASE m \in DOMAIN s.copy
        BY <2>1, <1>1, <1>4, <1>6, <1>8, ReadsRelationship
    <2>2. CASE m \notin DOMAIN s.copy
        BY <2>2, <1>1, <1>3, <1>4, <1>6, ReadsRelationship DEF Relation
    <2> QED
        BY <2>1, <2>2
<1>10. \A n \in DOMAIN t.copy : CopyKnown(t, n)
    BY <1>4, <1>6, <1>7, <1>8, <1>9 DEF CopyKnown
<1> QED
    BY <1>6, <1>10 DEF SessionKnown, CopiesKnown, ImportsKnown

\* One event more is to be observed of a relationship.
LEMMA Observes ==
    ASSUME LineageInv, NEW s, IsSession(s), CopiesKnown(s), NEW m \in Models, NEW e \in Events,
           Recorded(s, e).of \in {Nothing, m}, NEW t, t = observe_relationship(s, e, m)
    PROVE  /\ IsSession(t) /\ CopiesKnown(t)
           /\ t.imp = s.imp /\ t.found = s.found
           /\ Recorded(t, e).of = m
           /\ \A x \in Events : x # e => Recorded(t, x) = Recorded(s, x)
<1>1. CASE Recorded(s, e).of = m
    BY <1>1 DEF observe_relationship
<1>2. CASE Recorded(s, e).of # m
    <2>1. e \notin DOMAIN s.obs
        BY <1>2, SessionFields, LineageAssumption DEF Recorded
    <2>2. PICK old : old = _relationship(s, m)
        OBVIOUS
    <2>3. PICK row : row = [old EXCEPT !.known = TRUE, !.count = @ + 1]
        OBVIOUS
    <2>4. PICK w, o, obs : /\ w = Write(s, m, row)
                           /\ o = [of |-> m, drift |-> ~old.expected]
                           /\ obs = Over(Row(e, o), s.obs)
        OBVIOUS
    <2>5. old \in Relation
        BY <2>2, ReadsRelationship
    <2>6. /\ row \in Relation /\ row.known = TRUE /\ row.count = old.count + 1
          /\ row.expected = old.expected
        <3>1. PICK k, x, n : old = [known |-> k, expected |-> x, count |-> n]
            BY <2>5 DEF Relation
        <3>2. x \in BOOLEAN /\ n \in Nat
            BY <2>5, <3>1 DEF Relation
        <3>3. row = [known |-> TRUE, expected |-> x, count |-> n + 1]
            BY <2>3, <3>1
        <3> QED
            BY <3>1, <3>2, <3>3 DEF Relation
    <2>7. /\ IsSession(w)
          /\ DOMAIN w.copy = DOMAIN s.copy \cup {m} /\ DOMAIN w.loaded = DOMAIN w.copy
          /\ w.copy[m] = row
          /\ \A n \in DOMAIN s.copy : /\ n # m => w.copy[n] = s.copy[n]
                                      /\ w.loaded[n] = s.loaded[n]
          /\ m \notin DOMAIN s.copy => w.loaded[m].relation = relation[m]
          /\ \A n \in DOMAIN w.copy : LoadedKnown(w.loaded[n], n)
          /\ w.obs = s.obs /\ w.imp = s.imp /\ w.found = s.found /\ w.busy = s.busy
          /\ w.todo = s.todo /\ w.flushed = s.flushed
        BY <2>4, <2>6, Writes
    <2>8. t = [w EXCEPT !.obs = obs]
        <3>1. t = [w EXCEPT !.obs = Over(Row(e, o), @)]
            BY <1>2, <2>2, <2>3, <2>4 DEF observe_relationship
        <3>2. w.obs = s.obs /\ "obs" \in DOMAIN w
            BY <2>7 DEF IsSession
        <3> QED
            BY <3>1, <3>2, <2>4
    <2>9. w = [busy |-> w.busy, todo |-> w.todo, loaded |-> w.loaded, copy |-> w.copy,
               obs |-> w.obs, imp |-> w.imp, flushed |-> w.flushed, found |-> w.found]
        BY <2>7 DEF IsSession
    <2>10. t = [busy |-> w.busy, todo |-> w.todo, loaded |-> w.loaded, copy |-> w.copy,
                obs |-> obs, imp |-> w.imp, flushed |-> w.flushed, found |-> w.found]
        BY <2>8, <2>9
    <2>11. o \in Observation /\ o.of = m /\ (o.drift <=> ~old.expected)
        BY <2>4, <2>5 DEF Observation, Relation
    <2>12. IsMap(obs, Events, Observation)
        BY <2>4, <2>11, SessionFields, OverMap
    <2>13. IsSession(t)
        BY <2>7, <2>10, <2>12, SessionFields DEF IsSession
    <2>14. /\ DOMAIN obs = DOMAIN s.obs \cup {e} /\ obs[e] = o
           /\ \A x \in DOMAIN s.obs : obs[x] = s.obs[x]
        <3>1. obs = Over(Row(e, o), s.obs)
            BY <2>4
        <3>2. /\ DOMAIN obs = DOMAIN s.obs \cup {e} /\ obs[e] = o
              /\ \A x \in DOMAIN s.obs : x # e => obs[x] = s.obs[x]
            BY <3>1 DEF Over, Row
        <3> QED
            BY <2>1, <3>2
    <2>15. Adds(t, m) = Adds(s, m) \cup {e} /\ e \notin Adds(s, m)
        BY <2>1, <2>10, <2>11, <2>14 DEF Adds
    <2>16. Cardinality(Adds(t, m)) = Cardinality(Adds(s, m)) + 1
        BY <2>15, AddsFinite, FS_AddElement
    <2>17. \A n : n # m => Adds(t, n) = Adds(s, n)
        BY <2>1, <2>10, <2>11, <2>14 DEF Adds
    <2>18. t.copy[m].count = t.loaded[m].relation.count + Cardinality(Adds(t, m))
        <3>1. CASE m \in DOMAIN s.copy
            <4>1. /\ old = s.copy[m] /\ w.loaded[m] = s.loaded[m]
                  /\ s.copy[m].count = s.loaded[m].relation.count + Cardinality(Adds(s, m))
                BY <3>1, <2>2, <2>7, ReadsRelationship DEF CopiesKnown, CopyKnown
            <4>2. s.loaded[m].relation.count \in Nat /\ Cardinality(Adds(s, m)) \in Nat
                BY <3>1, SessionFields, AddsFinite DEF CopiesKnown, Relation
            <4> QED
                BY <4>1, <4>2, <2>6, <2>7, <2>10, <2>16
        <3>2. CASE m \notin DOMAIN s.copy
            <4>1. old = relation[m] /\ Adds(s, m) = {} /\ w.loaded[m].relation = relation[m]
                BY <3>2, <2>2, <2>7, ReadsRelationship
            <4> QED
                BY <4>1, <2>5, <2>6, <2>7, <2>10, <2>16, FS_EmptySet DEF Relation
        <3> QED
            BY <3>1, <3>2
    <2>19. ASSUME NEW n \in DOMAIN t.copy PROVE CopyKnown(t, n)
        <3>1. CASE n = m
            BY <3>1, <2>6, <2>7, <2>10, <2>18, <2>19 DEF CopyKnown
        <3>2. CASE n # m
            <4>1. n \in DOMAIN s.copy /\ CopyKnown(s, n)
                BY <3>2, <2>7, <2>10, <2>19 DEF CopiesKnown
            <4> QED
                BY <4>1, <3>2, <2>7, <2>10, <2>17 DEF CopyKnown
        <3> QED
            BY <3>1, <3>2
    <2>20. ASSUME NEW x \in DOMAIN t.obs
           PROVE  /\ t.obs[x].of \in DOMAIN t.copy
                  /\ ~t.obs[x].drift => t.copy[t.obs[x].of].expected
        <3>1. CASE x = e
            BY <3>1, <2>6, <2>7, <2>10, <2>11, <2>14
        <3>2. CASE x # e
            <4>1. /\ x \in DOMAIN s.obs /\ t.obs[x] = s.obs[x]
                  /\ s.obs[x].of \in DOMAIN s.copy
                  /\ ~s.obs[x].drift => s.copy[s.obs[x].of].expected
                BY <3>2, <2>10, <2>14, <2>20 DEF CopiesKnown
            <4>2. s.obs[x].of = m => old = s.copy[m]
                BY <4>1, <2>2, ReadsRelationship
            <4> QED
                BY <4>1, <4>2, <2>6, <2>7, <2>10
        <3> QED
            BY <3>1, <3>2
    <2>21. CopiesKnown(t)
        <3>1. DOMAIN t.loaded = DOMAIN t.copy
            <4>1. t.loaded = w.loaded /\ t.copy = w.copy
                BY <2>10
            <4>2. DOMAIN w.loaded = DOMAIN w.copy
                BY <2>7
            <4> QED
                BY <4>1, <4>2
        <3> QED
            BY <3>1, <2>19, <2>20 DEF CopiesKnown
    <2>22. Recorded(t, e).of = m /\ \A x \in Events : x # e => Recorded(t, x) = Recorded(s, x)
        BY <2>10, <2>11, <2>14 DEF Recorded
    <2> QED
        BY <2>7, <2>10, <2>13, <2>21, <2>22
<1> QED
    BY <1>1, <1>2

\* What a session knows of relationships depends on these of its columns.
LEMMA SameCopies ==
    ASSUME NEW s, NEW t, CopiesKnown(s),
           t.loaded = s.loaded, t.copy = s.copy, t.obs = s.obs
    PROVE  CopiesKnown(t) /\ \A e : Recorded(t, e) = Recorded(s, e)
<1>1. \A m : Adds(t, m) = Adds(s, m)
    BY DEF Adds
<1> QED
    BY <1>1 DEF CopiesKnown, CopyKnown, Recorded

LEMMA ImportsSpan ==
    ASSUME LineageInv, NEW s, IsSession(s), SessionKnown(s), NEW span \in SpanRow,
           ~Seen(s, span), ~Refusable(s, span), NEW t, t = ImportSpan(s, span)
    PROVE  IsSession(t) /\ SessionKnown(t)
<1> DEFINE e == span.event
           m == span.model
<1>1. e \in Events /\ m \in Models /\ span.agent \in BOOLEAN
    BY DEF SpanRow
<1>2. e \notin DOMAIN s.imp /\ (span.agent => Recorded(s, e).of \in {Nothing, m})
    BY DEF Refusable, Rebound
<1>3. PICK i, imp, kept, discovered, done :
        /\ i = [model |-> m, agent |-> span.agent]
        /\ imp = Over(Row(e, i), s.imp)
        /\ kept = [s EXCEPT !.imp = imp]
        /\ discovered = _discover_model(kept, m)
        /\ done = IF span.agent THEN observe_relationship(discovered, e, m) ELSE discovered
    OBVIOUS
<1>4. s = [busy |-> s.busy, todo |-> s.todo, loaded |-> s.loaded, copy |-> s.copy,
           obs |-> s.obs, imp |-> s.imp, flushed |-> s.flushed, found |-> s.found]
    BY DEF IsSession
<1>5. t = IF done = kept THEN done ELSE [done EXCEPT !.flushed = DOMAIN done.imp]
    <2>1. kept = [s EXCEPT !.imp = Over(Row(span.event, [model |-> span.model,
                                                        agent |-> span.agent]), @)]
        BY <1>3, <1>4
    <2> QED
        BY <1>3, <2>1 DEF ImportSpan
<1>6. kept = [busy |-> s.busy, todo |-> s.todo, loaded |-> s.loaded, copy |-> s.copy,
              obs |-> s.obs, imp |-> imp, flushed |-> s.flushed, found |-> s.found]
    BY <1>3, <1>4
<1>7. PICK found : /\ found = IF Registered(kept, m) THEN s.found ELSE s.found \cup {m}
    OBVIOUS
<1>8. discovered = [busy |-> s.busy, todo |-> s.todo, loaded |-> s.loaded, copy |-> s.copy,
                    obs |-> s.obs, imp |-> imp, flushed |-> s.flushed, found |-> found]
    <2>1. CASE Registered(kept, m)
        BY <2>1, <1>3, <1>6, <1>7 DEF _discover_model
    <2>2. CASE ~Registered(kept, m)
        <3>1. discovered = [kept EXCEPT !.found = @ \cup {m}]
            BY <2>2, <1>3 DEF _discover_model
        <3> QED
            BY <2>2, <3>1, <1>6, <1>7
    <2> QED
        BY <2>1, <2>2
<1>9. /\ i \in Imported /\ i.model = m /\ i.agent = span.agent
      /\ IsMap(imp, Events, Imported)
      /\ DOMAIN imp = DOMAIN s.imp \cup {e} /\ imp[e] = i
      /\ \A x \in DOMAIN s.imp : imp[x] = s.imp[x]
    <2>1. i \in Imported /\ i.model = m /\ i.agent = span.agent
        BY <1>1, <1>3 DEF Imported
    <2>2. IsMap(imp, Events, Imported)
        BY <1>1, <1>3, <2>1, SessionFields, OverMap
    <2>3. /\ DOMAIN imp = DOMAIN s.imp \cup {e} /\ imp[e] = i
          /\ \A x \in DOMAIN s.imp : x # e => imp[x] = s.imp[x]
        <3>1. imp = Over(Row(e, i), s.imp)
            BY <1>3
        <3> QED
            BY <3>1 DEF Over, Row
    <2> QED
        BY <1>2, <2>1, <2>2, <2>3
<1>10. found \subseteq Models /\ s.found \subseteq found /\ (m \in found \/ registered[m] # "absent")
    BY <1>1, <1>6, <1>7, SessionFields DEF Registered
<1>11. IsSession(discovered)
    BY <1>8, <1>9, <1>10, SessionFields DEF IsSession
<1>12. CopiesKnown(discovered) /\ \A x : Recorded(discovered, x) = Recorded(s, x)
    <2>1. CopiesKnown(s)
        BY DEF SessionKnown
    <2>2. /\ discovered.loaded = s.loaded /\ discovered.copy = s.copy
          /\ discovered.obs = s.obs
        BY <1>8
    <2> QED
        BY <2>1, <2>2, SameCopies
<1>13. /\ IsSession(done) /\ CopiesKnown(done)
       /\ done.imp = imp /\ done.found = found
       /\ span.agent => Recorded(done, e).of = m
       /\ \A x \in Events : x # e => Recorded(done, x) = Recorded(s, x)
    <2>1. discovered.imp = imp /\ discovered.found = found
        BY <1>8
    <2>2. CASE span.agent
        BY <2>1, <2>2, <1>1, <1>2, <1>3, <1>11, <1>12, Observes
    <2>3. CASE ~span.agent
        BY <2>1, <2>3, <1>3, <1>11, <1>12
    <2> QED
        BY <2>2, <2>3
<1>14. /\ IsSession(t) /\ t.loaded = done.loaded /\ t.copy = done.copy /\ t.obs = done.obs
       /\ t.imp = imp /\ t.found = found
    <2>1. CASE t = done
        BY <2>1, <1>13
    <2>2. CASE t = [done EXCEPT !.flushed = DOMAIN done.imp]
        <3>1. done = [busy |-> done.busy, todo |-> done.todo, loaded |-> done.loaded,
                      copy |-> done.copy, obs |-> done.obs, imp |-> done.imp,
                      flushed |-> done.flushed, found |-> done.found]
            BY <1>13 DEF IsSession
        <3>2. t = [busy |-> done.busy, todo |-> done.todo, loaded |-> done.loaded,
                   copy |-> done.copy, obs |-> done.obs, imp |-> done.imp,
                   flushed |-> DOMAIN done.imp, found |-> done.found]
            BY <2>2, <3>1
        <3>3. DOMAIN done.imp \subseteq Events
            BY <1>13, SessionFields
        <3>4. IsSession(t)
            BY <1>13, <3>2, <3>3, SessionFields DEF IsSession
        <3> QED
            BY <3>2, <3>4, <1>13
    <2> QED
        BY <2>1, <2>2, <1>5
<1>15. CopiesKnown(t) /\ \A x : Recorded(t, x) = Recorded(done, x)
    BY <1>13, <1>14, SameCopies
<1>16. ImportsKnown(t)
    <2> SUFFICES ASSUME NEW x \in DOMAIN imp
                 PROVE  /\ Registered(t, imp[x].model)
                        /\ imp[x].agent => Recorded(t, x).of = imp[x].model
        BY <1>14 DEF ImportsKnown
    <2>1. CASE x = e
        BY <2>1, <1>9, <1>10, <1>13, <1>14, <1>15 DEF Registered
    <2>2. CASE x # e
        <3>1. x \in DOMAIN s.imp /\ imp[x] = s.imp[x] /\ x \in Events
            BY <2>2, <1>9, SessionFields
        <3>2. Recorded(t, x) = Recorded(s, x)
            BY <2>2, <3>1, <1>13, <1>15
        <3> QED
            BY <3>1, <3>2, <1>10, <1>14 DEF SessionKnown, ImportsKnown, Registered
    <2> QED
        BY <2>1, <2>2
<1> QED
    BY <1>14, <1>15, <1>16 DEF SessionKnown

-----------------------------------------------------------------------------
(***************************************************************************)
(* Lineage: each step keeps LineageInv.                                    *)
(***************************************************************************)
LEMMA InitLineage == LineageInit => LineageInv
<1> SUFFICES ASSUME LineageInit PROVE LineageInv
    OBVIOUS
<1>1. /\ \A m \in Models : relation[m] = NoRelation /\ edge[m] = <<>> /\ registered[m] = "absent"
      /\ \A e \in Events : observed[e] = NoObservation /\ imported[e] = NoSpan
      /\ \A r \in Senders : session[r] = NewSession
    BY DEF LineageInit
<1>2. IsSession(NewSession) /\ SessionKnown(NewSession) /\ NewSession.copy = <<>>
    <2>1. PICK new : new = [NewSession EXCEPT !.busy = FALSE, !.todo = <<>>]
        OBVIOUS
    <2>2. <<>> \in Seq(SpanRow) /\ FALSE \in BOOLEAN
        OBVIOUS
    <2>3. IsSession(new) /\ SessionKnown(new) /\ new.copy = <<>>
        BY <2>1, <2>2, NewSessions
    <2>4. new = NewSession
        BY <2>1 DEF NewSession
    <2> QED
        BY <2>3, <2>4
<1>3. NoRelation \in Relation /\ NoRelation.known = FALSE /\ NoRelation.expected = FALSE
      /\ NoRelation.count = 0
    BY DEF NoRelation, Relation
<1>4. LineageTypes
    BY <1>1, <1>2, <1>3 DEF LineageInit, LineageTypes
<1>5. SessionsApart
    BY <1>1, <1>2 DEF SessionsApart
<1>6. RelationsKnown
    BY <1>1, <1>3 DEF RelationsKnown
<1>7. NoObservation.of \notin Models
    BY LineageAssumption DEF NoObservation
<1>8. \A m \in Models : ObservationsOf(m) = {}
    BY <1>1, <1>7 DEF ObservationsOf
<1>9. RelationsAccounted
    <2> SUFFICES ASSUME NEW m \in Models
                 PROVE  /\ Len(edge[m]) = IF relation[m].known THEN 1 ELSE 0
                        /\ relation[m].count <= Cardinality(ObservationsOf(m))
                        /\ relation[m].count = 0 => ObservationsOf(m) = {}
                        /\ ~relation[m].known
        BY DEF RelationsAccounted
    <2>1. Len(edge[m]) = 0
        BY <1>1
    <2>2. Cardinality(ObservationsOf(m)) = 0
        BY <1>8, FS_EmptySet
    <2> QED
        BY <2>1, <2>2, <1>1, <1>3, <1>8
<1>10. DriftIsUndeclared
    BY <1>1, <1>7 DEF DriftIsUndeclared
<1>11. TelemetryAccounted
    BY <1>1 DEF TelemetryAccounted, LineageInit
<1> QED
    BY <1>1, <1>2, <1>4, <1>5, <1>6, <1>9, <1>10, <1>11 DEF LineageInv, LineageHolds

\* A session goes on, or nothing of it remains.
LEMMA SessionMoves ==
    ASSUME LineageInv, NEW r \in Senders, NEW new, IsSession(new), SessionKnown(new),
           session' = [session EXCEPT ![r] = new],
           UNCHANGED <<registered, relation, edge, observed, imported, reported>>,
           /\ past'.declared = past.declared /\ past'.approved = past.approved
           /\ past' \in [entwined : SUBSET Models, declared : SUBSET Models,
                         approved : SUBSET Models]
           /\ past.entwined \cup Entwined(r, new) \subseteq past'.entwined
    PROVE  LineageInv'
<1>1. /\ session'[r] = new /\ DOMAIN session' = Senders
      /\ \A q \in Senders \ {r} : session'[q] = session[q]
    BY DEF LineageInv, LineageTypes
<1>2. \A m : ObservationsOf(m)' = ObservationsOf(m)
    BY DEF ObservationsOf
<1>3. LineageTypes'
    <2>1. \A s : IsSession(s)' <=> IsSession(s)
        BY DEF IsSession
    <2> QED
        BY <1>1 DEF LineageInv, LineageTypes, IsSession
<1>4. ASSUME NEW s, SessionKnown(s) PROVE SessionKnown(s)'
    BY <1>2, <1>4
       DEF SessionKnown, CopiesKnown, ImportsKnown, CopyKnown, LoadedKnown, Adds,
           Registered, Recorded
<1>5. \A q \in Senders : SessionKnown(session[q])'
    <2> TAKE q \in Senders
    <2>1. PICK s : s = session'[q]
        OBVIOUS
    <2>2. SessionKnown(s)
        BY <2>1, <1>1 DEF LineageInv
    <2>3. SessionKnown(s)'
        BY <2>2, <1>4
    <2> QED
        BY <2>1, <2>3
<1>6. SessionsApart'
    <2> SUFFICES ASSUME NEW a \in Senders, NEW b \in Senders, a # b
                 PROVE  (DOMAIN session[a].copy \cap DOMAIN session[b].copy \subseteq past.entwined)'
        BY DEF SessionsApart
    <2>1. CASE a = r
        <3>1. DOMAIN new.copy \cap DOMAIN session[b].copy \subseteq Entwined(r, new)
            BY <2>1 DEF Entwined
        <3> QED
            BY <3>1, <2>1, <1>1
    <2>2. CASE b = r
        <3>1. DOMAIN new.copy \cap DOMAIN session[a].copy \subseteq Entwined(r, new)
            BY <2>2 DEF Entwined
        <3> QED
            BY <3>1, <2>2, <1>1
    <2>3. CASE a # r /\ b # r
        BY <2>3, <1>1 DEF LineageInv, SessionsApart
    <2> QED
        BY <2>1, <2>2, <2>3
<1>7. RelationsKnown'
    BY DEF LineageInv, RelationsKnown
<1>8. LineageHolds'
    <2>1. RelationsAccounted'
        BY <1>2 DEF LineageInv, LineageHolds, RelationsAccounted
    <2>2. DriftIsUndeclared' /\ TelemetryAccounted'
        BY DEF LineageInv, LineageHolds, DriftIsUndeclared, TelemetryAccounted
    <2> QED
        BY <2>1, <2>2 DEF LineageInv, LineageHolds
<1> QED
    BY <1>3, <1>5, <1>6, <1>7, <1>8 DEF LineageInv

LEMMA Continues ==
    ASSUME LineageInv, NEW r \in Senders, NEW new, IsSession(new), SessionKnown(new),
           Continue(r, new)
    PROVE  LineageInv'
<1>1. past \in [entwined : SUBSET Models, declared : SUBSET Models, approved : SUBSET Models]
    BY DEF LineageInv, LineageTypes
<1>2. Entwined(r, new) \subseteq Models
    BY SessionFields DEF Entwined
<1>3. past' = [past EXCEPT !.entwined = past.entwined \cup Entwined(r, new)]
    BY DEF Continue
<1>4. /\ past'.declared = past.declared /\ past'.approved = past.approved
      /\ past'.entwined = past.entwined \cup Entwined(r, new)
      /\ past' \in [entwined : SUBSET Models, declared : SUBSET Models, approved : SUBSET Models]
    BY <1>1, <1>2, <1>3
<1> QED
    BY <1>4, SessionMoves DEF Continue

LEMMA RollsBack ==
    ASSUME LineageInv, NEW r \in Senders, Rollback(r) PROVE LineageInv'
<1>1. PICK new : new = [NewSession EXCEPT !.busy = FALSE, !.todo = <<>>]
    OBVIOUS
<1>2. /\ IsSession(new) /\ SessionKnown(new) /\ new.copy = <<>> /\ new = NewSession
    <2>1. <<>> \in Seq(SpanRow) /\ FALSE \in BOOLEAN
        OBVIOUS
    <2> QED
        BY <1>1, <2>1, NewSessions DEF NewSession
<1>3. Entwined(r, new) = {}
    BY <1>2 DEF Entwined
<1>4. past' = past /\ session' = [session EXCEPT ![r] = new]
    BY <1>2 DEF Rollback, Close
<1>5. past \in [entwined : SUBSET Models, declared : SUBSET Models, approved : SUBSET Models]
    BY DEF LineageInv, LineageTypes
<1> QED
    BY <1>2, <1>3, <1>4, <1>5, SessionMoves DEF Rollback

LEMMA Begins ==
    ASSUME LineageInv, NEW r \in Senders,
           \/ \E m \in Models, expected \in BOOLEAN : declare_relationship(r, m, expected)
           \/ \E e \in Events, m \in Models : create_ai_lineage_observation(r, e, m)
           \/ \E batch \in Batches : ingest_otlp_genai(r, batch)
    PROVE  LineageInv'
<1>1. PICK begun : begun = [NewSession EXCEPT !.busy = TRUE, !.todo = <<>>]
    OBVIOUS
<1>2. /\ begun = Begun /\ IsSession(begun) /\ CopiesKnown(begun)
      /\ begun.obs = <<>> /\ begun.imp = <<>>
    <2>1. <<>> \in Seq(SpanRow) /\ TRUE \in BOOLEAN
        OBVIOUS
    <2>2. IsSession(begun) /\ SessionKnown(begun) /\ begun.obs = <<>> /\ begun.imp = <<>>
        BY <1>1, <2>1, NewSessions
    <2>3. begun = Begun
        <3>1. PICK empty : empty = <<>>
            OBVIOUS
        <3>2. NewSession = [busy |-> FALSE, todo |-> empty, loaded |-> empty, copy |-> empty,
                            obs |-> empty, imp |-> empty, flushed |-> {}, found |-> {}]
            BY <3>1 DEF NewSession
        <3>3. begun = [NewSession EXCEPT !.busy = TRUE, !.todo = empty]
            BY <1>1, <3>1
        <3>4. Begun = [NewSession EXCEPT !.busy = TRUE]
            BY DEF Begun
        <3>5. begun = [busy |-> TRUE, todo |-> empty, loaded |-> empty, copy |-> empty,
                       obs |-> empty, imp |-> empty, flushed |-> {}, found |-> {}]
            BY <3>2, <3>3
        <3>6. Begun = [busy |-> TRUE, todo |-> empty, loaded |-> empty, copy |-> empty,
                       obs |-> empty, imp |-> empty, flushed |-> {}, found |-> {}]
            BY <3>2, <3>4
        <3> QED
            BY <3>5, <3>6
    <2> QED
        BY <2>2, <2>3 DEF SessionKnown
<1>3. ASSUME NEW m \in Models, NEW expected \in BOOLEAN, declare_relationship(r, m, expected)
      PROVE  LineageInv'
    <2>1. PICK new : new = declare(begun, m, expected)
        OBVIOUS
    <2>2. IsSession(new) /\ SessionKnown(new)
        BY <1>2, <2>1, EmptyMap, Declares
    <2>3. Continue(r, new)
        BY <1>2, <1>3, <2>1 DEF declare_relationship
    <2> QED
        BY <2>2, <2>3, Continues
<1>4. ASSUME NEW e \in Events, NEW m \in Models, create_ai_lineage_observation(r, e, m)
      PROVE  LineageInv'
    <2>1. PICK new : new = observe_relationship(begun, e, m)
        OBVIOUS
    <2>2. Recorded(begun, e).of = Nothing
        <3>1. Recorded(NewSession, e) = NoObservation /\ NewSession.obs = <<>>
            BY <1>4 DEF create_ai_lineage_observation, NewSession
        <3> QED
            BY <3>1, <1>2 DEF Recorded, NoObservation
    <2>3. IsSession(new) /\ CopiesKnown(new) /\ new.imp = <<>>
        BY <1>2, <2>1, <2>2, Observes
    <2>4. SessionKnown(new)
        BY <2>3, EmptyMap DEF SessionKnown, ImportsKnown
    <2>5. Continue(r, new)
        BY <1>2, <1>4, <2>1 DEF create_ai_lineage_observation
    <2> QED
        BY <2>3, <2>4, <2>5, Continues
<1>5. ASSUME NEW batch \in Batches, ingest_otlp_genai(r, batch) PROVE LineageInv'
    <2>1. PICK new : new = [NewSession EXCEPT !.busy = TRUE, !.todo = batch]
        OBVIOUS
    <2>2. batch \in Seq(SpanRow) /\ TRUE \in BOOLEAN
        BY LineageAssumption DEF SpanRow
    <2>3. IsSession(new) /\ SessionKnown(new)
        BY <2>1, <2>2, NewSessions
    <2>4. Continue(r, new)
        BY <1>5, <2>1 DEF ingest_otlp_genai, Begun, NewSession
    <2> QED
        BY <2>3, <2>4, Continues
<1> QED
    BY <1>3, <1>4, <1>5

LEMMA Ingests ==
    ASSUME LineageInv, NEW r \in Senders, IngestSpan(r) PROVE LineageInv'
<1>1. PICK s : s = session[r]
    OBVIOUS
<1>2. IsSession(s) /\ SessionKnown(s)
    BY <1>1 DEF LineageInv, LineageTypes
<1>3. PICK span, rest : span = Head(s.todo) /\ rest = [s EXCEPT !.todo = Tail(s.todo)]
    OBVIOUS
<1>4. /\ s.todo # <<>> /\ ~Refusable(s, span)
      /\ Continue(r, IF Seen(s, span) THEN rest ELSE ImportSpan(rest, span))
    <2>1. s = [busy |-> s.busy, todo |-> s.todo, loaded |-> s.loaded, copy |-> s.copy,
               obs |-> s.obs, imp |-> s.imp, flushed |-> s.flushed, found |-> s.found]
        BY <1>2 DEF IsSession
    <2>2. rest = [s EXCEPT !.todo = Tail(@)]
        BY <2>1, <1>3
    <2> QED
        BY <2>2, <1>1, <1>3 DEF IngestSpan
<1>5. span \in SpanRow /\ Tail(s.todo) \in Seq(SpanRow)
    BY <1>2, <1>3, <1>4, SessionFields
<1>6. /\ IsSession(rest) /\ rest.loaded = s.loaded /\ rest.copy = s.copy /\ rest.obs = s.obs
      /\ rest.imp = s.imp /\ rest.found = s.found /\ rest.flushed = s.flushed
    <2>1. s = [busy |-> s.busy, todo |-> s.todo, loaded |-> s.loaded, copy |-> s.copy,
               obs |-> s.obs, imp |-> s.imp, flushed |-> s.flushed, found |-> s.found]
        BY <1>2 DEF IsSession
    <2>2. rest = [busy |-> s.busy, todo |-> Tail(s.todo), loaded |-> s.loaded, copy |-> s.copy,
                  obs |-> s.obs, imp |-> s.imp, flushed |-> s.flushed, found |-> s.found]
        BY <2>1, <1>3
    <2>3. IsSession(rest)
        BY <2>2, <1>2, <1>5, SessionFields DEF IsSession
    <2> QED
        BY <2>2, <2>3
<1>7. SessionKnown(rest)
    <2>1. CopiesKnown(rest) /\ \A e : Recorded(rest, e) = Recorded(s, e)
        BY <1>2, <1>6, SameCopies DEF SessionKnown
    <2>2. \A m : Registered(rest, m) <=> Registered(s, m)
        BY <1>6 DEF Registered
    <2> QED
        BY <2>1, <2>2, <1>2, <1>6 DEF SessionKnown, ImportsKnown
<1>8. ~Refusable(rest, span) /\ (Seen(rest, span) <=> Seen(s, span))
    <2>1. \A e : Recorded(rest, e) = Recorded(s, e)
        BY <1>6 DEF Recorded
    <2> QED
        BY <2>1, <1>4, <1>6 DEF Refusable, Seen, Rebound
<1>9. CASE Seen(s, span)
    BY <1>4, <1>6, <1>7, <1>9, Continues
<1>10. CASE ~Seen(s, span)
    <2>1. PICK t : t = ImportSpan(rest, span)
        OBVIOUS
    <2>2. IsSession(t) /\ SessionKnown(t)
        BY <2>1, <1>5, <1>6, <1>7, <1>8, <1>10, ImportsSpan
    <2>3. Continue(r, t)
        BY <2>1, <1>4, <1>10
    <2> QED
        BY <2>2, <2>3, Continues
<1> QED
    BY <1>9, <1>10

\* The registry.
LEMMA Vouches ==
    ASSUME LineageInv, NEW m \in Models, NEW status \in {"approved", "disabled"},
           Vouch(m, status)
    PROVE  LineageInv'
<1>1. /\ registered' = [registered EXCEPT ![m] = status]
      /\ UNCHANGED <<relation, edge, observed, imported, reported, session>>
    BY DEF Vouch
<1>2. PICK approved_ : approved_ = IF status = "approved" THEN past.approved \cup {m}
                                                            ELSE past.approved
    OBVIOUS
<1>3. past \in [entwined : SUBSET Models, declared : SUBSET Models, approved : SUBSET Models]
    BY DEF LineageInv, LineageTypes
<1>4. past' = [past EXCEPT !.approved = approved_]
    BY <1>2, <1>3 DEF Vouch
<1>5. /\ past'.entwined = past.entwined /\ past'.declared = past.declared
      /\ past'.approved = approved_
      /\ past' \in [entwined : SUBSET Models, declared : SUBSET Models, approved : SUBSET Models]
    BY <1>2, <1>3, <1>4
<1>6. /\ registered' \in [Models -> {"absent", "review", "approved", "disabled"}]
      /\ registered'[m] = status /\ \A n \in Models \ {m} : registered'[n] = registered[n]
    BY <1>1 DEF LineageInv, LineageTypes
<1>7. \A n : ObservationsOf(n)' = ObservationsOf(n)
    BY <1>1 DEF ObservationsOf
<1>8. LineageTypes'
    BY <1>1, <1>5, <1>6 DEF LineageInv, LineageTypes, IsSession
<1>9. \A r \in Senders : SessionKnown(session[r])'
    <2> TAKE r \in Senders
    <2>1. PICK s : s = session[r]
        OBVIOUS
    <2>2. SessionKnown(s) /\ IsSession(s)
        BY <2>1 DEF LineageInv, LineageTypes
    <2>3. CopiesKnown(s)'
        BY <2>2, <1>1, <1>5, <1>7
           DEF SessionKnown, CopiesKnown, CopyKnown, LoadedKnown, Adds
    <2>4. ImportsKnown(s)'
        BY <2>2, <1>1, <1>6, SessionFields DEF SessionKnown, ImportsKnown, Registered, Recorded
    <2> QED
        BY <2>1, <2>3, <2>4, <1>1 DEF SessionKnown
<1>10. SessionsApart' /\ RelationsKnown'
    BY <1>1, <1>5 DEF LineageInv, SessionsApart, RelationsKnown
<1>11. RelationsAccounted' /\ DriftIsUndeclared'
    BY <1>1, <1>5, <1>7
       DEF LineageInv, LineageHolds, RelationsAccounted, DriftIsUndeclared
<1>12. TelemetryAccounted'
    <2>1. \A e \in UNION reported : imported[e].model \in Models
        BY LineageFacts DEF LineageInv, LineageHolds, TelemetryAccounted
    <2> QED
        BY <2>1, <1>1, <1>6 DEF LineageInv, LineageHolds, TelemetryAccounted
<1>13. {n \in Models : registered'[n] = "approved"} \subseteq past'.approved
    BY <1>2, <1>5, <1>6 DEF LineageInv, LineageHolds
<1> QED
    BY <1>8, <1>9, <1>10, <1>11, <1>12, <1>13 DEF LineageInv, LineageHolds

\* Column by column.
LEMMA WrittenRows ==
    ASSUME NEW current \in Relation, NEW loaded \in Relation, NEW assigned \in Relation,
           NEW row, row = WrittenRow(current, loaded, assigned)
    PROVE  /\ row \in Relation
           /\ row.known = KeptOrWritten(current.known, loaded.known, assigned.known)
           /\ row.expected = KeptOrWritten(current.expected, loaded.expected, assigned.expected)
           /\ row.count = KeptOrWritten(current.count, loaded.count, assigned.count)
           /\ loaded = current => row = assigned
<1>1. DOMAIN assigned = {"known", "expected", "count"}
    BY DEF Relation
<1>2. /\ row.known = KeptOrWritten(current.known, loaded.known, assigned.known)
      /\ row.expected = KeptOrWritten(current.expected, loaded.expected, assigned.expected)
      /\ row.count = KeptOrWritten(current.count, loaded.count, assigned.count)
      /\ row = [c \in {"known", "expected", "count"} |->
                    KeptOrWritten(current[c], loaded[c], assigned[c])]
    BY <1>1 DEF WrittenRow
<1>3. row = [known |-> row.known, expected |-> row.expected, count |-> row.count]
    BY <1>2
<1>4. row.known \in BOOLEAN /\ row.expected \in BOOLEAN /\ row.count \in Nat
    BY <1>2 DEF KeptOrWritten, Relation
<1>5. row \in Relation
    <2>1. PICK a, b, c : a = row.known /\ b = row.expected /\ c = row.count
        OBVIOUS
    <2>2. row = [known |-> a, expected |-> b, count |-> c]
        BY <2>1, <1>3
    <2> QED
        BY <2>1, <2>2, <1>4 DEF Relation
<1>6. ASSUME loaded = current PROVE row = assigned
    <2>1. row.known = assigned.known /\ row.expected = assigned.expected
          /\ row.count = assigned.count
        BY <1>2, <1>6 DEF KeptOrWritten
    <2>2. assigned = [known |-> assigned.known, expected |-> assigned.expected,
                      count |-> assigned.count]
        BY DEF Relation
    <2> QED
        BY <2>1, <2>2, <1>3
<1> QED
    BY <1>2, <1>5, <1>6

\* The edge of a relationship, as a session that loaded it writes it.
LEMMA SyncsEdge ==
    ASSUME LineageInv, NEW m \in Models,
           NEW loaded \in [relation : Relation, edge : Seq(EdgeRow)], LoadedKnown(loaded, m),
           NEW row \in Relation, ~loaded.relation.known => ~relation[m].known,
           NEW edges, edges = _sync_graph_edge(m, loaded, row)
    PROVE  /\ edges \in Seq(EdgeRow) /\ Len(edges) = 1
           /\ m \notin past.entwined => edges = <<Shown(row)>>
<1>1. /\ edge[m] \in Seq(EdgeRow)
      /\ Len(edge[m]) = IF relation[m].known THEN 1 ELSE 0
    BY LineageFacts DEF LineageInv, LineageHolds, RelationsAccounted
<1>2. Shown(row) \in EdgeRow
    BY DEF Shown, EdgeRow, Relation
<1>3. CASE ~loaded.relation.known
    <2>1. loaded.edge = <<>> /\ edge[m] = <<>>
        BY <1>1, <1>3 DEF LoadedKnown
    <2>2. edges = <<Shown(row)>>
        BY <2>1 DEF _sync_graph_edge
    <2> QED
        BY <2>2, <1>2
<1>4. CASE loaded.relation.known
    <2>1. /\ loaded.edge \in Seq(EdgeRow) /\ Len(loaded.edge) = 1 /\ Len(edge[m]) = 1
          /\ m \notin past.entwined => loaded.edge = edge[m]
        BY <1>1, <1>4 DEF LoadedKnown
    <2>2. PICK new : new = KeptOrWritten(edge[m][1], loaded.edge[1], Shown(row))
        OBVIOUS
    <2>3. /\ edge[m][1] \in EdgeRow /\ new \in EdgeRow
          /\ m \notin past.entwined => new = Shown(row)
        BY <2>1, <2>2, <1>1, <1>2 DEF KeptOrWritten
    <2>4. loaded.edge # <<>>
        <3>1. loaded.edge = <<>> => Len(loaded.edge) = 0
            OBVIOUS
        <3> QED
            BY <3>1, <2>1
    <2>5. edges = [edge[m] EXCEPT ![1] = new]
        BY <2>2, <2>4 DEF _sync_graph_edge
    <2>6. edges = <<new>>
        BY <2>1, <2>3, <2>5, <1>1
    <2> QED
        BY <2>3, <2>6
<1> QED
    BY <1>3, <1>4

\* The rows that a commit of session s leaves.
LEMMA CommitWrites ==
    ASSUME LineageInv, NEW r \in Senders, NEW s, s = session[r], Commit(r)
    PROVE  /\ \A e \in DOMAIN s.obs : observed[e] = NoObservation /\ observed'[e] = s.obs[e]
           /\ \A e \in Events \ DOMAIN s.obs : observed'[e] = observed[e]
           /\ \A e \in DOMAIN s.imp : imported[e] = NoSpan /\ imported'[e] = s.imp[e]
           /\ \A e \in Events \ DOMAIN s.imp : imported'[e] = imported[e]
           /\ \A m \in Models : ObservationsOf(m)' = ObservationsOf(m) \cup Adds(s, m)
           /\ \A m \in Models : Cardinality(ObservationsOf(m)')
                                    = Cardinality(ObservationsOf(m)) + Cardinality(Adds(s, m))
           /\ \A m \in Models \ DOMAIN s.copy : /\ Adds(s, m) = {}
                                                /\ relation'[m] = relation[m]
                                                /\ edge'[m] = edge[m]
           /\ observed' \in [Events -> Observation \cup {NoObservation}]
           /\ imported' \in [Events -> Imported \cup {NoSpan}]
<1>1. IsSession(s) /\ SessionKnown(s) /\ ~Conflict(s)
    BY DEF LineageInv, LineageTypes, Commit
<1>2. observed' = Over(s.obs, observed) /\ imported' = Over(s.imp, imported)
    BY DEF Commit
<1>3. DOMAIN observed = Events /\ DOMAIN imported = Events
    BY DEF LineageInv, LineageTypes
<1>4. DOMAIN s.obs \subseteq Events /\ DOMAIN s.imp \subseteq Events
    BY <1>1, SessionFields
<1>5. /\ \A e \in DOMAIN s.obs : observed[e] = NoObservation
      /\ \A e \in DOMAIN s.imp : imported[e] = NoSpan
    BY <1>1 DEF Conflict
<1>6. /\ \A e \in DOMAIN s.obs : observed'[e] = s.obs[e]
      /\ \A e \in Events \ DOMAIN s.obs : observed'[e] = observed[e]
      /\ \A e \in DOMAIN s.imp : imported'[e] = s.imp[e]
      /\ \A e \in Events \ DOMAIN s.imp : imported'[e] = imported[e]
    BY <1>2, <1>3, <1>4 DEF Over
<1>7. ASSUME NEW m \in Models PROVE ObservationsOf(m)' = ObservationsOf(m) \cup Adds(s, m)
    BY <1>4, <1>5, <1>6, LineageFacts DEF ObservationsOf, Adds
<1>8. ASSUME NEW m \in Models
      PROVE  Cardinality(ObservationsOf(m)')
                = Cardinality(ObservationsOf(m)) + Cardinality(Adds(s, m))
    <2>1. ObservationsOf(m) \cap Adds(s, m) = {}
        BY <1>5, LineageFacts DEF ObservationsOf, Adds
    <2>2. Cardinality({}) = 0
        BY FS_EmptySet
    <2>3. /\ IsFiniteSet(ObservationsOf(m)) /\ IsFiniteSet(Adds(s, m))
          /\ Cardinality(ObservationsOf(m)) \in Nat /\ Cardinality(Adds(s, m)) \in Nat
        BY <1>1, LineageFacts, AddsFinite
    <2>4. Cardinality(ObservationsOf(m) \cup Adds(s, m))
            = Cardinality(ObservationsOf(m)) + Cardinality(Adds(s, m))
                - Cardinality(ObservationsOf(m) \cap Adds(s, m))
        BY <2>3, FS_Union
    <2>5. PICK a, b : a = Cardinality(ObservationsOf(m)) /\ b = Cardinality(Adds(s, m))
        OBVIOUS
    <2>6. Cardinality(ObservationsOf(m) \cup Adds(s, m)) = a + b
        <3>1. Cardinality(ObservationsOf(m) \cup Adds(s, m)) = a + b - 0
            BY <2>1, <2>2, <2>4, <2>5
        <3> QED
            BY <3>1, <2>3, <2>5
    <2> QED
        BY <1>7, <2>5, <2>6
<1>9. \A m \in Models \ DOMAIN s.copy : /\ Adds(s, m) = {}
                                        /\ relation'[m] = relation[m]
                                        /\ edge'[m] = edge[m]
    BY <1>1 DEF SessionKnown, CopiesKnown, Adds, Commit
<1>10. observed' \in [Events -> Observation \cup {NoObservation}]
    <2>1. DOMAIN observed' = Events /\ observed' = [e \in Events |-> observed'[e]]
        BY <1>2, <1>3, <1>4 DEF Over
    <2>2. \A e \in Events : observed'[e] \in Observation \cup {NoObservation}
        BY <1>1, <1>6, SessionFields DEF LineageInv, LineageTypes
    <2> QED
        BY <2>1, <2>2
<1>11. imported' \in [Events -> Imported \cup {NoSpan}]
    <2>1. DOMAIN imported' = Events /\ imported' = [e \in Events |-> imported'[e]]
        BY <1>2, <1>3, <1>4 DEF Over
    <2>2. \A e \in Events : imported'[e] \in Imported \cup {NoSpan}
        BY <1>1, <1>6, SessionFields DEF LineageInv, LineageTypes
    <2> QED
        BY <2>1, <2>2
<1> QED
    BY <1>5, <1>6, <1>7, <1>8, <1>9, <1>10, <1>11

\* One relationship of the session that commits.
LEMMA CommitRelates ==
    ASSUME LineageInv, NEW r \in Senders, NEW s, s = session[r], Commit(r),
           NEW m \in DOMAIN s.copy
    PROVE  /\ relation'[m] \in Relation /\ relation'[m].known = TRUE
           /\ relation'[m].expected => relation[m].expected \/ s.copy[m].expected
           /\ edge'[m] \in Seq(EdgeRow) /\ Len(edge'[m]) = 1
           /\ relation'[m].count <= Cardinality(ObservationsOf(m)')
           /\ relation'[m].count = 0 => ObservationsOf(m)' = {}
           /\ m \notin past.entwined =>
                /\ relation'[m].count = Cardinality(ObservationsOf(m)')
                /\ edge'[m] = <<Shown(relation'[m])>>
<1>1. IsSession(s) /\ SessionKnown(s) /\ ~Conflict(s)
    BY DEF LineageInv, LineageTypes, Commit
<1>2. PICK loaded, old, new, cur, row, adds, obs :
        /\ loaded = s.loaded[m] /\ old = s.loaded[m].relation /\ new = s.copy[m]
        /\ cur = relation[m] /\ row = WrittenRow(cur, old, new)
        /\ adds = Cardinality(Adds(s, m)) /\ obs = Cardinality(ObservationsOf(m))
    OBVIOUS
<1>3. /\ m \in Models /\ new \in Relation /\ old \in Relation /\ cur \in Relation
      /\ loaded \in [relation : Relation, edge : Seq(EdgeRow)] /\ loaded.relation = old
    <2>1. m \in Models /\ m \in DOMAIN s.loaded
        BY <1>1, SessionFields DEF SessionKnown, CopiesKnown
    <2> QED
        BY <2>1, <1>1, <1>2, SessionFields, LineageFacts
<1>4. adds \in Nat /\ obs \in Nat
    BY <1>1, <1>2, <1>3, AddsFinite, LineageFacts
<1>5. relation'[m] = row /\ edge'[m] = _sync_graph_edge(m, loaded, new)
    BY <1>2, <1>3 DEF Commit
<1>6. /\ LoadedKnown(loaded, m) /\ new.known /\ new.count = old.count + adds
    BY <1>1, <1>2 DEF SessionKnown, CopiesKnown, CopyKnown
<1>7. ~(cur.known /\ ~old.known)
    BY <1>1, <1>2 DEF Conflict
<1>8. /\ old.count <= obs /\ (old.known => cur.known) /\ (m \notin past.entwined => old = cur)
    BY <1>2, <1>3, <1>6 DEF LoadedKnown
<1>9. /\ cur.count <= obs /\ (cur.count = 0 => ObservationsOf(m) = {})
      /\ cur.known /\ m \notin past.entwined => cur.count = obs
      /\ ~cur.known => cur.count = 0
    BY <1>2, <1>3
       DEF LineageInv, LineageHolds, RelationsAccounted, RelationsKnown, NoRelation
<1>10. /\ row \in Relation
       /\ row.known = KeptOrWritten(cur.known, old.known, new.known)
       /\ row.expected = KeptOrWritten(cur.expected, old.expected, new.expected)
       /\ row.count = KeptOrWritten(cur.count, old.count, new.count)
       /\ old = cur => row = new
    BY <1>2, <1>3, WrittenRows
<1>11. /\ cur.known \in BOOLEAN /\ old.known \in BOOLEAN /\ new.known \in BOOLEAN
       /\ cur.count \in Nat /\ old.count \in Nat /\ new.count \in Nat
    BY <1>3 DEF Relation
<1>12. /\ ObservationsOf(m)' = ObservationsOf(m) \cup Adds(s, m)
       /\ Cardinality(ObservationsOf(m)') = obs + adds
    BY <1>2, <1>3, CommitWrites
<1>13. row.known = TRUE
    BY <1>6, <1>8, <1>10, <1>11 DEF KeptOrWritten
<1>14. row.expected => cur.expected \/ new.expected
    BY <1>10 DEF KeptOrWritten
<1>15. row.count <= obs + adds
    BY <1>4, <1>6, <1>8, <1>9, <1>10, <1>11 DEF KeptOrWritten
<1>16. row.count = 0 => ObservationsOf(m)' = {}
    <2> SUFFICES ASSUME row.count = 0 PROVE ObservationsOf(m)' = {}
        OBVIOUS
    <2>1. adds = 0 /\ cur.count = 0
        BY <1>4, <1>6, <1>10, <1>11 DEF KeptOrWritten
    <2>2. Adds(s, m) = {}
        BY <1>1, <1>2, <2>1, AddsFinite, FS_EmptySet
    <2> QED
        BY <2>1, <2>2, <1>9, <1>12
<1>17. m \notin past.entwined => row.count = obs + adds
    <2> SUFFICES ASSUME m \notin past.entwined PROVE row.count = obs + adds
        OBVIOUS
    <2>1. old = cur /\ row.count = cur.count + adds
        BY <1>6, <1>8, <1>10
    <2>2. CASE cur.known
        BY <2>1, <2>2, <1>9
    <2>3. CASE ~cur.known
        <3>1. ObservationsOf(m) = {}
            BY <2>3, <1>9
        <3>2. obs = 0
            BY <3>1, <1>2, FS_EmptySet
        <3> QED
            BY <2>1, <2>3, <3>2, <1>9
    <2> QED
        BY <2>2, <2>3
<1>18. /\ edge'[m] \in Seq(EdgeRow) /\ Len(edge'[m]) = 1
       /\ m \notin past.entwined => edge'[m] = <<Shown(new)>>
    <2>1. PICK edges : edges = _sync_graph_edge(m, loaded, new)
        OBVIOUS
    <2>2. ~loaded.relation.known => ~relation[m].known
        BY <1>2, <1>3, <1>7
    <2> QED
        BY <2>1, <2>2, <1>3, <1>5, <1>6, SyncsEdge
<1>19. m \notin past.entwined => edge'[m] = <<Shown(row)>>
    BY <1>8, <1>10, <1>18
<1> QED
    BY <1>2, <1>5, <1>10, <1>12, <1>13, <1>14, <1>15, <1>16, <1>17, <1>18, <1>19

LEMMA UnionAdds ==
    ASSUME NEW R, NEW D PROVE UNION (R \cup ({D} \ {{}})) = (UNION R) \cup D
OBVIOUS

LEMMA Commits == ASSUME LineageInv, NEW r \in Senders, Commit(r) PROVE LineageInv'
<1>1. PICK s : s = session[r]
    OBVIOUS
<1>2. IsSession(s) /\ SessionKnown(s) /\ ~Conflict(s)
    BY <1>1 DEF LineageInv, LineageTypes, Commit
<1>3. PICK new : new = [NewSession EXCEPT !.busy = FALSE, !.todo = <<>>]
    OBVIOUS
<1>4. /\ IsSession(new) /\ new = NewSession /\ new.copy = <<>> /\ new.loaded = <<>>
      /\ new.obs = <<>> /\ new.imp = <<>>
    <2>1. <<>> \in Seq(SpanRow) /\ FALSE \in BOOLEAN
        OBVIOUS
    <2> QED
        BY <1>3, <2>1, NewSessions DEF NewSession
<1>5. /\ session'[r] = new /\ DOMAIN session' = Senders
      /\ \A q \in Senders \ {r} : session'[q] = session[q]
    BY <1>4 DEF Commit, Close, LineageInv, LineageTypes
<1>6. /\ registered' = [m \in Models |-> IF m \in s.found THEN "review" ELSE registered[m]]
      /\ DOMAIN relation' = Models /\ DOMAIN edge' = Models
      /\ relation' = [m \in Models |-> relation'[m]] /\ edge' = [m \in Models |-> edge'[m]]
      /\ reported' = reported \cup ({DOMAIN s.imp} \ {{}})
    BY <1>1 DEF Commit
<1>7. /\ past'.entwined = past.entwined /\ past'.approved = past.approved
      /\ past'.declared = past.declared \cup {m \in DOMAIN s.copy : s.copy[m].expected}
      /\ past' \in [entwined : SUBSET Models, declared : SUBSET Models, approved : SUBSET Models]
    <2>1. PICK declared_ :
            declared_ = past.declared \cup {m \in DOMAIN s.copy : s.copy[m].expected}
        OBVIOUS
    <2>2. past \in [entwined : SUBSET Models, declared : SUBSET Models, approved : SUBSET Models]
        BY DEF LineageInv, LineageTypes
    <2>3. past' = [past EXCEPT !.declared = declared_]
        BY <1>1, <2>1, <2>2 DEF Commit
    <2>4. declared_ \subseteq Models
        BY <1>2, <2>1, <2>2, SessionFields
    <2> QED
        BY <2>1, <2>2, <2>3, <2>4
<1>8. /\ \A e \in DOMAIN s.obs : observed[e] = NoObservation /\ observed'[e] = s.obs[e]
      /\ \A e \in Events \ DOMAIN s.obs : observed'[e] = observed[e]
      /\ \A e \in DOMAIN s.imp : imported[e] = NoSpan /\ imported'[e] = s.imp[e]
      /\ \A e \in Events \ DOMAIN s.imp : imported'[e] = imported[e]
      /\ \A m \in Models : ObservationsOf(m)' = ObservationsOf(m) \cup Adds(s, m)
      /\ \A m \in Models : Cardinality(ObservationsOf(m)')
                                = Cardinality(ObservationsOf(m)) + Cardinality(Adds(s, m))
      /\ \A m \in Models \ DOMAIN s.copy : /\ Adds(s, m) = {}
                                           /\ relation'[m] = relation[m]
                                           /\ edge'[m] = edge[m]
      /\ observed' \in [Events -> Observation \cup {NoObservation}]
      /\ imported' \in [Events -> Imported \cup {NoSpan}]
    BY <1>1, CommitWrites
<1>9. \A m \in DOMAIN s.copy :
        /\ relation'[m] \in Relation /\ relation'[m].known = TRUE
        /\ relation'[m].expected => relation[m].expected \/ s.copy[m].expected
        /\ edge'[m] \in Seq(EdgeRow) /\ Len(edge'[m]) = 1
        /\ relation'[m].count <= Cardinality(ObservationsOf(m)')
        /\ relation'[m].count = 0 => ObservationsOf(m)' = {}
        /\ m \notin past.entwined =>
             /\ relation'[m].count = Cardinality(ObservationsOf(m)')
             /\ edge'[m] = <<Shown(relation'[m])>>
    BY <1>1, CommitRelates
<1>10. \A m \in Models : /\ registered'[m] \in {"absent", "review", "approved", "disabled"}
                         /\ registered[m] # "absent" => registered'[m] # "absent"
                         /\ m \in s.found => registered'[m] # "absent"
                         /\ registered'[m] = "approved" => registered[m] = "approved"
    BY <1>6 DEF LineageInv, LineageTypes
<1>11. LineageTypes'
    <2>1. \A m \in Models : relation'[m] \in Relation /\ edge'[m] \in Seq(EdgeRow)
        BY <1>8, <1>9, LineageFacts
    <2>2. relation' \in [Models -> Relation] /\ edge' \in [Models -> Seq(EdgeRow)]
        BY <2>1, <1>6
    <2>3. registered' \in [Models -> {"absent", "review", "approved", "disabled"}]
        BY <1>6, <1>10
    <2>4. reported' \subseteq SUBSET Events
        BY <1>2, <1>6, SessionFields DEF LineageInv, LineageTypes
    <2>5. \A q \in Senders : IsSession(session[q])'
        BY <1>4, <1>5 DEF LineageInv, LineageTypes, IsSession
    <2> QED
        BY <2>2, <2>3, <2>4, <2>5, <1>5, <1>7, <1>8 DEF LineageTypes
<1>12. ASSUME NEW q \in Senders, q # r, NEW t, t = session[q]
       PROVE  SessionKnown(t)'
    <2>1. IsSession(t) /\ SessionKnown(t)
        BY <1>12 DEF LineageInv, LineageTypes
    <2>2. DOMAIN t.copy \cap DOMAIN s.copy \subseteq past.entwined
        BY <1>1, <1>12 DEF LineageInv, SessionsApart
    <2>3. ASSUME NEW m \in DOMAIN t.copy PROVE LoadedKnown(t.loaded[m], m)'
        <3>1. /\ LoadedKnown(t.loaded[m], m) /\ m \in Models
              /\ t.loaded[m] \in [relation : Relation, edge : Seq(EdgeRow)]
            BY <2>1, <2>3, SessionFields DEF SessionKnown, CopiesKnown, CopyKnown
        <3>2. CASE m \notin DOMAIN s.copy
            <4>1. ObservationsOf(m)' = ObservationsOf(m)
                <5>1. m \in Models \ DOMAIN s.copy
                    BY <3>1, <3>2
                <5>2. /\ ObservationsOf(m)' = ObservationsOf(m) \cup Adds(s, m)
                      /\ Adds(s, m) = {}
                    BY <5>1, <1>8
                <5> QED
                    BY <5>2
            <4>2. relation'[m] = relation[m] /\ edge'[m] = edge[m]
                BY <3>1, <3>2, <1>8
            <4> QED
                BY <3>1, <4>1, <4>2, <1>7 DEF LoadedKnown
        <3>3. CASE m \in DOMAIN s.copy
            <4>1. m \in past'.entwined /\ relation'[m].known
                BY <3>3, <2>2, <2>3, <1>7, <1>9
            <4>2. t.loaded[m].relation.count <= Cardinality(ObservationsOf(m)')
                <5>1. t.loaded[m].relation.count \in Nat
                    BY <3>1 DEF Relation
                <5>2. /\ Cardinality(ObservationsOf(m)) \in Nat
                      /\ Cardinality(Adds(s, m)) \in Nat
                    BY <3>1, <1>2, LineageFacts, AddsFinite
                <5> QED
                    BY <5>1, <5>2, <3>1, <1>8 DEF LoadedKnown
            <4> QED
                BY <4>1, <4>2, <3>1 DEF LoadedKnown
        <3> QED
            BY <3>2, <3>3
    <2>4. CopiesKnown(t)'
        BY <2>1, <2>3 DEF SessionKnown, CopiesKnown, CopyKnown, Adds
    <2>5. ImportsKnown(t)'
        <3> SUFFICES ASSUME NEW e \in DOMAIN t.imp
                     PROVE  /\ Registered(t, t.imp[e].model)'
                            /\ t.imp[e].agent => Recorded(t, e)'.of = t.imp[e].model
            BY DEF ImportsKnown
        <3>1. /\ e \in Events /\ t.imp[e].model \in Models
              /\ Registered(t, t.imp[e].model)
              /\ t.imp[e].agent => Recorded(t, e).of = t.imp[e].model
            BY <2>1, SessionFields DEF SessionKnown, ImportsKnown
        <3>2. Registered(t, t.imp[e].model)'
            BY <3>1, <1>10 DEF Registered
        <3>3. t.imp[e].agent => Recorded(t, e)' = Recorded(t, e)
            BY <3>1, <1>8, LineageFacts DEF Recorded
        <3> QED
            BY <3>1, <3>2, <3>3
    <2> QED
        BY <2>4, <2>5 DEF SessionKnown
<1>13. SessionKnown(new)'
    BY <1>4, EmptyMap DEF SessionKnown, CopiesKnown, ImportsKnown
<1>14. \A q \in Senders : SessionKnown(session[q])'
    <2> TAKE q \in Senders
    <2>1. PICK t : t = session'[q]
        OBVIOUS
    <2>2. SessionKnown(t)'
        BY <2>1, <1>5, <1>12, <1>13
    <2> QED
        BY <2>1, <2>2
<1>15. SessionsApart'
    <2>1. DOMAIN new.copy = {}
        BY <1>4, EmptyMap
    <2> QED
        BY <2>1, <1>5, <1>7 DEF LineageInv, SessionsApart
<1>16. RelationsKnown'
    BY <1>7, <1>8, <1>9 DEF LineageInv, RelationsKnown
<1>17. RelationsAccounted'
    <2> SUFFICES ASSUME NEW m \in Models
                 PROVE  /\ Len(edge'[m]) = IF relation'[m].known THEN 1 ELSE 0
                        /\ relation'[m].count <= Cardinality(ObservationsOf(m)')
                        /\ relation'[m].count = 0 => ObservationsOf(m)' = {}
                        /\ relation'[m].known /\ m \notin past'.entwined =>
                            /\ relation'[m].count = Cardinality(ObservationsOf(m)')
                            /\ edge'[m] = <<Shown(relation'[m])>>
        BY DEF RelationsAccounted, Shown
    <2>1. CASE m \in DOMAIN s.copy
        BY <2>1, <1>7, <1>9
    <2>2. CASE m \notin DOMAIN s.copy
        <3>1. ObservationsOf(m)' = ObservationsOf(m)
            BY <2>2, <1>8
        <3> QED
            BY <3>1, <2>2, <1>7, <1>8 DEF LineageInv, LineageHolds, RelationsAccounted
    <2> QED
        BY <2>1, <2>2
<1>18. DriftIsUndeclared'
    <2> SUFFICES ASSUME NEW e \in Events, observed'[e].of \in Models \ past'.declared
                 PROVE  observed'[e].drift
        BY DEF DriftIsUndeclared
    <2>1. CASE e \in DOMAIN s.obs
        <3>1. /\ s.obs[e].of \in DOMAIN s.copy
              /\ ~s.obs[e].drift => s.copy[s.obs[e].of].expected
            BY <2>1, <1>2 DEF SessionKnown, CopiesKnown
        <3> QED
            BY <3>1, <2>1, <1>7, <1>8
    <2>2. CASE e \notin DOMAIN s.obs
        BY <2>2, <1>7, <1>8 DEF LineageInv, LineageHolds, DriftIsUndeclared
    <2> QED
        BY <2>1, <2>2
<1>19. TelemetryAccounted'
    <2>0. TelemetryAccounted /\ DOMAIN s.imp \subseteq Events
        BY <1>2, SessionFields DEF LineageInv, LineageHolds
    <2>2. \A e \in DOMAIN s.imp : s.imp[e] # NoSpan
        BY <1>2, SessionFields, LineageFacts
    <2>7. PICK known, set : known = UNION reported /\ set = DOMAIN s.imp
        OBVIOUS
    <2>8. \A e \in Events : imported[e] # NoSpan <=> e \in known
        BY <2>0, <2>7 DEF TelemetryAccounted
    <2>1. UNION reported' = known \cup set
        <3>1. reported' = reported \cup ({set} \ {{}})
            BY <2>7, <1>6
        <3> QED
            BY <3>1, <2>7, UnionAdds
    <2>9. known \subseteq Events /\ set \subseteq Events /\ UNION reported' = known \cup set
        <3>1. {e \in Events : imported[e] # NoSpan} = known
            BY <2>0, <2>7 DEF TelemetryAccounted
        <3>2. known \subseteq Events
            BY <3>1
        <3>3. set \subseteq Events
            BY <2>0, <2>7
        <3> QED
            BY <3>2, <3>3, <2>1
    <2>3. {e \in Events : imported'[e] # NoSpan} = UNION reported'
        <3>1. \A e \in Events : imported'[e] # NoSpan <=> e \in known \cup set
            BY <2>2, <2>7, <2>8, <1>8
        <3> QED
            BY <2>9, <3>1
    <2>4. DOMAIN s.imp \cap UNION reported = {}
        BY <2>0, <1>8 DEF TelemetryAccounted
    <2>5. \A a, b \in reported' : a = b \/ a \cap b = {}
        BY <2>0, <2>4, <1>6 DEF TelemetryAccounted
    <2>6. ASSUME NEW e \in UNION reported'
          PROVE  /\ registered'[imported'[e].model] # "absent"
                 /\ imported'[e].agent => observed'[e].of = imported'[e].model
        <3>1. CASE e \in DOMAIN s.imp
            <4>1. /\ imported'[e] = s.imp[e] /\ s.imp[e].model \in Models /\ e \in Events
                  /\ Registered(s, s.imp[e].model)
                  /\ s.imp[e].agent => Recorded(s, e).of = s.imp[e].model
                BY <3>1, <1>2, <1>8, SessionFields DEF SessionKnown, ImportsKnown
            <4>2. observed'[e] = Recorded(s, e)
                BY <4>1, <1>8 DEF Recorded
            <4> QED
                BY <4>1, <4>2, <1>10 DEF Registered
        <3>2. CASE e \notin DOMAIN s.imp
            <4>1. e \in UNION reported /\ e \in Events /\ imported'[e] = imported[e]
                BY <3>2, <2>7, <2>9, <1>8
            <4>2. /\ imported[e].model \in Models
                  /\ registered[imported[e].model] # "absent"
                  /\ imported[e].agent => observed[e].of = imported[e].model
                BY <4>1, <2>0, LineageFacts DEF TelemetryAccounted
            <4>3. imported[e].agent => observed'[e] = observed[e]
                BY <4>1, <4>2, <1>8, LineageFacts
            <4> QED
                BY <4>1, <4>2, <4>3, <1>10
        <3> QED
            BY <3>1, <3>2
    <2> QED
        BY <2>3, <2>5, <2>6 DEF TelemetryAccounted
<1>20. {m \in Models : registered'[m] = "approved"} \subseteq past'.approved
    BY <1>7, <1>10 DEF LineageInv, LineageHolds
<1> QED
    BY <1>11, <1>14, <1>15, <1>16, <1>17, <1>18, <1>19, <1>20 DEF LineageInv, LineageHolds

LEMMA LineageNext == LineageInv /\ (LineageArrives \/ LineageStep) => LineageInv'
BY Vouches, Begins, Ingests, Commits, RollsBack
   DEF LineageArrives, LineageStep, create_ai_resource, update_ai_resource

LEMMA UnchangedLineage == LineageInv /\ UNCHANGED lineagevars => LineageInv'
<1> SUFFICES ASSUME LineageInv, UNCHANGED lineagevars PROVE LineageInv'
    OBVIOUS
<1>1. UNCHANGED <<registered, relation, edge, observed, imported, reported, session, past>>
    BY DEF lineagevars
<1>2. \A m : ObservationsOf(m)' = ObservationsOf(m)
    BY <1>1 DEF ObservationsOf
<1>3. LineageTypes' /\ SessionsApart' /\ RelationsKnown'
    BY <1>1 DEF LineageInv, LineageTypes, IsSession, SessionsApart, RelationsKnown
<1>4. \A r \in Senders : SessionKnown(session[r])'
    BY <1>1, <1>2
       DEF LineageInv, SessionKnown, CopiesKnown, ImportsKnown, CopyKnown, LoadedKnown, Adds,
           Registered, Recorded
<1>5. LineageHolds'
    BY <1>1, <1>2
       DEF LineageInv, LineageHolds, RelationsAccounted, DriftIsUndeclared, TelemetryAccounted
<1> QED
    BY <1>3, <1>4, <1>5 DEF LineageInv

-----------------------------------------------------------------------------
(***************************************************************************)
(* Searches: the rows in order, and a page after those of before.          *)
(***************************************************************************)
\* The rows before one are finite, and fewer than those before a later one.
LEMMA RowsBefore ==
    ASSUME NEW rows, IsFiniteSet(rows), rows \subseteq Nat, NEW c \in Nat
    PROVE  /\ IsFiniteSet({k \in rows : k < c})
           /\ Cardinality({k \in rows : k < c}) \in Nat
           /\ \A d \in Nat : d <= c =>
                Cardinality({k \in rows : k < d}) <= Cardinality({k \in rows : k < c})
<1> DEFINE before(d) == {k \in rows : k < d}
<1>1. IsFiniteSet(before(c)) /\ Cardinality(before(c)) \in Nat
    BY FS_Subset, FS_CardinalityType
<1>2. ASSUME NEW d \in Nat, d <= c
      PROVE  Cardinality(before(d)) <= Cardinality(before(c))
    <2>1. before(d) \in SUBSET before(c)
        <3>1. \A k \in rows : k \in Nat /\ (k < d => k < c)
            BY <1>2
        <3> QED
            BY <3>1
    <2> QED
        BY <2>1, <1>1, FS_Subset
<1> QED
    BY <1>1, <1>2

\* Unless they are all of the rows, the first n are n, and they come before the
\* others.
LEMMA FirstCounts ==
    ASSUME NEW rows, IsFiniteSet(rows), rows \subseteq Nat, NEW n \in Nat
    PROVE  /\ IsFiniteSet(First(rows, n)) /\ First(rows, n) \subseteq rows
           /\ First(rows, n) # rows => Cardinality(First(rows, n)) = n
           /\ \A c \in rows \ First(rows, n), k \in First(rows, n) : k < c
<1> DEFINE before(c) == {k \in rows : k < c}
<1>1. First(rows, n) \in SUBSET rows
    BY DEF First
<1>2. IsFiniteSet(First(rows, n))
    BY <1>1, FS_Subset
<1>3. \A c \in rows : c \in First(rows, n) <=> Cardinality(before(c)) < n
    BY DEF First
<1>4. \A c \in rows : /\ c \in Nat
                      /\ IsFiniteSet(before(c))
                      /\ Cardinality(before(c)) \in Nat
                      /\ \A d \in Nat : d <= c => Cardinality(before(d)) <= Cardinality(before(c))
    BY RowsBefore
<1> HIDE DEF before
<1>5. ASSUME NEW c \in rows \ First(rows, n), NEW k \in First(rows, n) PROVE k < c
    <2>1. Cardinality(before(k)) < n /\ ~(Cardinality(before(c)) < n) /\ k \in rows
        BY <1>1, <1>3, <1>5
    <2>2. c <= k => Cardinality(before(c)) <= Cardinality(before(k))
        BY <1>4, <2>1
    <2> QED
        BY <1>4, <2>1, <2>2
<1>6. ASSUME First(rows, n) # rows PROVE Cardinality(First(rows, n)) = n
    <2>1. PICK x \in rows \ First(rows, n) : \A y \in rows \ First(rows, n) : x <= y
        <3>1. rows \ First(rows, n) \subseteq Nat /\ rows \ First(rows, n) # {}
            BY <1>1, <1>6
        <3> QED
            BY <3>1, Least
    <2>2. before(x) = First(rows, n)
        <3>1. ASSUME NEW k \in before(x) PROVE k \in First(rows, n)
            BY <2>1, <3>1, <1>4 DEF before
        <3>2. ASSUME NEW k \in First(rows, n) PROVE k \in before(x)
            BY <2>1, <3>2, <1>1, <1>5 DEF before
        <3> QED
            BY <3>1, <3>2
    <2>3. Cardinality(before(x)) \in Nat /\ Cardinality(before(x)) >= n
        BY <2>1, <1>3, <1>4
    <2>4. ASSUME Cardinality(before(x)) > n PROVE FALSE
        <3>1. before(x) # {} /\ before(x) \subseteq Nat
            <4>1. before(x) # {}
                BY <2>3, <2>4, FS_EmptySet
            <4> QED
                BY <4>1 DEF before
        <3> DEFINE up == {x - k : k \in before(x)}
        <3>2. \A k \in before(x) : k \in Nat /\ k < x /\ x - k \in Nat
            BY <1>4, <2>1 DEF before
        <3>3. up \subseteq Nat /\ up # {}
            BY <3>1, <3>2
        <3>4. PICK u \in up : \A v \in up : u <= v
            BY <3>3, Least
        <3>5. PICK m \in before(x) : u = x - m
            OBVIOUS
        <3>6. ASSUME NEW k \in before(x) PROVE k <= m
            <4>1. x - k \in up
                OBVIOUS
            <4>2. x - m <= x - k
                BY <4>1, <3>4, <3>5
            <4>3. k \in Nat /\ m \in Nat /\ x \in Nat
                BY <3>2, <2>1, <1>4
            <4> QED
                BY <4>2, <4>3
        <3>7. before(m) = before(x) \ {m}
            <4>1. \A k \in rows : k \in before(m) <=> k \in before(x) /\ k # m
                <5> TAKE k \in rows
                <5>1. k \in Nat /\ x \in Nat /\ m \in Nat /\ m < x
                    BY <1>4, <2>1, <3>2
                <5>2. k \in before(x) <=> k < x
                    BY DEF before
                <5>3. k \in before(m) <=> k < m
                    BY DEF before
                <5> QED
                    BY <5>1, <5>2, <5>3, <3>6
            <4> QED
                BY <4>1 DEF before
        <3>8. Cardinality(before(m)) = Cardinality(before(x)) - 1
            BY <3>7, <2>1, <1>4, FS_RemoveElement
        <3>9. m \in rows /\ Cardinality(before(m)) < n
            BY <2>2, <1>1, <1>3
        <3> QED
            BY <3>8, <3>9, <2>3, <2>4
    <2> QED
        BY <2>2, <2>3, <2>4
<1> QED
    BY <1>1, <1>2, <1>5, <1>6

\* The first o rows and the first n of the others are the first o + n.
LEMMA FirstOfRest ==
    ASSUME NEW rows, IsFiniteSet(rows), rows \subseteq Nat, NEW o \in Nat, NEW n \in Nat,
           NEW rest, rest = rows \ First(rows, o)
    PROVE  \A c : c \in First(rows, o + n) <=> c \in First(rows, o) \/ c \in First(rest, n)
<1> DEFINE head == First(rows, o)
           before(c) == {k \in rows : k < c}
           later(c) == {k \in rest : k < c}
<1>1. /\ IsFiniteSet(head) /\ head \subseteq rows
      /\ head # rows => Cardinality(head) = o
      /\ \A c \in rest, k \in head : k < c
    BY FirstCounts
<1>2. /\ rest = rows \ head /\ IsFiniteSet(rest)
      /\ rest \subseteq rows /\ rest \subseteq Nat
    BY FS_Difference
<1>3. \A c \in rows : /\ c \in Nat
                      /\ Cardinality(before(c)) \in Nat
                      /\ c \in head <=> Cardinality(before(c)) < o
                      /\ c \in First(rows, o + n) <=> Cardinality(before(c)) < o + n
    <2>1. \A c \in rows : c \in Nat /\ Cardinality(before(c)) \in Nat
        BY RowsBefore
    <2> QED
        BY <2>1 DEF First
<1>4. \A c \in rest : c \in First(rest, n) <=> Cardinality(later(c)) < n
    BY DEF First
<1> HIDE DEF head
<1>5. ASSUME NEW c \in rest
      PROVE  Cardinality(later(c)) \in Nat /\ Cardinality(before(c)) = o + Cardinality(later(c))
    <2>1. before(c) = head \cup later(c) /\ head \cap later(c) = {}
        BY <1>1, <1>2, <1>3, <1>5
    <2>2. IsFiniteSet(later(c)) /\ Cardinality(later(c)) \in Nat
        BY <1>2, <1>3, RowsBefore
    <2>3. Cardinality(head) = o
        BY <1>1, <1>5
    <2>4. Cardinality(head \cap later(c)) = 0
        BY <2>1, FS_EmptySet
    <2> HIDE DEF later, before
    <2>5. Cardinality(head \cup later(c)) = o + Cardinality(later(c)) - 0
        BY <2>2, <2>3, <2>4, <1>1, FS_Union
    <2> QED
        BY <2>1, <2>2, <2>5
<1>6. First(rest, n) \subseteq rest /\ First(rows, o + n) \subseteq rows
    BY DEF First
<1> HIDE DEF before, later
<1>7. ASSUME NEW c \in rows
      PROVE  c \in First(rows, o + n) <=> c \in head \/ c \in First(rest, n)
    <2>1. CASE c \in head
        BY <2>1, <1>3
    <2>2. CASE c \notin head
        <3>1. c \in rest
            BY <2>2, <1>2
        <3> QED
            BY <3>1, <2>2, <1>3, <1>4, <1>5
    <2> QED
        BY <2>1, <2>2
<1> QED
    BY <1>1, <1>2, <1>6, <1>7 DEF head

LEMMA FirstNone ==
    ASSUME NEW rows, IsFiniteSet(rows), rows \subseteq Nat
    PROVE  /\ First(rows, 0) = {}
           /\ First(rows, Cardinality(rows)) = rows
<1>1. Cardinality(rows) \in Nat
    BY FS_CardinalityType
<1>2. \A c \in rows : ~(Cardinality({k \in rows : k < c}) < 0)
    <2> TAKE c \in rows
    <2>1. c \in Nat
        OBVIOUS
    <2>2. Cardinality({k \in rows : k < c}) \in Nat
        BY <2>1, RowsBefore
    <2> QED
        BY <2>2
<1>3. ASSUME First(rows, Cardinality(rows)) # rows PROVE FALSE
    <2>1. /\ First(rows, Cardinality(rows)) \in SUBSET rows
          /\ Cardinality(First(rows, Cardinality(rows))) = Cardinality(rows)
        BY <1>1, <1>3, FirstCounts
    <2> QED
        BY <2>1, <1>3, FS_Subset
<1> QED
    BY <1>2, <1>3 DEF First

LEMMA SearchFacts ==
    ASSUME NEW rows, rows \subseteq Candidates
    PROVE  /\ IsFiniteSet(rows) /\ rows \subseteq Nat /\ Cardinality(rows) \in Nat
           /\ Cardinality(rows) <= Cardinality(Candidates)
           /\ Cardinality(Candidates) \in Nat
<1>1. IsFiniteSet(Candidates) /\ Candidates \subseteq Nat /\ rows \in SUBSET Candidates
    BY SearchAssumption
<1> QED
    BY <1>1, FS_Subset, FS_CardinalityType

\* A page tests as many candidates as there are, at most, and all of them unless it
\* is full or the scan limit is met.
LEMMA ConsumedBounds ==
    ASSUME NEW rows, rows \subseteq Candidates, NEW search
    PROVE  /\ Consumed(rows, search) \in 0..Cardinality(rows)
           /\ \/ Cardinality(rows) > MaxScan
              \/ PageFull(Results(rows, Consumed(rows, search), search))
              \/ First(rows, Consumed(rows, search)) = rows
<1> DEFINE most == Min({MaxScan, Cardinality(rows)})
           full == {n \in 1..most : Cardinality(Results(rows, n, search)) = Limit}
<1>1. Cardinality(rows) \in Nat /\ MaxScan \in Nat /\ Limit \in Nat
    BY SearchFacts, SearchAssumption
<1>2. /\ most \in 0..Cardinality(rows)
      /\ Cardinality(rows) <= MaxScan => most = Cardinality(rows)
    <2>1. PICK a, b : a = MaxScan /\ b = Cardinality(rows)
        OBVIOUS
    <2>2. PICK m \in {a, b} : \A y \in {a, b} : m <= y
        BY <1>1, <2>1
    <2>3. /\ Min({a, b}) \in {a, b}
          /\ \A y \in {a, b} : Min({a, b}) <= y
        BY <2>2 DEF Min
    <2> QED
        BY <1>1, <2>1, <2>3
<1> HIDE DEF most
<1>3. Consumed(rows, search) = IF full = {} THEN most ELSE Min(full)
    BY DEF Consumed, most
<1>4. CASE full = {}
    <2>1. Consumed(rows, search) = most
        BY <1>3, <1>4
    <2>2. First(rows, Cardinality(rows)) = rows
        BY SearchFacts, FirstNone
    <2> QED
        BY <1>1, <1>2, <2>1, <2>2
<1>5. CASE full # {}
    <2>1. full \subseteq Nat
        OBVIOUS
    <2>2. PICK n \in full : \A m \in full : n <= m
        BY <1>5, <2>1, Least
    <2>3. Min(full) \in full
        BY <2>2 DEF Min
    <2>4. Consumed(rows, search) \in full
        BY <1>3, <1>5, <2>3
    <2>5. /\ Consumed(rows, search) \in 1..most
          /\ Cardinality(Results(rows, Consumed(rows, search), search)) = Limit
        BY <2>4
    <2>6. PageFull(Results(rows, Consumed(rows, search), search))
        BY <1>1, <2>5 DEF PageFull
    <2> QED
        BY <1>1, <1>2, <2>5, <2>6
<1> QED
    BY <1>4, <1>5

LEMMA NoWalkFacts ==
    /\ NoWalk \in WalkRow
    /\ NoWalk.place = "idle" /\ NoWalk.search = 1
    /\ NoWalk.token = [search |-> 0, offset |-> 0]
    /\ NoWalk.results = [c \in Candidates |-> 0]
    /\ NoWalk.steady = {} /\ ~NoWalk.shifted
<1>1. 0 \in 0..Cardinality(Candidates)
    BY SearchFacts
<1> QED
    BY <1>1 DEF NoWalk, WalkRow

LEMMA WalkFields ==
    ASSUME SearchTypes
    PROVE  /\ walk = [place |-> walk.place, search |-> walk.search, token |-> walk.token,
                      results |-> walk.results, steady |-> walk.steady,
                      shifted |-> walk.shifted]
           /\ walk.place \in {"idle", "walking", "done"}
           /\ walk.search \in {1} \cup DOMAIN Variants
           /\ walk.token \in [search : {0} \cup DOMAIN Variants,
                              offset : 0..Cardinality(Candidates)]
           /\ walk.token.search \in {0} \cup DOMAIN Variants
           /\ walk.token.offset \in 0..Cardinality(Candidates)
           /\ walk.results \in [Candidates -> Nat]
           /\ walk.steady \subseteq Candidates
           /\ walk.shifted \in BOOLEAN
           /\ listed \subseteq Candidates /\ approved \subseteq Candidates
BY DEF SearchTypes, SearchTypeOK, WalkRow

\* What is to be shown of a walk after a step.
LEMMA WalkTypes ==
    ASSUME listed' \subseteq Candidates, approved' \subseteq Candidates,
           walk' \in WalkRow
    PROVE  SearchTypes'
BY DEF SearchTypes, SearchTypeOK, WalkRow

LEMMA InitSearch ==
    ASSUME NEW searched \in BOOLEAN, SearchInit(searched)
    PROVE  SearchInv
<1>1. /\ listed \subseteq Candidates /\ approved \subseteq Candidates
      /\ walk = NoWalk
    BY DEF SearchInit
<1> QED
    BY <1>1, NoWalkFacts
       DEF SearchInv, SearchTypes, SearchTypeOK, WalkKnown, ReturnedOnce, WalkRow


\* A step that changes candidates or exceptions, as Keep records it.
LEMMA SearchKept ==
    ASSUME SearchInv, Keep, part' = part,
           listed' \subseteq Candidates, approved' \subseteq Candidates
    PROVE  SearchInv'
<1>1. CASE walk.place = "idle"
    <2>1. walk = NoWalk /\ walk' = NoWalk
        BY <1>1 DEF Keep, SearchInv, WalkKnown
    <2>2. SearchTypes'
        BY <2>1, NoWalkFacts, WalkTypes
    <2> QED
        BY <2>1, <2>2, NoWalkFacts DEF SearchInv, WalkKnown, ReturnedOnce
<1>2. CASE walk.place # "idle"
    <2> DEFINE steady == Steady(walk.steady) \cap listed'
               shifted == walk.shifted \/ First(listed, walk.token.offset)
                                            # First(listed', walk.token.offset)
    <2>1. walk' = [walk EXCEPT !.steady = steady, !.shifted = shifted]
        BY <1>2 DEF Keep
    <2>2. SearchTypes
        BY DEF SearchInv
    <2>3. walk' = [place |-> walk.place, search |-> walk.search, token |-> walk.token,
                   results |-> walk.results, steady |-> steady, shifted |-> shifted]
        <3> HIDE DEF steady, shifted
        <3> QED
            BY <2>1, <2>2, WalkFields
    <2>4. /\ walk'.place = walk.place /\ walk'.search = walk.search
          /\ walk'.token = walk.token /\ walk'.results = walk.results
          /\ walk'.steady = steady
        <3> HIDE DEF steady, shifted
        <3> QED
            BY <2>3
    <2>5. walk'.shifted = shifted
        BY ONLY <2>3
    <2>6. steady \subseteq walk.steady /\ steady \subseteq listed'
        BY DEF Steady
    <2>7. SearchTypes'
        <3>1. walk' \in WalkRow
            <4>1. shifted \in BOOLEAN
                BY <2>2, WalkFields
            <4>2. steady \in SUBSET Candidates
                BY <2>2, <2>6, WalkFields
            <4> HIDE DEF steady, shifted
            <4> QED
                BY <2>2, <2>3, <4>1, <4>2, WalkFields DEF WalkRow
        <3> QED
            BY <3>1, WalkTypes
    <2>8. ASSUME ~walk'.shifted
          PROVE  ReturnedOnce' /\ (walk'.place = "done" => walk'.steady \subseteq Passed')
        <3>1. ~walk.shifted /\ Passed' = Passed
            <4>1. ~shifted
                BY <2>5, <2>8
            <4> QED
                BY <4>1, <2>4 DEF Passed
        <3>2. ReturnedOnce /\ (walk.place = "done" => walk.steady \subseteq Passed)
            BY <3>1 DEF SearchInv, WalkKnown
        <3>3. ASSUME NEW c \in walk'.steady, NEW s, s = walk'.search
              PROVE  walk'.results[c] = IF c \in Passed' /\ Permitted(c, s)' THEN 1 ELSE 0
            <4>1. /\ c \in walk.steady /\ s = walk.search
                  /\ \A search \in DOMAIN Variants :
                        Permitted(c, search)' = Permitted(c, search)
                BY <3>3, <2>4, <2>6 DEF Steady
            <4>2. walk.results[c] = IF c \in Passed /\ Permitted(c, s) THEN 1 ELSE 0
                BY <4>1, <3>2 DEF ReturnedOnce
            <4>3. CASE walk.token.search = 0
                <5>1. Passed = {}
                    BY <4>3, <2>2, WalkFields, SearchFacts, FirstNone
                       DEF SearchInv, WalkKnown, Passed
                <5> QED
                    BY <5>1, <4>2, <3>1, <2>4
            <4>4. CASE walk.token.search # 0
                <5>1. s \in DOMAIN Variants
                    BY <4>1, <4>4, <2>2, WalkFields DEF SearchInv, WalkKnown
                <5> QED
                    BY <5>1, <4>1, <4>2, <3>1, <2>4
            <4> QED
                BY <4>3, <4>4
        <3>4. ReturnedOnce'
            <4> SUFFICES ASSUME NEW c \in walk'.steady, NEW s, s = walk'.search
                         PROVE  walk'.results[c] =
                                    IF c \in Passed' /\ Permitted(c, s)' THEN 1 ELSE 0
                BY DEF ReturnedOnce, Permitted, Answers, Query
            <4> QED
                BY <3>3
        <3> QED
            BY <3>1, <3>2, <3>4, <2>4, <2>6
    <2>9. WalkKnown'
        BY <1>2, <2>4, <2>6, <2>8, NoWalkFacts DEF SearchInv, WalkKnown, NoWalk
    <2> QED
        BY <2>7, <2>9 DEF SearchInv
<1> QED
    BY <1>1, <1>2

LEMMA BeginsSearch ==
    ASSUME SearchInv, BeginSearch, part = "searches", part' = part
    PROVE  SearchInv'
<1>1. /\ listed' = listed /\ approved' = approved
      /\ walk' = [NoWalk EXCEPT !.place = "walking", !.steady = listed]
      /\ listed \subseteq Candidates /\ approved \subseteq Candidates
    BY DEF BeginSearch, SearchInv, SearchTypes, SearchTypeOK
<1>2. /\ walk'.place = "walking" /\ walk'.search = 1 /\ walk'.steady = listed
      /\ walk'.token = [search |-> 0, offset |-> 0]
      /\ walk'.results = [c \in Candidates |-> 0] /\ ~walk'.shifted
    BY <1>1 DEF NoWalk
<1>3. walk' \in WalkRow
    <2>1. listed \in SUBSET Candidates
        BY <1>1
    <2> QED
        BY <1>1, <2>1, NoWalkFacts DEF WalkRow
<1>4. SearchTypes'
    BY <1>1, <1>3, WalkTypes
<1>5. Passed' = {}
    BY <1>1, <1>2, SearchFacts, FirstNone DEF Passed
<1>6. ReturnedOnce'
    BY <1>1, <1>2, <1>5 DEF ReturnedOnce
<1> QED
    BY <1>1, <1>2, <1>4, <1>6, NoWalkFacts DEF SearchInv, WalkKnown


\* The candidates of a page follow those that the walk has passed.
LEMMA PageFollows ==
    ASSUME NEW rows, rows \subseteq Candidates, NEW offset \in 0..Cardinality(Candidates),
           NEW search, NEW rest, rest = rows \ First(rows, offset),
           NEW n, n = Consumed(rest, search), NEW next, next = offset + n
    PROVE  /\ n \in Nat /\ next \in 0..Cardinality(Candidates)
           /\ \A c : c \in First(rows, next) <=>
                        c \in First(rows, offset) \/ c \in First(rest, n)
           /\ \A c : c \notin First(rows, offset) \/ c \notin First(rest, n)
           /\ \/ Cardinality(rest) > MaxScan
              \/ PageFull(Results(rest, n, search))
              \/ First(rows, next) = rows
<1>1. /\ IsFiniteSet(rows) /\ rows \subseteq Nat /\ Cardinality(rows) \in Nat
      /\ Cardinality(rows) <= Cardinality(Candidates)
      /\ Cardinality(Candidates) \in Nat
    BY SearchFacts
<1>2. offset \in Nat
    BY <1>1
<1>3. /\ First(rows, offset) \subseteq rows
      /\ IsFiniteSet(First(rows, offset))
      /\ First(rows, offset) # rows => Cardinality(First(rows, offset)) = offset
    BY <1>1, <1>2, FirstCounts
<1>4. rest \subseteq Candidates /\ Cardinality(rest) \in Nat
    BY SearchFacts
<1>5. /\ n \in 0..Cardinality(rest)
      /\ \/ Cardinality(rest) > MaxScan
         \/ PageFull(Results(rest, n, search))
         \/ First(rest, n) = rest
    BY <1>4, ConsumedBounds
<1>6. n \in Nat
    BY <1>4, <1>5
<1>7. First(rows, next) = First(rows, offset) \cup First(rest, n)
    <2>1. IsFiniteSet(rows) /\ rows \subseteq Nat
        BY <1>1
    <2>2. \A c : c \in First(rows, offset + n) <=>
                    c \in First(rows, offset) \/ c \in First(rest, n)
        BY ONLY <2>1, <1>2, <1>6, rest = rows \ First(rows, offset), FirstOfRest
    <2> QED
        BY <2>2
<1>8. next \in 0..Cardinality(Candidates)
    <2>1. CASE rest = {}
        <3>1. n = 0
            BY <2>1, <1>5, FS_EmptySet
        <3> QED
            BY <3>1, <1>1, <1>2
    <2>2. CASE rest # {}
        <3>1. Cardinality(First(rows, offset)) = offset
            BY <2>2, <1>3
        <3>2. rows \cap First(rows, offset) = First(rows, offset)
            BY <1>3
        <3>3. Cardinality(rest) = Cardinality(rows) - Cardinality(rows \cap First(rows, offset))
            BY <1>1, FS_Difference
        <3>4. Cardinality(rest) = Cardinality(rows) - offset
            BY <3>1, <3>2, <3>3
        <3> QED
            BY <3>4, <1>1, <1>2, <1>5
    <2> QED
        BY <2>1, <2>2
<1>9. First(rest, n) \subseteq rest
    BY DEF First
<1>10. First(rest, n) = rest => First(rows, next) = rows
    BY <1>3, <1>7
<1> QED
    BY <1>3, <1>5, <1>6, <1>7, <1>8, <1>9, <1>10

LEMMA PagesSearch ==
    ASSUME SearchInv, NEW search \in DOMAIN Variants, SearchPage(search),
           part = "searches", part' = part, UNCHANGED <<clock, exception>>
    PROVE  SearchInv'
<1>1. PICK rest, n, page, offset, next :
            /\ offset = walk.token.offset
            /\ rest = listed \ First(listed, offset)
            /\ n = Consumed(rest, search)
            /\ page = Results(rest, n, search)
            /\ next = offset + n
    OBVIOUS
<1>2. /\ SearchTypes /\ WalkKnown
      /\ listed \subseteq Candidates /\ approved \subseteq Candidates
      /\ offset \in 0..Cardinality(Candidates)
    BY <1>1, WalkFields DEF SearchInv
<1>3. /\ n \in Nat /\ next \in 0..Cardinality(Candidates)
      /\ \A c : c \in First(listed, next) <=> c \in First(listed, offset) \/ c \in First(rest, n)
      /\ \A c : c \notin First(listed, offset) \/ c \notin First(rest, n)
      /\ \/ Cardinality(rest) > MaxScan
         \/ PageFull(page)
         \/ First(listed, next) = listed
    <2>1. /\ n \in Nat /\ next \in 0..Cardinality(Candidates)
          /\ \A c : c \in First(listed, next) <=> c \in First(listed, offset) \/ c \in First(rest, n)
          /\ \A c : c \notin First(listed, offset) \/ c \notin First(rest, n)
          /\ \/ Cardinality(rest) > MaxScan
             \/ PageFull(Results(rest, n, search))
             \/ First(listed, next) = listed
        <3>1. /\ rest = listed \ First(listed, offset)
              /\ n = Consumed(rest, search)
              /\ next = offset + n
            BY <1>1
        <3>2. listed \subseteq Candidates /\ offset \in 0..Cardinality(Candidates)
            BY <1>2
        <3> QED
            BY ONLY <3>1, <3>2, PageFollows
    <2>2. page = Results(rest, n, search)
        BY <1>1
    <2> QED
        BY <2>1, <2>2
<1> DEFINE results == [c \in Candidates |-> walk.results[c] + IF c \in page THEN 1 ELSE 0]
           exhausted == Cardinality(rest) <= MaxScan /\ ~PageFull(page)
           place == IF exhausted THEN "done" ELSE "walking"
           token == [search |-> search, offset |-> next]
<1>4. /\ walk.place = "walking"
      /\ walk.token.search \in {0, search}
      /\ walk' = [walk EXCEPT !.search = search, !.results = results, !.place = place,
                              !.token = token]
      /\ UNCHANGED <<kind, listed, approved>>
    BY <1>1 DEF SearchPage, Rest, NextOffset, TokenMatches
<1>5. walk' = [place |-> place, search |-> search, token |-> token, results |-> results,
               steady |-> walk.steady, shifted |-> walk.shifted]
    <2> HIDE DEF results, place, token
    <2> QED
        BY <1>2, <1>4, WalkFields
<1>6. /\ walk'.place = place /\ walk'.search = search /\ walk'.token = token
      /\ walk'.results = results /\ walk'.steady = walk.steady
    <2> HIDE DEF results, place, token
    <2> QED
        BY <1>5
<1>7. walk'.shifted = walk.shifted
    BY ONLY <1>5
<1>8. SearchTypes'
    <2>1. results \in [Candidates -> Nat]
        BY <1>2, WalkFields
    <2>2. token \in [search : {0} \cup DOMAIN Variants, offset : 0..Cardinality(Candidates)]
        BY <1>3
    <2>3. place \in {"walking", "done"}
        OBVIOUS
    <2> HIDE DEF results, place, token
    <2>4. walk' \in WalkRow
        BY <2>1, <2>2, <2>3, <1>2, <1>5, WalkFields DEF WalkRow
    <2> QED
        BY <2>4, <1>2, <1>4, WalkTypes
<1>9. Passed' = Passed \cup First(rest, n)
    <2>1. Passed' = First(listed, next)
        BY <1>4, <1>6 DEF Passed
    <2> QED
        BY <2>1, <1>1, <1>3 DEF Passed
<1>10. ASSUME ~walk'.shifted
       PROVE  ReturnedOnce' /\ (walk'.place = "done" => walk'.steady \subseteq Passed')
    <2>1. ReturnedOnce /\ walk.steady \subseteq listed /\ walk.steady \subseteq Candidates
        BY <1>2, <1>7, <1>10, WalkFields DEF WalkKnown
    <2>2. \A c : c \in page <=> c \in First(rest, n) /\ Permitted(c, search)
        BY <1>1 DEF Results
    <2>3. \A c : Permitted(c, search)' = Permitted(c, search)
        BY <1>4 DEF Permitted, Answers, Query, Exceptions, InForce
    <2>4. ASSUME NEW c \in walk.steady
          PROVE  walk.results[c] = IF c \in Passed /\ Permitted(c, search) THEN 1 ELSE 0
        <3>1. CASE walk.token.search = 0
            <4>1. Passed = {}
                BY <3>1, <1>2, SearchFacts, FirstNone DEF WalkKnown, Passed
            <4> QED
                BY <4>1, <2>1, <2>4 DEF ReturnedOnce
        <3>2. CASE walk.token.search = search
            <4>1. search # 0
                BY SearchAssumption
            <4>2. walk.search = search
                BY <4>1, <3>2, <1>2 DEF WalkKnown
            <4> QED
                BY <4>2, <2>1, <2>4 DEF ReturnedOnce
        <3> QED
            BY <3>1, <3>2, <1>4
    <2>5. ASSUME NEW c \in walk.steady
          PROVE  results[c] = IF c \in Passed' /\ Permitted(c, search)' THEN 1 ELSE 0
        <3>1. c \in Candidates
            BY <2>1, <2>5
        <3>2. results[c] = walk.results[c] + IF c \in page THEN 1 ELSE 0
            BY <3>1
        <3>3. ~(c \in Passed /\ c \in First(rest, n))
            BY <1>1, <1>3 DEF Passed
        <3> HIDE DEF results
        <3> QED
            BY <3>2, <3>3, <2>2, <2>3, <2>4, <2>5, <1>9
    <2>6. ReturnedOnce'
        <3> HIDE DEF results
        <3> SUFFICES ASSUME NEW c \in walk'.steady, NEW s, s = walk'.search
                     PROVE  walk'.results[c] =
                                IF c \in Passed' /\ Permitted(c, s)' THEN 1 ELSE 0
            BY DEF ReturnedOnce, Permitted, Answers, Query
        <3> QED
            BY <2>5, <1>6
    <2>7. ASSUME walk'.place = "done" PROVE walk'.steady \subseteq Passed'
        <3>1. exhausted
            BY <2>7, <1>6
        <3>2. First(listed, next) = listed
            <4>1. ~(Cardinality(rest) > MaxScan)
                <5>1. Cardinality(rest) \in Nat
                    BY <1>1, <1>2, SearchFacts
                <5> QED
                    BY <5>1, <3>1, SearchAssumption
            <4> QED
                BY <4>1, <3>1, <1>3
        <3> QED
            BY <3>2, <2>1, <1>4, <1>6 DEF Passed
    <2> QED
        BY <2>6, <2>7
<1>11. WalkKnown'
    <2>1. walk'.place # "idle" /\ part' = "searches"
        BY <1>6
    <2>2. walk'.steady \subseteq listed'
        BY <1>2, <1>4, <1>6 DEF WalkKnown
    <2>3. walk'.token.search = search /\ search # 0
        BY <1>6, SearchAssumption
    <2> HIDE DEF results, place, token
    <2> QED
        BY <2>1, <2>2, <2>3, <1>6, <1>10 DEF WalkKnown
<1> QED
    BY <1>8, <1>11 DEF SearchInv

\* A step that leaves the search alone, and exceptions too if a walk is under way.
LEMMA UnchangedSearch ==
    ASSUME SearchInv, UNCHANGED <<searchvars, part>>,
           UNCHANGED <<clock, exception>> \/ part # "searches"
    PROVE  SearchInv'
<1>1. UNCHANGED <<kind, listed, approved, walk, part>>
    BY DEF searchvars
<1>2. SearchTypes'
    BY <1>1 DEF SearchInv, SearchTypes, SearchTypeOK
<1>3. ReturnedOnce => ReturnedOnce'
    <2>1. CASE UNCHANGED <<clock, exception>>
        BY <1>1, <2>1 DEF ReturnedOnce, Passed, Permitted, Answers, Query, Exceptions, InForce
    <2>2. CASE part # "searches"
        <3>1. walk'.steady = {}
            BY <1>1, <2>2, NoWalkFacts DEF SearchInv, WalkKnown
        <3> QED
            BY <3>1 DEF ReturnedOnce
    <2> QED
        BY <2>1, <2>2
<1>4. WalkKnown'
    BY <1>1, <1>3 DEF SearchInv, WalkKnown, Passed, NoWalk
<1> QED
    BY <1>2, <1>4 DEF SearchInv

LEMMA SearchMoves == SearchInv /\ [Next]_vars => SearchInv'
<1> SUFFICES ASSUME SearchInv, [Next]_vars PROVE SearchInv'
    OBVIOUS
<1>1. listed \subseteq Candidates /\ approved \subseteq Candidates
    BY DEF SearchInv, SearchTypes, SearchTypeOK
<1>2. part' = part
    BY DEF Next, vars
<1>3. CASE Searches
    <2>1. part = "searches" /\ UNCHANGED <<clock, exception>>
        BY <1>3 DEF Searches, evars
    <2>2. ASSUME NEW c \in Candidates, CandidateChanges(c) PROVE SearchInv'
        <3>1. Keep
            BY <2>2 DEF CandidateChanges
        <3>2. listed' \subseteq Candidates /\ approved' \subseteq Candidates
            BY <1>1, <2>2 DEF CandidateChanges, AddCandidate, SetActive, SetApproved
        <3> QED
            BY <3>1, <3>2, <1>2, SearchKept
    <2> QED
        BY <2>1, <2>2, <1>2, <1>3, BeginsSearch, PagesSearch DEF Searches
<1>4. CASE ExceptionChanges
    BY <1>1, <1>2, <1>4, SearchKept DEF ExceptionChanges
<1>5. CASE Accounts \/ Governs \/ Inventory \/ UNCHANGED vars
    BY <1>2, <1>5, UnchangedSearch DEF Accounts, Governs, Inventory, vars, evars
<1> QED
    BY <1>3, <1>4, <1>5 DEF Next

LEMMA SearchHolds == SearchInv => SearchCovers
BY DEF SearchInv, WalkKnown, ReturnedOnce, SearchCovers

-----------------------------------------------------------------------------
(***************************************************************************)
(* The parts together: a step of one leaves the others' state alone.       *)
(***************************************************************************)
Parts == AccountsInv /\ IdentityInv /\ ExceptionsInv /\ LineageInv /\ SearchInv

LEMMA AccountsStep ==
    AccountsInv /\ [Next]_vars => AccountsInv'
<1>1. [Next]_vars => AdminStarts \/ AdminCommits \/ Tick \/ UNCHANGED svars
    BY DEF Next, Accounts, Governs, Searches, ExceptionChanges, Inventory, vars
<1> QED
    BY <1>1, StartsAdmin, CommitsAdmin, TickAccounts, UnchangedAccounts

LEMMA IdentitiesStep ==
    IdentityInv /\ [Next]_vars => IdentityInv'
<1>1. [Next]_vars => IdentityArrives \/ IdentityStep \/ UNCHANGED ivars
    BY DEF Next, Accounts, Governs, Searches, ExceptionChanges, Inventory, vars
<1> QED
    BY <1>1, IdentityNext, UnchangedIdentity

LEMMA GovernanceMoves ==
    [Next]_vars => \/ ExceptionArrives \/ ExceptionStep \/ GovernanceArrives \/ GovernanceStep
                   \/ UNCHANGED evars
BY DEF Next, Accounts, Governs, Searches, ExceptionChanges, Inventory, vars

LEMMA LineageMoves ==
    LineageInv /\ [Next]_vars => LineageInv'
<1>1. [Next]_vars => LineageArrives \/ LineageStep \/ UNCHANGED lineagevars
    BY DEF Next, Accounts, Governs, Searches, ExceptionChanges, Inventory, vars
<1> QED
    BY <1>1, LineageNext, UnchangedLineage

\* The five inductive invariants hold of every reachable state.
THEOREM AccessInvariant == Spec => []Parts
<1>1. Init => Parts
    BY InitAccounts, InitIdentity, InitExceptions, InitLineage, InitSearch DEF Init, Parts
<1>2. Parts /\ [Next]_vars => Parts'
    BY AccountsStep, IdentitiesStep, GovernanceMoves, ExceptionsNext, UnchangedExceptions,
       LineageMoves, SearchMoves
       DEF Parts
<1> QED
    BY <1>1, <1>2, PTL DEF Spec

LEMMA PartsTyped == Parts => TypeOK \/ load \notin 0..MaxLoad
<1> SUFFICES ASSUME Parts PROVE TypeOK \/ load \notin 0..MaxLoad
    OBVIOUS
<1>1. LineageTypeOK
    <2>1. ASSUME NEW m \in Models PROVE relation[m].count \in 0..Cardinality(Events)
        <3>1. /\ relation[m].count \in Nat
              /\ relation[m].count <= Cardinality(ObservationsOf(m))
            BY DEF Parts, LineageInv, LineageTypes, Relation, LineageHolds, RelationsAccounted
        <3>2. IsFiniteSet(Events) /\ ObservationsOf(m) \in SUBSET Events
            BY LineageAssumption DEF ObservationsOf
        <3>3. /\ Cardinality(ObservationsOf(m)) \in Nat /\ Cardinality(Events) \in Nat
              /\ Cardinality(ObservationsOf(m)) <= Cardinality(Events)
            BY <3>2, FS_Subset, FS_CardinalityType
        <3> QED
            BY <3>1, <3>3
    <2>2. /\ observed \in [Events -> [of : Models \cup {Nothing}, drift : BOOLEAN]]
          /\ imported \in [Events -> [model : Models \cup {Nothing}, agent : BOOLEAN]]
        <3> DEFINE Observed == [of : Models \cup {Nothing}, drift : BOOLEAN]
                   Spans == [model : Models \cup {Nothing}, agent : BOOLEAN]
        <3>1. Observation \subseteq Observed /\ NoObservation \in Observed
            BY DEF Observation, NoObservation
        <3>2. Imported \subseteq Spans /\ NoSpan \in Spans
            BY DEF Imported, NoSpan
        <3>3. /\ observed \in [Events -> Observation \cup {NoObservation}]
              /\ imported \in [Events -> Imported \cup {NoSpan}]
            BY DEF Parts, LineageInv, LineageTypes
        <3> HIDE DEF Observed, Spans
        <3>4. observed \in [Events -> Observed] /\ imported \in [Events -> Spans]
            BY <3>1, <3>2, <3>3
        <3> QED
            BY <3>4 DEF Observed, Spans
    <2> QED
        BY <2>1, <2>2 DEF LineageTypeOK, Parts, LineageInv, LineageTypes
<1> QED
    BY <1>1
       DEF TypeOK, Parts, AccountsInv, AccountsTypes, IdentityInv, IdentityTypes,
           ExceptionsInv, ExceptionTypes, SearchInv, SearchTypes

\* Every variable of access control keeps its type: the tables, what requests,
\* handlers and sessions hold, and a client's walk through the pages of a search.
THEOREM AccessTypeOK == Spec => []TypeOK
<1> DEFINE Bounded == load \in 0..MaxLoad
<1>1. Init => Bounded
    BY LoadAssumption DEF Init
<1>2. Bounded /\ [Next]_vars => Bounded'
    BY LoadAssumption
       DEF Next, Accounts, Governs, Searches, ExceptionChanges, Inventory, Loaded, vars
<1>3. Spec => []Bounded
    <2> HIDE DEF Bounded
    <2> QED
        BY <1>1, <1>2, PTL DEF Spec
<1>4. Parts /\ Bounded => TypeOK
    BY PartsTyped
<1> QED
    BY <1>3, <1>4, AccessInvariant, PTL

\* However administrators rotate, complete and disable, the key issued last for an
\* active service account authenticates until it expires, and no key of a disabled
\* one does, not even one issued while it was being disabled
\* (authenticate_service_account).
THEOREM CredentialsStand == Spec => []CredentialsHold
<1>1. Parts => CredentialsHold
    BY AccountsHold DEF Parts
<1> QED
    BY <1>1, AccessInvariant, PTL

\* After a completed deprovisioning the user is inactive and in no group, whatever
\* retries, crashes and cancellations its job goes through, unless a client asked
\* for the opposite or wrote an old copy over it (identity_lifecycle.py).
THEOREM Deprovisioning == Spec => []DeprovisionSticks
<1>1. Parts => DeprovisionSticks
    BY IdentityHolds DEF Parts
<1> QED
    BY <1>1, AccessInvariant, PTL

\* A renewal is approved by somebody else than who asked for it, and what waits
\* for approval has its review task (policy_governance.py, v13.py, v14.py).
THEOREM Approvals == Spec => []ApprovalsGoverned
<1>1. Parts => ApprovalsGoverned
    BY ExceptionsHold DEF Parts
<1> QED
    BY <1>1, AccessInvariant, PTL

\* One policy more in the bundle never loosens what evaluate_policy_only answers,
\* whatever the query says, unless the exception in force is for that policy.
THEOREM Restriction == Spec => []PoliciesOnlyRestrict
<1>1. Parts => PoliciesOnlyRestrict
    BY ExceptionsRestrict DEF Parts
<1> QED
    BY <1>1, AccessInvariant, PTL

\* A walk through the pages of a search has returned each candidate that was there
\* and permitted all along exactly once when it ends, whatever the page limit and
\* the scan limit and whatever changed between its pages, unless a row before the
\* offset of a token came or went (search_subjects, _page_results).
THEOREM SearchesCover == Spec => []SearchCovers
<1>1. Parts => SearchCovers
    BY SearchHolds DEF Parts
<1> QED
    BY <1>1, AccessInvariant, PTL

\* The counts, edges and drift of relationships, and the events that telemetry
\* imports, agree after every commit and rollback (ai_resources.py,
\* genai_telemetry.py).
THEOREM Lineage == Spec => []LineageHolds
<1>1. Parts => LineageHolds
    BY DEF Parts, LineageInv
<1> QED
    BY <1>1, AccessInvariant, PTL

\* A key that was revoked or has expired never authenticates again, whatever lives
\* the requests gave to the keys and whatever overlapped; one that was retired does
\* not while a key issued after it works, unless rotations overlapped.  A revoked
\* exception is never active again (complete_rotation, revoke_policy_exception).
THEOREM Withdrawal == Spec => WithdrawnStaysOut
<1> DEFINE Revoked == exception.known /\ ~exception.active => ~exception'.active
           Retired == \A c \in Credentials :
                cred[c].status # "absent" /\ ~authenticate_service_account(c) =>
                    /\ Gone(c) => ~authenticate_service_account(c)'
                    /\ Superseded(c) => ~authenticate_service_account(c)' \/ overlapped
<1>1. Parts /\ [Next]_vars => Retired
    <2>1. [Next]_vars => AdminStarts \/ AdminCommits \/ Tick \/ UNCHANGED svars
        BY DEF Next, Accounts, Governs, Searches, ExceptionChanges, Inventory, vars
    <2> QED
        BY <2>1, AccountsStayOut DEF Parts, StaysOut, Issued
<1>2. Parts /\ [Next]_vars => Revoked
    <2>1. UNCHANGED evars => Revoked
        BY DEF evars
    <2> QED
        BY <2>1, GovernanceMoves, ExceptionsStayOut DEF Parts
<1>3. Parts /\ [Next]_vars => [Retired]_svars /\ [Revoked]_evars
    BY <1>1, <1>2
<1> QED
    BY <1>3, AccessInvariant, PTL
       DEF Spec, WithdrawnStaysOut, RetiredStaysOut, RevokedStaysOut
=============================================================================
