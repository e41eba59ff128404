------------------------------ MODULE Artifacts ------------------------------
(***************************************************************************)
(* Graph exports and governance evidence packages, which jobs write to     *)
(* storage: app/services/graph_exports.py, evidence_packages.py and        *)
(* export_sinks.py, and their endpoints in app/v15.py, v16.py and v17.py,  *)
(* composed with the job queue and with EvidenceSigning.                   *)
(*                                                                         *)
(* The job of artifact a is job a.  The recovery of stale jobs goes by     *)
(* age, so it may take the job of a slow worker, which then ends its work  *)
(* beside the next one.  Graph edges come and go.  Some rows are dated by  *)
(* the client that reports them, and any row may be committed after its    *)
(* date, so that rows still enter a window that has ended; receipts are    *)
(* purged from it.                                                         *)
(***************************************************************************)
EXTENDS JobQueue, EvidenceSigning, Integers, Sequences, FiniteSets, FiniteSetsExt

CONSTANTS
    Workers,
    Sinks,              \* URIs of external sinks, by their scheme
    EdgeIds,            \* ids of graph edges
    NumCategories,      \* categories of a package, in their order
    Purged,             \* the categories whose rows are purged
    MaxRecords,         \* max_records, and max_edges of an export
    MaxLoad,            \* bound: changes, failures, crashes and operator's acts
    MeetOnly            \* bound: artifacts are made together only if they meet

\* Jobs and workers are numbered, no sink is called none, and the foreign signer
\* is not the profile's.
ASSUME ArtifactsAssumption ==
    /\ MaxAttempts \in Nat \ {0}
    /\ Jobs \subseteq Nat \ {0}
    /\ Workers \subseteq Nat
    /\ EdgeIds \subseteq Nat
    /\ "none" \notin Sinks
    /\ NumCategories \in Nat
    /\ Purged \subseteq 1..NumCategories
    /\ MaxRecords \in Nat
    /\ MaxLoad \in Nat
    /\ MeetOnly \in BOOLEAN
    /\ Profile.signer # Foreign

VARIABLES
    artifact,   \* rows of graph_exports and governance_evidence_packages
    creator,    \* artifacts whose row is committed and job is not
    stored,     \* objects under the key of each artifact
    sunk,       \* objects at the external sinks
    run,        \* the handler in each worker
    edges,      \* graph_edges
    rows,       \* the number of rows of each category
    inside,     \* those of them in the window of each package
    flagged,    \* jobs with cancel_requested
    allowed,    \* sinks that the configuration allows
    serial,     \* packages generated so far: a package is dated and unique
    file,       \* a package outside the system
    load,
    past        \* history: jobs that expired in their last attempt, or had two runs

artifactvars == <<queue, artifact, creator, stored, sunk, run, edges, rows, inside,
          flagged, allowed, serial, file, load, past>>

Artifacts == Jobs
Categories == 1..NumCategories

NoRows == [c \in Categories |-> 0]
NoContent == [present |-> FALSE, edges |-> {}, sections |-> NoRows, serial |-> 0]

\* History in a row: the rows in the window at the request, and when they were read.
NoArtifact == [status |-> "absent", kind |-> "export", sink |-> "none",
               signed |-> FALSE, sha256 |-> NoContent, truncated |-> FALSE,
               window |-> NoRows, seen |-> NoRows]
NoRun == [job |-> 0, place |-> "idle", content |-> NoContent, truncated |-> FALSE,
          taken |-> 0, remaining |-> MaxRecords, seen |-> NoRows]

Payload(content) == [analytics |-> content.serial, records |-> content.sections]
NoFile == Document(Payload(NoContent), FALSE)

ArtifactTypes ==
    /\ QueueTypeOK
    /\ \A a \in Artifacts :
        /\ artifact[a].status \in {"absent", "pending", "running", "completed", "failed"}
        /\ artifact[a].kind \in {"export", "package"}
        /\ artifact[a].sink \in Sinks \cup {"none"}
    /\ creator \subseteq Artifacts
    /\ \A w \in Workers :
        /\ run[w].job \in Artifacts \cup {0}
        /\ run[w].place \in {"idle", "mark", "generate", "store", "commit", "return"}
        /\ run[w].taken \in 0..NumCategories
        /\ run[w].remaining \in 0..MaxRecords
    /\ edges \subseteq EdgeIds
    /\ flagged \subseteq Artifacts
    /\ allowed \subseteq Sinks
    /\ load \in 0..MaxLoad

ArtifactsInit ==
    /\ QueueInit
    /\ artifact = [a \in Artifacts |-> NoArtifact]
    /\ creator = {}
    /\ stored = [a \in Artifacts |-> NoContent]
    /\ sunk = [u \in Sinks |-> NoContent]
    /\ run = [w \in Workers |-> NoRun]
    /\ edges = EdgeIds \ {Max(EdgeIds)}
    /\ rows \in [Categories -> 0..MaxRecords]
    /\ inside = [a \in Artifacts |-> NoRows]
    /\ flagged = {}
    /\ allowed = Sinks
    /\ serial = 0
    /\ file = NoFile
    /\ load = 0
    /\ past = [expired |-> {}, doubled |-> {}]

Loaded == load < MaxLoad /\ load' = load + 1

-----------------------------------------------------------------------------
(***************************************************************************)
(* Requests: the row is committed, then the job is enqueued.               *)
(***************************************************************************)
\* The scheme is known, the bucket or host is on its list and, except for S3, a
\* workload identity is configured.
validate_export_sink(uri) == uri \in allowed

NextArtifact(a) ==
    /\ artifact[a].status = "absent"
    /\ \A b \in Artifacts : b < a => artifact[b].status # "absent"

\* Artifacts meet at a sink only: with MeetOnly, two of them are exports to it.
MeetAtSink(a, sink) ==
    MeetOnly => \A b \in Artifacts : b < a => sink # "none" /\ artifact[b].sink = sink

create_graph_export(a, sink) ==
    /\ NextArtifact(a)
    /\ MeetAtSink(a, sink)
    /\ sink # "none" => validate_export_sink(sink)
    /\ artifact' = [artifact EXCEPT ![a] = [NoArtifact EXCEPT !.status = "pending",
                                                              !.sink = sink]]
    /\ creator' = creator \cup {a}
    /\ UNCHANGED <<queue, stored, sunk, run, edges, rows, inside, flagged,
                   allowed, serial, file, load, past>>

\* The window of a package ends when it is requested.
create_evidence_package(a, signing_profile) ==
    /\ NextArtifact(a)
    /\ MeetAtSink(a, "none")
    /\ validate_signing_profile(signing_profile)
    /\ artifact' = [artifact EXCEPT ![a] = [NoArtifact EXCEPT !.status = "pending",
                                              !.kind = "package", !.window = rows,
                                              !.signed = signing_profile]]
    /\ inside' = [inside EXCEPT ![a] = rows]
    /\ creator' = creator \cup {a}
    /\ UNCHANGED <<queue, stored, sunk, run, edges, rows, flagged, allowed, serial, file,
                   load, past>>

EnqueueArtifact(a) ==
    /\ a \in creator
    /\ Enqueue(a)
    /\ creator' = creator \ {a}
    /\ UNCHANGED <<artifact, stored, sunk, run, edges, rows, inside, flagged,
                   allowed, serial, file, load, past>>

CreatorDies(a) ==
    /\ a \in creator
    /\ Loaded
    /\ creator' = creator \ {a}
    /\ UNCHANGED <<queue, artifact, stored, sunk, run, edges, rows, inside, flagged,
                   allowed, serial, file, past>>

-----------------------------------------------------------------------------
(***************************************************************************)
(* execute_graph_export and execute_evidence_package.                      *)
(***************************************************************************)
Goto(w, place) == run' = [run EXCEPT ![w].place = place]

Finished(a) == artifact[a].status = "completed"

\* Claim and load; a completed artifact is the answer.
LoadArtifact(w, a) ==
    /\ run[w].place = "idle"
    /\ \A v \in Workers : v < w => run[v].place # "idle"
    /\ a \notin flagged
    /\ Claim(a)
    /\ run' = [run EXCEPT ![w] = [NoRun EXCEPT !.job = a,
                    !.place = IF Finished(a) THEN "return" ELSE "mark"]]
    /\ UNCHANGED <<artifact, creator, stored, sunk, edges, rows, inside, flagged,
                   allowed, serial, file, load, past>>

MarkRunning(w) ==
    /\ run[w].place = "mark"
    /\ artifact' = [artifact EXCEPT ![run[w].job].status = "running"]
    /\ Goto(w, "generate")
    /\ UNCHANGED <<queue, creator, stored, sunk, edges, rows, inside, flagged,
                   allowed, serial, file, load, past>>

\* The first edges by id, and whether there are more.
SelectedEdges ==
    {e \in edges : Cardinality({f \in edges : f < e}) < MaxRecords}

\* Mutant: the rows up to the present.
WindowNow(a) == rows

Window(a) == inside[a]

AfterGenerate == "store"

GenerateExport(w) ==
    /\ run[w].place = "generate"
    /\ artifact[run[w].job].kind = "export"
    /\ run' = [run EXCEPT
            ![w].place = AfterGenerate,
            ![w].content = [NoContent EXCEPT !.present = TRUE,
                                             !.edges = SelectedEdges],
            ![w].truncated = Cardinality(edges) > MaxRecords]
    /\ UNCHANGED <<queue, artifact, creator, stored, sunk, edges, rows, inside,
                   flagged, allowed, serial, file, load, past>>

\* _package_sections asks for the rows of one category after the other, as long
\* as the limit allows; at the limit the rest counts as truncated.
TakeCategory(w) ==
    /\ run[w].place = "generate"
    /\ artifact[run[w].job].kind = "package"
    /\ run[w].taken < NumCategories
    /\ LET r == run[w]
           c == r.taken + 1
           found == Window(r.job)[c]
           amount == Min({found, r.remaining})
           sections == [r.content.sections EXCEPT ![c] = amount]
       IN  run' = [run EXCEPT ![w] = [r EXCEPT
                    !.taken = c,
                    !.content = [r.content EXCEPT !.sections = sections],
                    !.remaining = r.remaining - amount,
                    !.truncated = r.truncated \/ r.remaining = 0 \/ found > r.remaining,
                    !.seen = [r.seen EXCEPT ![c] = inside[r.job][c]]]]
    /\ UNCHANGED <<queue, artifact, creator, stored, sunk, edges, rows, inside,
                   flagged, allowed, serial, file, load, past>>

\* Analytics, manifest and signature.
GeneratePackage(w) ==
    /\ run[w].place = "generate"
    /\ artifact[run[w].job].kind = "package"
    /\ run[w].taken = NumCategories
    /\ LET content == [run[w].content EXCEPT !.present = TRUE, !.serial = serial + 1]
       IN  run' = [run EXCEPT ![w] = [run[w] EXCEPT !.place = AfterGenerate,
                                                    !.content = content]]
    /\ serial' = serial + 1
    /\ UNCHANGED <<queue, artifact, creator, stored, sunk, edges, rows, inside,
                   flagged, allowed, file, load, past>>

\* _store_export and _store_package: the object replaces one under its key.
StoreOwn(w) ==
    /\ run[w].place = "store"
    /\ artifact[run[w].job].sink = "none"
    /\ stored' = [stored EXCEPT ![run[w].job] = run[w].content]
    /\ Goto(w, "commit")
    /\ UNCHANGED <<queue, artifact, creator, sunk, edges, rows, inside, flagged,
                   allowed, serial, file, load, past>>

Storable(uri) == validate_export_sink(uri)

store_export_sink(w) ==
    /\ run[w].place = "store"
    /\ LET sink == artifact[run[w].job].sink
       IN  /\ sink # "none"
           /\ Storable(sink)
           /\ sunk' = [sunk EXCEPT ![sink] = run[w].content]
    /\ Goto(w, "commit")
    /\ UNCHANGED <<queue, artifact, creator, stored, edges, rows, inside, flagged,
                   allowed, serial, file, load, past>>

\* The row is completed; an error of the event is only logged.
CommitArtifact(w) ==
    /\ run[w].place = "commit"
    /\ artifact' = [artifact EXCEPT ![run[w].job].status = "completed",
                                    ![run[w].job].sha256 = run[w].content,
                                    ![run[w].job].truncated = run[w].truncated,
                                    ![run[w].job].seen = run[w].seen]
    /\ Goto(w, "return")
    /\ UNCHANGED <<queue, creator, stored, sunk, edges, rows, inside, flagged,
                   allowed, serial, file, load, past>>

-----------------------------------------------------------------------------
(***************************************************************************)
(* The end of a job.                                                       *)
(***************************************************************************)
\* A cancellation that came before the handler.
ArtifactCancelled(w) ==
    /\ run[w].place = "mark"
    /\ run[w].job \in flagged
    /\ queue' = [queue EXCEPT ![run[w].job].status = "cancelled"]
    /\ run' = [run EXCEPT ![w] = NoRun]
    /\ UNCHANGED <<artifact, creator, stored, sunk, edges, rows, inside, flagged,
                   allowed, serial, file, load, past>>

EndOf(a) == IF a \in flagged THEN "cancelled" ELSE "completed"

ArtifactReturns(w) ==
    /\ run[w].place = "return"
    /\ queue' = [queue EXCEPT ![run[w].job].status = EndOf(run[w].job)]
    /\ run' = [run EXCEPT ![w] = NoRun]
    /\ UNCHANGED <<artifact, creator, stored, sunk, edges, rows, inside, flagged,
                   allowed, serial, file, load, past>>

\* Mutant: the error is not recorded.
MarkErrorLost(a) == artifact[a].status

\* mark_graph_export_error and mark_evidence_package_error, in every attempt.
MarkError(a) == "failed"

\* A cancellation may come between the read of the row and its commit.
Raise(w) ==
    /\ artifact' = [artifact EXCEPT ![run[w].job].status = MarkError(run[w].job)]
    /\ \/ queue' = [queue EXCEPT ![run[w].job] = AfterFailure(@)]
       \/ /\ run[w].job \in flagged
          /\ queue' = [queue EXCEPT ![run[w].job].status = "cancelled"]
    /\ run' = [run EXCEPT ![w] = NoRun]
    /\ UNCHANGED <<creator, stored, sunk, edges, rows, inside, flagged, allowed,
                   serial, file, past>>

\* A limit is exceeded, a signature cannot be made, the storage fails.
ArtifactRaises(w) ==
    /\ run[w].place \in {"generate", "store"}
    /\ Loaded
    /\ Raise(w)

SinkRefused(w) ==
    /\ run[w].place = "store"
    /\ artifact[run[w].job].sink \in Sinks
    /\ ~Storable(artifact[run[w].job].sink)
    /\ Raise(w)
    /\ UNCHANGED load

ArtifactWorkerDies(w) ==
    /\ run[w].place # "idle"
    /\ Loaded
    /\ run' = [run EXCEPT ![w] = NoRun]
    /\ UNCHANGED <<queue, artifact, creator, stored, sunk, edges, rows, inside,
                   flagged, allowed, serial, file, past>>

\* recover_stale_jobs: a dead worker's job, or one that takes long.
Runs(a) == \E w \in Workers : run[w].job = a

RecoverArtifact(a) ==
    /\ Recover({a})
    /\ Runs(a) => Loaded
    /\ ~Runs(a) => UNCHANGED load
    /\ past' = [expired |-> past.expired
                    \cup {b \in {a} : AfterFailure(queue[b]).status = "failed"},
                doubled |-> past.doubled \cup {b \in {a} : Runs(b)}]
    /\ UNCHANGED <<artifact, creator, stored, sunk, run, edges, rows, inside,
                   flagged, allowed, serial, file>>

\* An operator cancels a job, at once if it waits, or retries one.
CancelJob(a) ==
    /\ queue[a].status # "absent"
    /\ a \notin flagged \/ queue[a].status = "pending"
    /\ Loaded
    /\ flagged' = flagged \cup {a}
    /\ \/ queue[a].status = "pending" /\ Cancel(a)
       \/ queue[a].status # "pending" /\ UNCHANGED queue
    /\ UNCHANGED <<artifact, creator, stored, sunk, run, edges, rows, inside, allowed,
                   serial, file, past>>

RetryJob(a) ==
    /\ Loaded
    /\ Retry(a)
    /\ flagged' = flagged \ {a}
    /\ past' = [past EXCEPT !.expired = @ \ {a}]
    /\ UNCHANGED <<artifact, creator, stored, sunk, run, edges, rows, inside, allowed,
                   serial, file>>

-----------------------------------------------------------------------------
(***************************************************************************)
(* The surroundings.                                                       *)
(***************************************************************************)
GraphChanges(e) ==
    /\ Loaded
    /\ edges' = IF e \in edges THEN edges \ {e} ELSE edges \cup {e}
    /\ UNCHANGED <<queue, artifact, creator, stored, sunk, run, rows, inside,
                   flagged, allowed, serial, file, past>>

Packages == {a \in Artifacts : artifact[a].kind = "package"}

\* A row comes, in the windows of some packages that were requested before.
AddRow(c) ==
    /\ Loaded
    /\ rows' = [rows EXCEPT ![c] = @ + 1]
    /\ \E late \in SUBSET Packages :
        inside' = [a \in Artifacts |->
            IF a \in late THEN [inside[a] EXCEPT ![c] = @ + 1] ELSE inside[a]]
    /\ UNCHANGED <<queue, artifact, creator, stored, sunk, run, edges, flagged,
                   allowed, serial, file, past>>

\* purge_expired_runtime_receipts: a row goes, from the windows it was in.
PurgeRow(c) ==
    /\ c \in Purged
    /\ rows[c] > 0
    /\ Loaded
    /\ rows' = [rows EXCEPT ![c] = @ - 1]
    /\ \E held \in SUBSET Packages :
        /\ \A a \in Packages :
            IF a \in held THEN inside[a][c] > 0 ELSE inside[a][c] < rows[c]
        /\ inside' = [a \in Artifacts |->
            IF a \in held THEN [inside[a] EXCEPT ![c] = @ - 1] ELSE inside[a]]
    /\ UNCHANGED <<queue, artifact, creator, stored, sunk, run, edges, flagged,
                   allowed, serial, file, past>>

\* A new configuration no longer allows a sink.
Disallow(uri) ==
    /\ uri \in allowed
    /\ Loaded
    /\ allowed' = allowed \ {uri}
    /\ UNCHANGED <<queue, artifact, creator, stored, sunk, run, edges, rows,
                   inside, flagged, serial, file, past>>

-----------------------------------------------------------------------------
(***************************************************************************)
(* Downloads.                                                              *)
(***************************************************************************)
ObjectOf(a) == IF artifact[a].sink = "none" THEN stored[a] ELSE sunk[artifact[a].sink]

Retrievable(a) == artifact[a].sink \in {"none", "s3"}

\* load_graph_export and load_evidence_package
Loads(a) ==
    /\ artifact[a].status = "completed"
    /\ Retrievable(a)
    /\ ObjectOf(a) = artifact[a].sha256

\* A package is downloaded and altered on its way to an auditor.  The rest of
\* the system does not read the file and is left at rest.
Quiet ==
    /\ file = NoFile
    /\ creator = {}
    /\ \A w \in Workers : run[w].place = "idle"
    /\ \A a \in Artifacts : queue[a].status \notin {"pending", "running"}

Downloaded(a) == Document(Payload(stored[a]), artifact[a].signed)

DownloadPackage(a) ==
    /\ Quiet
    /\ artifact[a].kind = "package" /\ Loads(a)
    /\ \E other \in {Payload([stored[a] EXCEPT !.serial = @ + 1])} :
        file' \in Altered(Downloaded(a), other)
    /\ UNCHANGED <<queue, artifact, creator, stored, sunk, run, edges, rows,
                   inside, flagged, allowed, serial, load, past>>

-----------------------------------------------------------------------------
Arrives ==
    \/ \E a \in Artifacts :
        \/ \E sink \in Sinks \cup {"none"} : create_graph_export(a, sink)
        \/ \E signing_profile \in BOOLEAN : create_evidence_package(a, signing_profile)
        \/ CreatorDies(a) \/ CancelJob(a) \/ RetryJob(a)
    \/ \E w \in Workers : ArtifactRaises(w) \/ ArtifactWorkerDies(w)
    \/ \E e \in EdgeIds : GraphChanges(e)
    \/ \E c \in Categories : AddRow(c) \/ PurgeRow(c)
    \/ \E u \in Sinks : Disallow(u)

WorkerStep(w) ==
    \/ \E a \in Artifacts : LoadArtifact(w, a)
    \/ MarkRunning(w) \/ GenerateExport(w) \/ TakeCategory(w) \/ GeneratePackage(w)
    \/ StoreOwn(w) \/ store_export_sink(w) \/ SinkRefused(w)
    \/ CommitArtifact(w) \/ ArtifactReturns(w) \/ ArtifactCancelled(w)

ArtifactsNext ==
    \/ file = NoFile /\ Arrives
    \/ file = NoFile /\ \E a \in Artifacts : EnqueueArtifact(a) \/ RecoverArtifact(a)
    \/ \E w \in Workers : WorkerStep(w)
    \/ \E a \in Artifacts : DownloadPackage(a)

ArtifactsSpec == ArtifactsInit /\ [][ArtifactsNext]_artifactvars

\* Requests and workers run to their end unless they die, and workers start.
ArtifactsFairSpec ==
    /\ ArtifactsSpec
    /\ \A a \in Artifacts : WF_artifactvars(EnqueueArtifact(a))
    /\ \A w \in Workers : WF_artifactvars(WorkerStep(w))

-----------------------------------------------------------------------------
(***************************************************************************)
(* Properties.                                                             *)
(***************************************************************************)
\* A completed artifact can be read back: the object is the one whose digest is
\* in the row, whatever crashed, failed or was retried, unless two runs of its
\* job overlapped or another export has the same sink.
CompletedIsStored ==
    \A a \in Artifacts :
        artifact[a].status = "completed" =>
            \/ ObjectOf(a) = artifact[a].sha256
            \/ a \in past.doubled
            \/ \E b \in Artifacts \ {a} : /\ artifact[b].sink = artifact[a].sink
                                          /\ artifact[b].sink # "none"

\* The rows of the categories before this one.
RowsBefore(window, category) ==
    LET before[c \in Categories] ==
            IF c = 1 THEN 0 ELSE before[c - 1] + window[c - 1]
    IN  before[category]

\* What the limit leaves of a category.
WithinLimit(window, c) == Max({0, Min({window[c], MaxRecords - RowsBefore(window, c)})})

\* A package has the rows that were in its window as it read them, category by
\* category and within the limit over all of them, and one that does not call
\* itself truncated has them all.  No row that was in the window at the request is
\* passed over, unless it was purged, however late and however often the package
\* was made.
PackageIsItsWindow ==
    \A a \in Artifacts :
        LET package == artifact[a]
            included == package.sha256.sections
        IN  package.kind = "package" /\ package.status = "completed" =>
            /\ \A c \in Categories : included[c] = WithinLimit(package.seen, c)
            /\ ~package.truncated => included = package.seen
            /\ \A c \in Categories \ Purged : package.seen[c] >= package.window[c]

\* What a completed artifact promises to contain is there.
ContentsHold == CompletedIsStored /\ PackageIsItsWindow

\* A package that verifies as trusted has the payload that was signed, whatever
\* was altered on its way.
TrustedIsGenuine ==
    file # NoFile /\ verify_evidence_package(file).trusted =>
        \E a \in Artifacts : file.payload = Payload(stored[a])

\* Nobody will work on the artifact: its job was never enqueued, waits for the
\* recovery that a starting worker makes, was cancelled, or ended without it, by
\* expiring in its last attempt or under another run.
Stranded(a) ==
    /\ ~Runs(a)
    /\ \/ queue[a].status = "absent" /\ a \notin creator
       \/ queue[a].status = "running"
       \/ queue[a].status = "cancelled"
       \/ queue[a].status = "pending" /\ a \in flagged
       \/ queue[a].status = "failed" /\ a \in past.expired
       \/ queue[a].status \in {"completed", "failed"} /\ a \in past.doubled

\* An artifact comes to an end, through failures, retries, crashes and recoveries,
\* unless it is stranded.
ArtifactEnds ==
    \A a \in Artifacts :
        []<>(artifact[a].status \notin {"pending", "running"} \/ Stranded(a))
=============================================================================
