--------------------------- MODULE ConnectorCatalog ---------------------------
(***************************************************************************)
(* Connector scans and the catalogue they fill: the providers' listings in *)
(* connectors/, the registry's capability policy, ingest_connector of      *)
(* app/services/connectors.py, the classification and its human review     *)
(* (app/classification.py, app/main.py).                                   *)
(*                                                                         *)
(* One account of one connector.  A client walks through its listing page  *)
(* by page with the cursors it is given, while scheduled scans read the    *)
(* first page.  Items are numbered in the order of their keys.  Rows of    *)
(* connector_runs only report and are left out, as are graph edges and the *)
(* search index.                                                           *)
(***************************************************************************)
EXTENDS Naturals, Sequences, FiniteSets, SequencesExt

CONSTANTS
    Items,          \* 1..N, the items an account may have
    Scanners,       \* 0 is the client, the others run scheduled scans
    MaxItems,       \* max_items of a scan
    PageSize,       \* the page size of a provider that chooses it
    Evidence,       \* the sets of labels that are found in an item
    BasePolicy,     \* connector_capability_policy_json
    Policies        \* the policies an administrator may set

ASSUME CatalogAssumption ==
    /\ Cardinality(Items) \in Nat /\ Items = 1..Cardinality(Items)
    /\ 0 \in Scanners
    /\ MaxItems \in Nat \ {0}
    /\ PageSize \in Nat

VARIABLES
    style,      \* how the provider lists: by key, by page number, or in a delta
    listing,    \* the items, most recently updated first
    labels,     \* the labels that are found in each item
    policy,     \* the tenant's policy in force, if one was set
    scanner,    \* the scans under way
    asset,      \* rows of data_assets
    pending,    \* number of pending classification_reviews of each asset
    walk,       \* the client's walk through the listing
    hist        \* history: reviews resolved, scans that overlapped

cvars == <<style, listing, labels, policy, scanner, asset, pending, walk, hist>>

Present == ToSet(listing)

NoBatch == [records |-> {}, next |-> 0, complete |-> FALSE]
NoAsset == [known |-> FALSE, sensitivity |-> 0, confidence |-> 0, human |-> FALSE]
NoScan == [place |-> "idle", cursor |-> 0, batch |-> NoBatch,
           found |-> [i \in Items |-> {}], loaded |-> [i \in Items |-> NoAsset],
           reviewed |-> {}]

CatalogTypeOK ==
    /\ Present \subseteq Items
    /\ labels \in [Items -> Evidence]
    /\ \A s \in Scanners : scanner[s].place \in {"idle", "scan", "load", "commit"}
    /\ pending \in [Items -> 0..Cardinality(Scanners)]

CatalogInit ==
    /\ style \in {"keys", "pages", "delta"}
    /\ listing = [k \in 1..(Cardinality(Items) - 1) |-> k + 1]
    /\ labels \in [Items -> {{}, {"PII"}}]
    /\ policy = BasePolicy
    /\ scanner = [s \in Scanners |-> NoScan]
    /\ asset = [i \in Items |-> NoAsset]
    /\ pending = [i \in Items |-> 0]
    /\ walk = [place |-> "idle", cursor |-> 0, steady |-> {}, changed |-> FALSE]
    /\ hist = [resolved |-> {}, overlap |-> FALSE]

-----------------------------------------------------------------------------
(***************************************************************************)
(* Listings.  A batch has at most MaxItems records, a cursor for the rest  *)
(* and whether there is a rest.                                            *)
(***************************************************************************)
Lowest(set, n) == {i \in set : Cardinality({k \in set : k < i}) < n}
LastKey(set) == CHOOSE i \in set : \A k \in set : k <= i

\* Mutant: the listing is not asked for one row more than is returned.
LookAheadNone == MaxItems

LookAhead == MaxItems + 1

\* PostgreSQL, and S3 and Google Drive with their own tokens: the first keys
\* after the cursor.
ScanKeys(cursor) ==
    LET rows == Lowest({i \in Present : i > cursor}, LookAhead)
        complete == Cardinality(rows) <= MaxItems
        selected == Lowest(rows, MaxItems)
    IN  [records |-> selected, complete |-> complete,
         next |-> IF complete THEN 0 ELSE LastKey(selected)]

\* GitHub and GitLab: a page by its number, the cursor is the next number.
ScanPages(cursor) ==
    LET first == cursor * MaxItems + 1
        rows == SubSeq(listing, first, Min({first + MaxItems - 1, Len(listing)}))
        complete == Len(rows) < MaxItems
    IN  [records |-> ToSet(rows), complete |-> complete,
         next |-> IF complete THEN 0 ELSE cursor + 1]

\* SharePoint: the page is the provider's, of which MaxItems are kept.
ScanDelta(cursor) ==
    LET rest == {i \in Present : i > cursor}
        page == Lowest(rest, PageSize)
    IN  [records |-> Lowest(page, MaxItems), complete |-> page = rest,
         next |-> IF page = {} THEN cursor ELSE LastKey(page)]

ScanBatch(cursor) ==
    CASE style = "keys" -> ScanKeys(cursor)
      [] style = "pages" -> ScanPages(cursor)
      [] style = "delta" -> ScanDelta(cursor)

-----------------------------------------------------------------------------
(***************************************************************************)
(* Classification.                                                         *)
(***************************************************************************)
Internal == 1
Confidential == 2
Restricted == 3

\* heuristic_classify, outside the HR domain; confidence in hundredths.
heuristic_classify(found) ==
    IF found \cap {"Secrets", "Health", "PII"} # {}
    THEN [sensitivity |-> Restricted, confidence |-> 91]
    ELSE IF found \cap {"Financial", "Legal", "Source Code"} # {}
    THEN [sensitivity |-> Confidential, confidence |-> 82]
    ELSE [sensitivity |-> Internal, confidence |-> IF found = {} THEN 55 ELSE 72]

ReviewThreshold == 70

Low(confidence) == confidence < ReviewThreshold

-----------------------------------------------------------------------------
(***************************************************************************)
(* The capability policy, tested whenever a connector is built.            *)
(***************************************************************************)
Type == "this"

\* An empty allowlist allows every connector that is not denied.
evaluate_connector_policy ==
    /\ policy.allowed # {} => Type \in policy.allowed
    /\ Type \notin policy.denied

\* The tenant's policy has every key, so it replaces the deployment's.
set_connector_policy(new) ==
    /\ new.allowed \cap new.denied = {}
    /\ policy' = new
    /\ UNCHANGED <<style, listing, labels, scanner, asset, pending, walk, hist>>

-----------------------------------------------------------------------------
(***************************************************************************)
(* ingest_connector: one listing, then one transaction for its records.    *)
(***************************************************************************)
Busy == {s \in Scanners : scanner[s].place # "idle"}

\* A connector that the policy denies is refused before it is asked.
BeginScan(s, cursor) ==
    /\ scanner[s].place = "idle"
    /\ evaluate_connector_policy
    /\ scanner' = [scanner EXCEPT ![s] = [NoScan EXCEPT !.place = "scan",
                                                        !.cursor = cursor]]
    /\ hist' = [hist EXCEPT !.overlap = @ \/ Busy # {}]
    /\ UNCHANGED <<style, listing, labels, policy, asset, pending>>

BeginWalk ==
    /\ walk.place = "idle"
    /\ walk' = [place |-> "walking", cursor |-> 0, steady |-> Present,
                changed |-> FALSE]
    /\ UNCHANGED <<style, listing, labels, policy, scanner, asset, pending, hist>>

\* The next page, or the same one when its scan failed.
ScanNext ==
    /\ walk.place = "walking"
    /\ BeginScan(0, walk.cursor)
    /\ UNCHANGED walk

ScheduledScan(s) ==
    /\ s # 0
    /\ BeginScan(s, 0)
    /\ UNCHANGED walk

\* connector.scan
Scan(s) ==
    /\ scanner[s].place = "scan"
    /\ scanner' = [scanner EXCEPT ![s].place = "load",
                                  ![s].batch = ScanBatch(scanner[s].cursor),
                                  ![s].found = labels]
    /\ UNCHANGED <<style, listing, labels, policy, asset, pending, walk, hist>>

\* Mutant: any review of the asset will do, resolved or not.
ReviewedEver == {i \in Items : pending[i] > 0 \/ i \in hist.resolved}

\* The assets that have a pending review.
Reviewed == {i \in Items : pending[i] > 0}

\* The reads of the transaction: the assets that exist, and their reviews.
LoadRecords(s) ==
    /\ scanner[s].place = "load"
    /\ scanner' = [scanner EXCEPT ![s].place = "commit",
                        ![s].loaded = asset, ![s].reviewed = Reviewed]
    /\ UNCHANGED <<style, listing, labels, policy, asset, pending, walk, hist>>

\* The external id of an asset is unique: a record that was inserted by another
\* scan meanwhile fails the batch.
Duplicate(s) ==
    \E i \in scanner[s].batch.records : asset[i].known /\ ~scanner[s].loaded[i].known

Advance(s) ==
    walk' = IF s # 0 THEN walk
            ELSE IF scanner[s].batch.complete THEN [walk EXCEPT !.place = "done"]
            ELSE [walk EXCEPT !.cursor = scanner[s].batch.next]

\* A column is written only if the assigned value differs from the loaded one.
WrittenColumn(current, loaded, assigned) == IF assigned = loaded THEN current ELSE assigned

Classified(i, loaded, result) ==
    [known |-> TRUE,
     sensitivity |-> WrittenColumn(asset[i].sensitivity, loaded.sensitivity,
                             result.sensitivity),
     confidence |-> WrittenColumn(asset[i].confidence, loaded.confidence,
                            result.confidence),
     human |-> FALSE]

CommitBatch(s) ==
    /\ scanner[s].place = "commit"
    /\ ~Duplicate(s)
    /\ LET scan == scanner[s]
           records == scan.batch.records
           result == [i \in Items |-> heuristic_classify(scan.found[i])]
           added == {i \in records \ scan.reviewed : Low(result[i].confidence)}
       IN  /\ asset' = [i \in Items |-> IF i \in records
                            THEN Classified(i, scan.loaded[i], result[i])
                            ELSE asset[i]]
           /\ pending' = [i \in Items |-> IF i \in added THEN pending[i] + 1
                                                         ELSE pending[i]]
           /\ hist' = [hist EXCEPT !.resolved = @ \ records]
    /\ Advance(s)
    /\ scanner' = [scanner EXCEPT ![s] = NoScan]
    /\ UNCHANGED <<style, listing, labels, policy>>

EndScan(s) ==
    /\ scanner' = [scanner EXCEPT ![s] = NoScan]
    /\ UNCHANGED <<style, listing, labels, policy, asset, pending, walk, hist>>

RefuseDuplicate(s) ==
    /\ scanner[s].place = "commit" /\ Duplicate(s)
    /\ EndScan(s)

\* The provider refuses, the budget is spent, or the process dies: the
\* transaction is rolled back.
ScanFails(s) == scanner[s].place # "idle" /\ EndScan(s)

-----------------------------------------------------------------------------
\* resolve_classification_review; a resolution during a transaction overlaps.
resolve_classification_review(i, status) ==
    /\ pending[i] > 0
    /\ pending' = [pending EXCEPT ![i] = @ - 1]
    /\ asset' = IF status # "corrected" THEN asset
                ELSE [asset EXCEPT ![i].sensitivity = Confidential,
                                   ![i].confidence = 100, ![i].human = TRUE]
    /\ hist' = [hist EXCEPT !.resolved = @ \cup {i},
                            !.overlap = @ \/ \E s \in Scanners :
                                                scanner[s].place = "commit"]
    /\ UNCHANGED <<style, listing, labels, policy, scanner, walk>>

(***************************************************************************)
(* The provider: an item is added, updated with what it may now reveal, or *)
(* removed.                                                                *)
(***************************************************************************)
Changes(i, sequence) ==
    /\ listing' = sequence
    /\ walk' = IF walk.place # "walking" THEN walk
               ELSE [walk EXCEPT !.steady = @ \ {i}, !.changed = TRUE]
    /\ UNCHANGED <<style, policy, scanner, asset, pending, hist>>

Others(i) == RemoveAt(listing, CHOOSE k \in DOMAIN listing : listing[k] = i)

AddItem(i) ==
    /\ i \notin Present
    /\ Changes(i, <<i>> \o listing)
    /\ UNCHANGED labels

RemoveItem(i) ==
    /\ i \in Present
    /\ Changes(i, Others(i))
    /\ UNCHANGED labels

UpdateItem(i, found) ==
    /\ i \in Present /\ labels[i] \subseteq found
    /\ labels' = [labels EXCEPT ![i] = found]
    /\ Changes(i, <<i>> \o Others(i))

-----------------------------------------------------------------------------
CatalogArrives ==
    \/ BeginWalk
    \/ \E s \in Scanners : ScheduledScan(s) \/ ScanFails(s)
    \/ \E new \in Policies : set_connector_policy(new)
    \/ \E i \in Items :
        \/ AddItem(i) \/ RemoveItem(i)
        \/ \E found \in Evidence : UpdateItem(i, found)
        \/ \E status \in {"approved", "corrected"} :
            resolve_classification_review(i, status)

CatalogStep ==
    \/ ScanNext
    \/ \E s \in Scanners :
        Scan(s) \/ LoadRecords(s) \/ CommitBatch(s) \/ RefuseDuplicate(s)

-----------------------------------------------------------------------------
\* A walk through the cursors finds every item that was there all along,
\* whatever failed on the way: by keys also when other items come, go and
\* change; by page numbers only while nothing does; in a delta only if the
\* provider's pages are no larger than max_items, for it drops the rest.
WalkCovers ==
    walk.place = "done" =>
        \/ \A i \in walk.steady : asset[i].known
        \/ style = "pages" /\ walk.changed
        \/ style = "delta" /\ PageSize > MaxItems

\* An asset that was classified with low confidence has exactly one pending
\* review until a human resolves it, however often it is scanned, unless scans
\* or a resolution overlapped.
LowConfidenceReviewed ==
    hist.overlap \/ \A i \in Items :
        /\ pending[i] <= 1
        /\ asset[i].known /\ Low(asset[i].confidence) =>
            pending[i] = 1 \/ i \in hist.resolved
=============================================================================
