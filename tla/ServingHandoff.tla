--------------------------- MODULE ServingHandoff ---------------------------
(* The shared metadata tables of D1 (handoff and evidence), written by the    *)
(* export DAGs of several products, one publisher each: the row-preserving    *)
(* migration of an old table, and the upserts and prunes of one publication,  *)
(* sent in batches that D1 applies whole, any of which may fail.              *)
(* One table with several rows per product stands for the four pruned by key, *)
(* one with a single row for the two pruned by publication.                   *)
EXTENDS Integers, Sequences

CONSTANTS
    Product,
    Key,            \* column names, pattern ids, source ids
    MaxPubs,        \* bound: publications of all the products
    MaxFaults,      \* bound: requests that fail or whose answer is lost
    None

Blank == 0          \* the publication_id of a migrated row

HandoffAssumption == None \notin Nat

VARIABLES
    legacy,     \* the shared table still has its old shape
    rows,       \* the rows with several keys: [product, key, pub]
    display,    \* of each product, the publication of its single row, or None
    sources,    \* the source evidence: [product, key, pub]
    quality,    \* of each product, the publication of its quality row
    catalog,    \* of each product, the publication of its catalog row
    job,        \* of each product, its publisher
    good,       \* of each product, what its publication declared, if the last one was completed
    pubs, faults

vars == <<legacy, rows, display, sources, quality, catalog, job, good, pubs, faults>>
tables == <<legacy, rows, display, sources, quality>>

NoJob == [at |-> "idle", pub |-> None, keys |-> {}, shown |-> FALSE, before |-> None, sent |-> 0]

\* Old tables hold rows of every product, in their old shape.
Init ==
    /\ legacy \in BOOLEAN
    /\ rows = [product : Product, key : Key, pub : IF legacy THEN {Blank} ELSE {}]
    /\ display = [x \in Product |-> None]
    /\ sources = {}
    /\ quality = [x \in Product |-> None]
    /\ catalog = [x \in Product |-> None]
    /\ job = [x \in Product |-> NoJob]
    /\ good = [x \in Product |-> None]
    /\ pubs = 0 /\ faults = 0

Fault == faults < MaxFaults /\ faults' = faults + 1

\* The rows of one product, as this publication declares them.
Declared(x) == [product : {x}, key : job[x].keys, pub : {job[x].pub}]

Of(set, x) == {r \in set : r.product = x}
Upserted(set, x) == {r \in set : r.product # x \/ r.key \notin job[x].keys} \cup Declared(x)

\* The tables after one statement of the publisher of x.
Statement(s, x, db) ==
    CASE s = "upsert_rows"    -> [db EXCEPT !.rows = Upserted(@, x)]
      [] s = "upsert_display" -> [db EXCEPT !.display[x] = IF job[x].shown THEN job[x].pub ELSE @]
      [] s = "prune_rows"     -> [db EXCEPT !.rows = {r \in @ : r.product = x => r.key \in job[x].keys}]
      [] s = "stale_display"  -> [db EXCEPT !.display[x] = IF @ = job[x].pub THEN @ ELSE None]
      [] s = "upsert_sources" -> [db EXCEPT !.sources = Upserted(@, x)]
      [] s = "prune_sources"  -> [db EXCEPT !.sources = {r \in @ : r.product = x => r.key \in job[x].keys}]
      [] s = "upsert_quality" -> [db EXCEPT !.quality[x] = job[x].pub]

\* A row that is no longer declared is left alone.
MetaStatements_NoStale == <<"upsert_rows", "upsert_display", "prune_rows">>
MetaStatements == <<"upsert_rows", "upsert_display", "stale_display", "prune_rows">>
EvidenceStatements == <<"upsert_sources", "prune_sources", "upsert_quality">>

Statements(x) == IF job[x].at = "meta" THEN MetaStatements ELSE EvidenceStatements

\* The batch of the statements up to the k-th that have not been sent; there are
\* four of them at most.
Sends(n, k, x, db) == IF job[x].sent < n /\ n <= k THEN Statement(Statements(x)[n], x, db) ELSE db
Batch(k, x, db) == Sends(4, k, x, Sends(3, k, x, Sends(2, k, x, Sends(1, k, x, db))))

Apply(k, x) ==
    LET db == Batch(k, x, [rows |-> rows, display |-> display, sources |-> sources, quality |-> quality])
    IN  rows' = db.rows /\ display' = db.display /\ sources' = db.sources /\ quality' = db.quality

\* A new publication declares some keys, and a display row or none.
Start(x) ==
    /\ job[x].at = "idle" /\ pubs < MaxPubs
    /\ pubs' = pubs + 1
    /\ \E keys \in SUBSET Key \ {{}}, shown \in BOOLEAN :
         job' = [job EXCEPT ![x] = [at |-> "catalog", pub |-> pubs + 1, keys |-> keys, shown |-> shown,
                                    before |-> catalog[x], sent |-> 0]]
    /\ good' = [good EXCEPT ![x] = None]
    /\ UNCHANGED <<tables, catalog, faults>>

\* The request is answered, refused, or its answer is lost; a retried one ends
\* the same way.
Catalog(x) ==
    /\ job[x].at = "catalog"
    /\ \/ /\ catalog' = [catalog EXCEPT ![x] = job[x].pub]
          /\ job' = [job EXCEPT ![x].at = "schema"]
          /\ UNCHANGED faults
       \/ /\ Fault
          /\ catalog' \in {catalog, [catalog EXCEPT ![x] = job[x].pub]}
          /\ job' = [job EXCEPT ![x] = NoJob]
    /\ UNCHANGED <<tables, good, pubs>>

\* The registration is checked, then PRAGMA table_info.
ReadSchema(x) ==
    /\ job[x].at = "schema"
    /\ \/ /\ job' = [job EXCEPT ![x].at = IF legacy THEN "migrate" ELSE "meta"]
          /\ UNCHANGED faults
       \/ Fault /\ job' = [job EXCEPT ![x].at = "restore"]
    /\ UNCHANGED <<tables, catalog, good, pubs>>

\* Every row is copied, the columns that the table was read to lack with their
\* defaults.
Migrated == {[r EXCEPT !.pub = Blank] : r \in rows}

\* One request: rename, create, copy, drop; it is not repeated.
Migrate(x) ==
    /\ job[x].at = "migrate"
    /\ \/ /\ legacy' = FALSE /\ rows' = Migrated
          /\ job' = [job EXCEPT ![x].at = "meta"]
          /\ UNCHANGED faults
       \/ /\ Fault
          /\ \/ legacy' = FALSE /\ rows' = Migrated
             \/ UNCHANGED <<legacy, rows>>
          /\ job' = [job EXCEPT ![x].at = "restore"]
    /\ UNCHANGED <<display, sources, quality, catalog, good, pubs>>

\* The next batch of statements.
Send(x) ==
    /\ job[x].at \in {"meta", "evidence"}
    /\ \E k \in (job[x].sent + 1)..Len(Statements(x)) :
         \/ /\ Apply(k, x)
            /\ job' = [job EXCEPT ![x].sent = k]
            /\ UNCHANGED faults
         \/ /\ Fault
            /\ Apply(k, x) \/ UNCHANGED <<rows, display, sources, quality>>
            /\ job' = [job EXCEPT ![x].at = "restore"]
    /\ UNCHANGED <<legacy, catalog, good, pubs>>

\* After the metadata the evidence, which is the end of it.
Sent(x) ==
    /\ job[x].sent = Len(Statements(x))
    /\ \/ /\ job[x].at = "meta"
          /\ job' = [job EXCEPT ![x].at = "evidence", ![x].sent = 0]
          /\ UNCHANGED good
       \/ /\ job[x].at = "evidence"
          /\ good' = [good EXCEPT ![x] = [pub |-> job[x].pub, keys |-> job[x].keys, shown |-> job[x].shown]]
          /\ job' = [job EXCEPT ![x] = NoJob]
    /\ UNCHANGED <<tables, catalog, pubs, faults>>

\* The catalog row comes back, the metadata stays as it is.
Restore(x) ==
    /\ job[x].at = "restore"
    /\ \/ catalog' = [catalog EXCEPT ![x] = job[x].before] /\ UNCHANGED faults
       \/ Fault /\ UNCHANGED catalog
    /\ job' = [job EXCEPT ![x] = NoJob]
    /\ UNCHANGED <<tables, good, pubs>>

Next == \E x \in Product :
    \/ Start(x) \/ Catalog(x) \/ ReadSchema(x) \/ Migrate(x)
    \/ Send(x) \/ Sent(x) \/ Restore(x)

Spec == Init /\ [][Next]_vars

-----------------------------------------------------------------------------
\* The quality row is the last thing written, and readers take a product only
\* when its quality row and its catalog row name the same publication.
Open(x) == catalog[x] # None /\ quality[x] = catalog[x]

\* Once a publication is completed, readers have exactly its declaration: no
\* key that was dropped remains, whatever failed before and whatever the other
\* publishers do.  A migration decided on too early may blank the stamps.
CompletedIsDeclared ==
    \A x \in Product : good[x] # None =>
        /\ Open(x) /\ quality[x] = good[x].pub
        /\ {r.key : r \in Of(rows, x)} = good[x].keys
        /\ {r.pub : r \in Of(rows, x)} \subseteq {good[x].pub, Blank}
        /\ Of(sources, x) = [product : {x}, key : good[x].keys, pub : {good[x].pub}]
        /\ display[x] = IF good[x].shown THEN good[x].pub ELSE None

=============================================================================
