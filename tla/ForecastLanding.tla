--------------------------- MODULE ForecastLanding ---------------------------
(* KmaLanding.collect: the pages of every grid of one forecast issue, fetched  *)
(* once, kept in immutable raw objects and in a checkpoint that the next       *)
(* attempt resumes from.  The module has the actions of a collector; the       *)
(* Airflow DAG run (ForecastCollection) and the hosted collector               *)
(* (HostedCollection) drive them and say how the manifest is written.          *)
EXTENDS Naturals, FiniteSets

CONSTANTS
    Run,            \* landing runs: the run id of RunIdentity
    Collector,      \* processes that execute collect()
    GridCount,      \* grids of the request, in its order
    Pagination,     \* per published snapshot: the page count of every grid
    Refetch,        \* refetch_incomplete_grids
    SkipUnchanged,  \* skip_unchanged_checkpoints
    ShortPages,     \* whether a page may hold fewer rows than its total says
    None

Grid == 1..GridCount
Snapshot == DOMAIN Pagination
PageNo == 1..3

\* KmaRawObject: total stands for total_count and page_count, full says that
\* row_count is what they promise of the page, by tells raw keys apart (every
\* fetch has its own request id).
Page == [run : Run, grid : Grid, no : PageNo, total : PageNo, full : BOOLEAN,
         snapshot : Snapshot, by : Collector]

ASSUME LandingAssumption ==
    /\ GridCount \in Nat \ {0}
    /\ Pagination \in [Snapshot -> [Grid -> PageNo]]
    /\ {Refetch, SkipUnchanged, ShortPages} \subseteq BOOLEAN
    /\ 1 \in Snapshot

VARIABLES
    snapshot,   \* per run: what KMA serves for its issue
    raw,        \* the stored raw objects
    checkpoint, \* per run: the pages of the stored checkpoint
    lander      \* the collectors

landingVars == <<snapshot, raw, checkpoint, lander>>

Idle == [pc |-> "idle", run |-> None, loaded |-> {}, kept |-> {}, state |-> {}, got |-> {},
         grid |-> 1, no |-> 1, page |-> None, deferred |-> FALSE]
Failed(l) == [Idle EXCEPT !.pc = "failed", !.run = l.run]
Collecting == {"resume", "page", "save", "manifest"}

LandingInit ==
    /\ snapshot = [r \in Run |-> 1]
    /\ raw = {}
    /\ checkpoint = [r \in Run |-> {}]
    /\ lander = [c \in Collector |-> Idle]

OfGrid(pages, g) == {p \in pages : p.grid = g}
At(pages, g, n) == {p \in pages : p.grid = g /\ p.no = n}

\* _grid_complete: one total, the pages 1 .. total once each, and their rows.
GridComplete(pages) ==
    /\ pages # {}
    /\ \E total \in PageNo :
        /\ \A p \in pages : p.total = total /\ p.full
        /\ {p.no : p \in pages} = 1..total
        /\ Cardinality(pages) = total

CompleteOnly(pages) == UNION {OfGrid(pages, g) : g \in {h \in Grid : GridComplete(OfGrid(pages, h))}}

\* checkpoint_state is a dictionary by grid and page number.
Put(pages, p) == (pages \ At(pages, p.grid, p.no)) \cup {p}

\* The last page of the last grid leads to the manifest, the last page of a
\* grid to the next grid.
PastGrid(l) == IF l.grid < GridCount
               THEN [l EXCEPT !.pc = "page", !.grid = @ + 1, !.no = 1, !.page = None]
               ELSE IF l.deferred THEN Failed(l)
               ELSE [l EXCEPT !.pc = "manifest", !.page = None]

\* The total that the following pages have to repeat is the one of page one.
FirstTotal(l) == (CHOOSE p \in At(l.got, l.grid, 1) : TRUE).total

AfterPage(l) ==
    IF l.no < FirstTotal(l) THEN [l EXCEPT !.pc = "page", !.no = @ + 1, !.page = None]
    ELSE IF GridComplete(OfGrid(l.got, l.grid)) THEN PastGrid(l)
    ELSE Failed(l)     \* KmaLandingIncompleteError

\* Later pages must repeat the total of the first ("source pagination changed").
SameTotal(l, p) == l.no = 1 \/ p.total = FirstTotal(l)

-----------------------------------------------------------------------------
\* collect() starts and reads the checkpoint.
LoadCheckpoint(c, r) ==
    /\ lander[c].pc = "idle"
    /\ lander' = [lander EXCEPT ![c] = [Idle EXCEPT !.pc = "resume", !.run = r, !.loaded = checkpoint[r]]]
    /\ UNCHANGED <<snapshot, raw, checkpoint>>

\* Pages of a grid that was left incomplete are used again.
Trusted_Pages(pages) == {p \in pages : p \in raw}

\* Pages whose raw object is still there and unchanged are trusted; with
\* refetch_incomplete_grids only those of complete grids are.
Trusted(pages) == LET held == {p \in (IF Refetch THEN CompleteOnly(pages) ELSE pages) : p \in raw}
                  IN  IF Refetch THEN CompleteOnly(held) ELSE held

Resume(c) ==
    LET l == lander[c]
        kept == Trusted(l.loaded)
    IN  /\ l.pc = "resume"
        /\ lander' = [lander EXCEPT ![c] = [l EXCEPT !.pc = "page", !.loaded = {}, !.kept = kept, !.state = kept]]
        /\ checkpoint' = IF SkipUnchanged /\ kept = l.loaded THEN checkpoint
                         ELSE [checkpoint EXCEPT ![l.run] = kept]
        /\ UNCHANGED <<snapshot, raw>>

Wanted(c) == At(lander[c].kept, lander[c].grid, lander[c].no)

\* A page from the checkpoint.
ReusePage(c) ==
    LET l == lander[c] IN
    /\ l.pc = "page"
    /\ \E p \in Wanted(c) :
        IF SameTotal(l, p)
        THEN LET m == [l EXCEPT !.got = @ \cup {p}, !.state = Put(@, p)]
             IN  /\ lander' = [lander EXCEPT ![c] = AfterPage(m)]
                 /\ checkpoint' = IF SkipUnchanged THEN checkpoint
                                  ELSE [checkpoint EXCEPT ![l.run] = m.state]
        ELSE /\ lander' = [lander EXCEPT ![c] = Failed(l)]
             /\ UNCHANGED checkpoint
    /\ UNCHANGED <<snapshot, raw>>

\* What KMA answers for a page that it has.
Answer(c) ==
    LET l == lander[c]
        total == Pagination[snapshot[l.run]][l.grid]
    IN  {[run |-> l.run, grid |-> l.grid, no |-> l.no, total |-> total, full |-> f,
          snapshot |-> snapshot[l.run], by |-> c] :
            f \in {b \in BOOLEAN : l.no <= total /\ (b \/ ShortPages)}}

\* The payload becomes a raw object before anything is asked of it.
FetchPage(c) ==
    LET l == lander[c] IN
    /\ l.pc = "page" /\ Wanted(c) = {}
    /\ \E p \in Answer(c) :
        /\ raw' = raw \cup {p}
        /\ lander' = [lander EXCEPT ![c] =
                        IF SameTotal(l, p)
                        THEN [l EXCEPT !.pc = "save", !.page = p]
                        ELSE Failed(l)]
    /\ UNCHANGED <<snapshot, checkpoint>>

\* No page: an HTTP failure, a business error or a malformed answer.  A failure
\* that may be deferred gives up the grid, any other one the whole collection.
FetchFails(c, deferrable) ==
    LET l == lander[c] IN
    /\ l.pc = "page" /\ Wanted(c) = {}
    /\ lander' = [lander EXCEPT ![c] =
                    IF deferrable THEN PastGrid([l EXCEPT !.deferred = TRUE])
                    ELSE Failed(l)]
    /\ UNCHANGED <<snapshot, raw, checkpoint>>

\* The checkpoint holds the fetched page before the next one is asked for.
SavePage(c) ==
    LET l == lander[c]
        m == [l EXCEPT !.got = @ \cup {l.page}, !.state = Put(@, l.page)]
    IN  /\ l.pc = "save"
        /\ lander' = [lander EXCEPT ![c] = AfterPage(m)]
        /\ checkpoint' = [checkpoint EXCEPT ![l.run] = m.state]
        /\ UNCHANGED <<snapshot, raw>>

\* The process dies, or storage refuses a request after all retries.
LanderDies(c) ==
    /\ lander[c].pc \in Collecting
    /\ lander' = [lander EXCEPT ![c] = Failed(@)]
    /\ UNCHANGED <<snapshot, raw, checkpoint>>

CollectStep(c) == Resume(c) \/ ReusePage(c) \/ FetchPage(c) \/ SavePage(c)

\* KMA publishes other values, perhaps with another number of pages.
Republish(r) ==
    /\ snapshot[r] + 1 \in Snapshot
    /\ snapshot' = [snapshot EXCEPT ![r] = @ + 1]
    /\ UNCHANGED <<raw, checkpoint, lander>>

\* A raw object disappears from the bucket or is damaged.
LoseRaw(p) ==
    /\ p \in raw
    /\ raw' = raw \ {p}
    /\ UNCHANGED <<snapshot, checkpoint, lander>>

-----------------------------------------------------------------------------
LandingTypeOK ==
    /\ snapshot \in [Run -> Snapshot]
    /\ raw \subseteq Page
    /\ checkpoint \in [Run -> SUBSET Page]
    /\ \A c \in Collector :
        LET l == lander[c]
        IN  /\ l.pc \in Collecting \cup {"idle", "return", "failed", "done"}
            /\ l.run \in Run \cup {None}
            /\ l.loaded \subseteq Page /\ l.kept \subseteq Page /\ l.state \subseteq Page /\ l.got \subseteq Page
            /\ l.grid \in Grid /\ l.no \in PageNo
            /\ l.page \in Page \cup {None}
            /\ l.deferred \in BOOLEAN

\* What a manifest may list: every grid of the request, complete.
WholeIssue(pages) == \A g \in Grid : GridComplete(OfGrid(pages, g))
=============================================================================
