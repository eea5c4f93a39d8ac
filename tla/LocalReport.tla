---------------------------- MODULE LocalReport -----------------------------
(* The operator's daily report: a process reads the coverage of Bronze, its    *)
(* duplicates and the run manifests from Trino in three queries, judges one    *)
(* day as of an instant it is given or takes, and saves the report under a     *)
(* file lock: an immutable revision, the Markdown and at last the JSON of the  *)
(* day. Two such processes may run, be killed, and judge as of the past.       *)
EXTENDS Naturals, FiniteSets

CONSTANTS
  Proc, CollectionRun,  \* reporting processes, and runs of the collector
  Slot,                 \* issue-grid slots of the report day
  MaxTick,              \* bound
  MaxReports            \* bound: reports begun

VARIABLES
  now,
  rows,      \* Bronze: [run, slot, whole: every category and no bad row, at]
  events,    \* run manifest: [run, says, at]
  proc,      \* [Proc -> the report it is making]
  lock,      \* holder of .report.lock, or none
  revisions, \* reports saved as revisions
  markdown,  \* the reports of the day's two files, as sets of at most one
  latest,
  begun

evidence == <<rows, events>>
files == <<revisions, markdown, latest>>
vars == <<now, evidence, proc, lock, files, begun>>

NoOne == "none"
Idle == [pc |-> "idle"]

Init ==
  /\ now = 0
  /\ rows = {} /\ events = {}
  /\ proc = [p \in Proc |-> Idle]
  /\ lock = NoOne
  /\ revisions = {} /\ markdown = {} /\ latest = {}
  /\ begun = 0

Tick ==
  /\ now < MaxTick
  /\ now' = now + 1
  /\ UNCHANGED <<evidence, proc, lock, files, begun>>

\* A run of the collector commits its rows of some slots at once, and only then
\* a terminal manifest event; a second event of the run may contradict it.
Load(run, slots, whole) ==
  /\ \A r \in rows : r.run # run
  /\ \A e \in events : e.run # run
  /\ rows' = rows \cup {[run |-> run, slot |-> s, whole |-> whole, at |-> now] :
                          s \in slots}
  /\ UNCHANGED <<now, events, proc, lock, files, begun>>

Record(run, says) ==
  /\ says = "publishable" => \E r \in rows : r.run = run
  /\ Cardinality({e \in events : e.run = run}) < 2
  /\ events' = events \cup {[run |-> run, says |-> says, at |-> now]}
  /\ UNCHANGED <<now, rows, proc, lock, files, begun>>

\* main: as_of is the instant before the first query, or an earlier one given.
Begin(p, asOf) ==
  /\ proc[p] = Idle /\ begun < MaxReports
  /\ begun' = begun + 1
  /\ proc' = [proc EXCEPT ![p] = [pc |-> "coverage", asOf |-> asOf]]
  /\ UNCHANGED <<now, evidence, lock, files>>

\* The coverage query of collect_evidence; `measured` is FALSE when Trino, its
\* time or its row limit failed the phase (_measure).
ReadCoverage(p, measured) ==
  /\ proc[p].pc = "coverage"
  /\ proc' = [proc EXCEPT ![p] =
       [pc |-> "manifests", asOf |-> @.asOf, measured |-> measured,
        rows |-> IF measured THEN {r \in rows : r.at <= @.asOf} ELSE {}]]
  /\ UNCHANGED <<now, evidence, lock, files, begun>>

\* What a manifest event says: SUCCESS, publishable and reconciled; the same with
\* counts that disagree; COALESCED; or anything else.
Says == {"publishable", "unreconciled", "coalesced", "other"}

EventsOf(run, known) == {e \in known : e.run = run}
Terminal(run, known) ==
  {e \in EventsOf(run, known) : \A f \in EventsOf(run, known) : f.at <= e.at}
Coalesced(run, known) == \E e \in EventsOf(run, known) : e.says = "coalesced"

\* MUTANT Any of a run's events counts, not its last.
Accepted_AnyEvent(run, known) ==
  /\ ~Coalesced(run, known)
  /\ \E e \in EventsOf(run, known) : e.says = "publishable"

\* _manifest_state: the terminal event of a run is SUCCESS, publishable and
\* reconciled. Events of one instant that differ are ambiguous.
Accepted(run, known) ==
  /\ ~Coalesced(run, known)
  /\ {e.says : e \in Terminal(run, known)} = {"publishable"}

Ambiguous(known) ==
  \E run \in CollectionRun :
    ~Coalesced(run, known) /\ Cardinality(Terminal(run, known)) > 1

InvalidPublishable(known) ==
  \E run \in CollectionRun :
    /\ ~Coalesced(run, known) /\ Cardinality(Terminal(run, known)) = 1
    /\ \E e \in Terminal(run, known) : e.says = "unreconciled"

AcceptedRows(read, known) == {r \in read : Accepted(r.run, known)}

\* _accepted_coverage and _missing_check: no verdict without measured phases,
\* from contradictory manifests, from bad groups of an accepted run, or when
\* nothing was observed at all.
Missing(read, known, measured) ==
  LET accepted == AcceptedRows(read, known)
      observed == {r.slot : r \in accepted}
  IN IF ~measured \/ Ambiguous(known) \/ InvalidPublishable(known)
        \/ (\E r \in accepted : ~r.whole) \/ observed = {}
     THEN "unmeasured"
     ELSE IF observed = Slot THEN "pass" ELSE "fail"

\* The manifest query and build_report.
BuildReport(p, measured) ==
  /\ proc[p].pc = "manifests"
  /\ LET known == {e \in events : e.at <= proc[p].asOf}
     IN proc' = [proc EXCEPT ![p] =
          [pc |-> "built",
           report |-> [asOf |-> @.asOf,
                       missing |-> Missing(@.rows, known,
                                           measured /\ @.measured)]]]
  /\ UNCHANGED <<now, evidence, lock, files, begun>>

Moved(p, pc) == [proc EXCEPT ![p].pc = pc]

\* save_report: flock, and the revision first.
SaveRevision(p) ==
  /\ proc[p].pc = "built" /\ lock = NoOne
  /\ lock' = p
  /\ revisions' = revisions \cup {proc[p].report}
  /\ proc' = Moved(p, "locked")
  /\ UNCHANGED <<now, evidence, markdown, latest, begun>>

\* The day's files already tell of a later instant.
Outdated(report) == \E other \in latest : other.asOf > report.asOf

SaveMarkdown(p) ==
  /\ proc[p].pc = "locked"
  /\ IF Outdated(proc[p].report)
     THEN /\ lock' = NoOne
          /\ proc' = [proc EXCEPT ![p] = Idle]
          /\ UNCHANGED markdown
     ELSE /\ markdown' = {proc[p].report}
          /\ proc' = Moved(p, "described")
          /\ UNCHANGED lock
  /\ UNCHANGED <<now, evidence, revisions, latest, begun>>

SaveJson(p) ==
  /\ proc[p].pc = "described"
  /\ latest' = {proc[p].report}
  /\ lock' = NoOne
  /\ proc' = [proc EXCEPT ![p] = Idle]
  /\ UNCHANGED <<now, evidence, revisions, markdown, begun>>

\* The process is killed; its lock goes with it.
Kill(p) ==
  /\ proc[p] # Idle
  /\ proc' = [proc EXCEPT ![p] = Idle]
  /\ lock' = IF lock = p THEN NoOne ELSE lock
  /\ UNCHANGED <<now, evidence, files, begun>>

Next ==
  \/ Tick
  \/ \E run \in CollectionRun, slots \in SUBSET Slot, whole \in BOOLEAN :
       slots # {} /\ Load(run, slots, whole)
  \/ \E run \in CollectionRun, says \in Says : Record(run, says)
  \/ \E p \in Proc :
       \/ \E asOf \in 0..now - 1 : Begin(p, asOf)
       \/ \E measured \in BOOLEAN : ReadCoverage(p, measured)
       \/ \E measured \in BOOLEAN : BuildReport(p, measured)
       \/ SaveRevision(p)
       \/ SaveMarkdown(p)
       \/ SaveJson(p)
       \/ Kill(p)

Spec == Init /\ [][Next]_vars
-----------------------------------------------------------------------------
LastWord(run, asOf) ==
  {e \in events : /\ e.run = run /\ e.at <= asOf
                  /\ \A f \in events : f.run = run /\ f.at <= asOf => f.at <= e.at}

\* A slot a saved report calls covered was loaded whole before its instant, by
\* a run whose last word at that instant was a publishable success, though the
\* rows and the manifests were read by separate queries while runs went on.
CoveredIsBacked ==
  \A report \in revisions :
    report.missing = "pass" =>
      \A s \in Slot : \E r \in rows :
        /\ r.slot = s /\ r.whole /\ r.at <= report.asOf
        /\ {e.says : e \in LastWord(r.run, report.asOf)} = {"publishable"}
=============================================================================
