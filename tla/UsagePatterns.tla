---------------------------- MODULE UsagePatterns ----------------------------
(* The life of one usage pattern: an example query a product's contract        *)
(* declares, which the gateway runs only while it carries a verification       *)
(* stamp. An author writes the SQL with an example value for its parameter; a  *)
(* gate in CI rejects a pattern the export could not bind; a tool runs it and  *)
(* stamps the YAML; each export publishes the row and, when the YAML has no    *)
(* stamp, runs the pattern itself on the table it publishes. The gate, the     *)
(* tool and the export each read the example with code of their own.           *)
(* The SQL is its edition and the relations it reads; an example is the form   *)
(* its value is written in; whether its value still selects rows is a choice.  *)
EXTENDS Naturals

CONSTANTS None,
          MaxEdits,       \* bound on the author's changes
          MaxExports      \* bound on the publications

\* Where the example `:name=value` stands, and how its value is written.
Place == {"comment", "hint", "splitHint"}
Form == {"quoted", "unclosed", "list", "openList", "plain", "bracket", "blank"}

Choice ==
  [shape      |-> {"own", "joined", "sibling", "denied", "failing"},
   place      |-> Place,
   form       |-> Form,
   default    |-> {None, "static", "relative", "malformed", "overflowing"},
   allowEmpty |-> BOOLEAN]

VARIABLES
  branch,       \* the pattern as the author has it
  main,         \* the merged pattern
  current,      \* the example's value selects rows of the published table
  publication,  \* the number of the last export, 0 before
  row           \* the published pattern row, None before

vars == <<branch, main, current, publication, row>>

----------------------------------------------------------------------------
\* Reading the example. The hint is a list of fields: the gate joins them with
\* a blank, the other two with a line break, and a value ends with its line.

GateBinds(p) == p.form \in {"quoted", "list", "plain", "bracket"}

ToolForms == {"quoted", "list", "plain", "bracket"}

ExportForms == {"quoted", "list", "plain", "unclosed", "openList"}

\* A mapping as the default is a relative date: it wins over every example, and
\* one that cannot be evaluated leaves the parameter unbound.
Relative(p) == p.default \in {"relative", "malformed", "overflowing"}

Binds(p, forms, defaults) ==
  IF defaults /\ Relative(p) THEN p.default = "relative"
  ELSE p.form \in forms /\ p.place # "splitHint"

ToolBinds(p) == Binds(p, ToolForms, TRUE)
LegacyBinds(p) == Binds(p, ExportForms, TRUE)

\* The atomic path verifies its candidate without the declared defaults.
AtomicBinds(p) == Binds(p, ExportForms, FALSE)

\* Rows of a bound pattern: a relative date is of today, an example may be old.
Selects(p, defaults) == current \/ (defaults /\ p.default = "relative")
Passes(p, defaults) ==
  p.shape # "failing" /\ (Selects(p, defaults) \/ p.allowEmpty)

Stamped(p, defaults, binds) ==
  IF p.stamp # None THEN p.stamp
  ELSE IF binds /\ Passes(p, defaults) THEN p.edition ELSE None

----------------------------------------------------------------------------
Init ==
  /\ branch = [edition |-> 1, shape |-> "own", place |-> "comment", form |-> "plain",
               default |-> None, allowEmpty |-> FALSE, stamp |-> None]
  /\ main = branch
  /\ current = TRUE
  /\ publication = 0
  /\ row = None

\* An edit of the SQL, its comments or its metadata leaves the stamp in place.
Author(f) ==
  /\ branch.edition <= MaxEdits
  /\ \E v \in Choice[f] \ {branch[f]} :
       branch' = [branch EXCEPT ![f] = v, !.edition = @ + 1]
  /\ UNCHANGED <<main, current, publication, row>>

Gate_NoExample(p) == p.default # "malformed"

\* The rules on the declared metadata, then those on an unverified pattern.
Gate(p) ==
  /\ p.default # "malformed"
  /\ p.stamp # None \/ GateBinds(p)

Merge ==
  /\ branch # main /\ Gate(branch)
  /\ main' = branch
  /\ UNCHANGED <<branch, current, publication, row>>

\* Values that occur together in the table replace an example that selects none.
Repair == ~Passes(main, TRUE) /\ current' = TRUE

WithStamp(p) == [p EXCEPT !.stamp = p.edition]

\* The stamping tool on a checkout of main runs an unstamped pattern of a
\* published product, again if it had to repair the example.
Stamp ==
  /\ branch = main /\ main.stamp = None /\ publication > 0
  /\ ToolBinds(main) /\ main.shape # "failing"
  /\ Repair \/ (Passes(main, TRUE) /\ UNCHANGED current)
  /\ main' = WithStamp(main)
  /\ branch' = main'
  /\ UNCHANGED <<publication, row>>

\* The recent window the table holds moves on, or new rows match again.
Age ==
  /\ current' = ~current
  /\ UNCHANGED <<branch, main, publication, row>>

Relations(p) ==
  CASE p.shape \in {"own", "failing"} -> {"own"}
    [] p.shape = "joined" -> {"own", "sibling"}
    [] p.shape = "sibling" -> {"sibling"}
    [] p.shape = "denied" -> {"own", "internal"}

Denied(p) == "internal" \in Relations(p)

\* The audit drops a pattern that reads an internal relation.
Row(stamp) ==
  IF Denied(main) THEN None ELSE [edition |-> main.edition, stamp |-> stamp]

LegacyRow == Row(Stamped(main, TRUE, LegacyBinds(main)))

\* The candidate is verified on the staging table. A pattern that reads anything
\* but tables of this run, the published one among them, loses every stamp.
Rewrites(p, withSibling) ==
  /\ Relations(p) \subseteq ({"own"} \union IF withSibling THEN {"sibling"} ELSE {})
  /\ "own" \in Relations(p)

AtomicRow(withSibling) ==
  Row(IF Rewrites(main, withSibling)
        THEN Stamped(main, FALSE, AtomicBinds(main)) ELSE None)

ExportLegacy ==
  /\ publication < MaxExports
  /\ publication' = publication + 1
  /\ row' = LegacyRow
  /\ UNCHANGED <<branch, main, current>>

ExportAtomic(withSibling) ==
  /\ publication < MaxExports
  /\ publication' = publication + 1
  /\ row' = AtomicRow(withSibling)
  /\ UNCHANGED <<branch, main, current>>

Next ==
  \/ \E f \in DOMAIN Choice : Author(f)
  \/ Merge \/ Stamp \/ Age
  \/ ExportLegacy
  \/ \E withSibling \in BOOLEAN : ExportAtomic(withSibling)

Spec == Init /\ [][Next]_vars

----------------------------------------------------------------------------
\* Where the three readings part although the gate let the pattern through.
Drifts(p) ==
  \/ p.form = "bracket" /\ ~Relative(p)
  \/ p.place = "splitHint" /\ ~Relative(p)
  \/ p.default = "overflowing"

\* A merged pattern without a stamp is bound by the export that follows, except
\* where the readings drift apart; the gate exists so that no pattern stays
\* unverified, and refused, for ever.
MergedPatternBinds ==
  main.stamp = None => (LegacyBinds(main) <=> ~Drifts(main))

\* The two publication paths give a pattern the same right to run, except that
\* the atomic path ignores relative defaults and strips the stamp of a pattern
\* it cannot point at the staging table.
PathsAgree ==
  LET atomic == AtomicRow(TRUE) IN
  LegacyRow # None /\ LegacyRow.stamp # atomic.stamp =>
    \/ main.shape = "sibling"
    \/ main.stamp = None /\ Relative(main)

\* The conventions are one: the gate on the pull request, the
\* replace path and the atomic path read a pattern alike.
ConventionsAreLocked == MergedPatternBinds /\ PathsAgree
=============================================================================
