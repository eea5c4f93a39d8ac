-------------------------- MODULE ServingContracts --------------------------
(* The life of the serving contracts of one domain. Its models declare them in *)
(* dbt YAML; the contract validator gates the change in CI; the export reads   *)
(* them back from the compiled manifest, checks them again with rules of its   *)
(* own, publishes the listed products and retires the disabled ones. The two   *)
(* checkers are written separately: a contract the first accepts and the       *)
(* second refuses stops the export of the whole domain.                        *)
(* A contract is a record of the declarations the rules tell apart. Names that *)
(* are no identifiers, versions and texts are left out.                        *)
EXTENDS Naturals, Sequences, FiniteSets, Functions

CONSTANTS Model, ProductId, None,
          MaxEdits      \* bound on the edits after the reviewed start

Columns == {"place", "at", "samples", "fingerprint"}
Internal == {"fingerprint"}
Registered == {"weather:sky_code"}

\* The other models of the manifest, with the columns the rules look for.
Relation == [upstream |-> {"at"}, companion |-> {"coverage"}, narrow |-> {}]

Term == [sky |-> <<"1", "clear">>, sunny |-> <<"1", "sunny">>]

\* What a change can declare in each field.
Choice ==
  [id         |-> ProductId,
   enabled    |-> BOOLEAN,
   external   |-> BOOLEAN,
   retire     |-> {None, TRUE},
   mode       |-> {"snapshot", "upsert"},
   strategy   |-> {None, "merge", "incremental"},
   zero       |-> {"fail", "allow"},
   keys       |-> {<<"place">>, <<"place", "at">>, <<"place", "place">>, <<"ghost">>},
   publicKeys |-> {None, <<"at">>, <<"at", "at">>, <<"samples">>},
   tested     |-> {{"place"}, {"place", "at"}, {}},
   unique     |-> BOOLEAN,
   nullable   |-> {{}, {"place"}},
   bare       |-> {{}, {"samples"}},
   projection |-> {None, <<"place", "at">>, <<"place", "at", "samples">>, <<>>,
                   <<"place", "at", "fingerprint">>, <<"place", "at", "ghost">>},
   eventTime  |-> {None, "at", "ghost"},
   freshness  |-> {None, "at", "samples", "ghost"},
   slo        |-> BOOLEAN,
   sampled    |-> {None, "samples"},
   fallback   |-> {None, <<"upstream", "at">>, <<"upstream", "ghost">>, <<"self", "at">>},
   validEmpty |-> BOOLEAN,
   companion  |-> {None, "companion", "narrow", "missing", "self"},
   coverage   |-> {None, <<"place", "published_rows">>, <<"samples", "published_rows">>,
                   <<"samples", "source_relation">>, <<"ghost", "source_relation">>},
   sources    |-> {None, <<>>, <<"kma">>, <<"kma", "kma">>, <<"http">>},
   termsAt    |-> {"config", "meta"},
   vocabulary |-> {None, "weather:sky_code", "weather:unlisted"},
   terms      |-> {None, <<Term.sky>>, <<Term.sunny>>, <<Term.sky, Term.sky>>}]

Fields == DOMAIN Choice

\* None is nothing a contract declares.
ASSUME NoneAssumption ==
  /\ None \notin {"merge", "incremental", "at", "samples", "companion", "narrow", "weather:sky_code"}
  /\ None \notin {<<"place", "at">>, <<"place", "at", "samples">>, <<"upstream", "at">>}
  /\ None # TRUE

VARIABLES
  tree,        \* per model: the contract of the working tree
  listed,      \* the product ids the export DAG names
  edits,
  main,        \* the merged contracts and product ids
  catalog,     \* products of the public catalog
  exported,    \* products of the last export that was not refused
  glossary     \* per vocabulary: the published label of each code

contractVars == <<tree, listed, edits, main, catalog, exported, glossary>>

Distinct(s) == IsInjective(s)

----------------------------------------------------------------------------
\* The validator of CI. One operator per rule of the contract.

\* Types and enumerations hold by Choice; what depends on another field.
StructuralRule(c) ==
  /\ c.eventTime # None \/ c.freshness # None \/ c.fallback # None => c.slo
  /\ c.sources # None =>
       c.sources # <<>> /\ Distinct(c.sources) /\ "http" \notin Range(c.sources)
  /\ c.coverage # None =>
       /\ c.coverage[1] \in Columns
       /\ c.coverage[2] = "published_rows" /\ c.projection # None =>
            c.coverage[1] \in Range(c.projection)

LifecycleRule(c) ==
  /\ c.external => c.enabled
  /\ c.retire = TRUE => ~c.enabled /\ ~c.external
  /\ c.strategy # None => c.mode = "upsert"

KeyRule(c) ==
  /\ Range(c.keys) \subseteq Columns \intersect c.tested
  /\ c.unique

FreshnessRule(c) ==
  /\ c.freshness # None => c.freshness \in Columns
  /\ c.fallback # None =>
       c.fallback[1] \in DOMAIN Relation /\ c.fallback[2] \in Relation[c.fallback[1]]

CompanionRule_AnyRelation(c) == c.companion # None => c.companion # "self"

CompanionRule(c) == c.companion # None => c.companion \in DOMAIN Relation

ValidEmptyRule(c) ==
  c.enabled /\ c.external /\ c.zero = "allow" => c.fallback # None /\ c.validEmpty

ProjectedKeys(c) == IF c.publicKeys # None THEN c.publicKeys ELSE c.keys

Required(c) ==
  Range(ProjectedKeys(c)) \union ({c.eventTime, c.freshness, c.sampled} \ {None})

ProjectionRule(c) ==
  IF c.projection = None THEN c.publicKeys = None
  ELSE /\ c.projection # <<>> /\ Distinct(c.projection)
       /\ Range(c.projection) \subseteq Columns \ (Internal \union c.bare)
       /\ Range(c.projection) \intersect c.tested \intersect c.nullable = {}
       /\ c.publicKeys # None => Distinct(c.publicKeys)
       /\ Required(c) \subseteq Range(c.projection)

\* The rules on terms look under config.meta alone.
TermsRule(c) ==
  c.termsAt = "config" /\ c.terms # None =>
    c.vocabulary # None /\ \A i, j \in DOMAIN c.terms : i # j => c.terms[i][1] # c.terms[j][1]

UniqueRule_PerModel(contracts) == TRUE

UniqueRule(contracts) ==
  \A m, n \in Model : m # n => contracts[m].id # contracts[n].id

\* Two declarations of one vocabulary list the same terms.
AgreeRule(contracts) ==
  \A m, n \in Model : LET c == contracts[m]  d == contracts[n] IN
    /\ c.termsAt = "config" /\ d.termsAt = "config"
    /\ c.terms # None /\ d.terms # None /\ c.vocabulary = d.vocabulary
    => c.terms = d.terms

Validates(contracts) ==
  /\ \A m \in Model : LET c == contracts[m] IN
       /\ StructuralRule(c) /\ LifecycleRule(c) /\ KeyRule(c) /\ FreshnessRule(c)
       /\ CompanionRule(c) /\ ValidEmptyRule(c) /\ ProjectionRule(c) /\ TermsRule(c)
  /\ UniqueRule(contracts)
  /\ AgreeRule(contracts)

----------------------------------------------------------------------------
\* The loader of the export: the first contract that raises stops the load.

LoadsProjection(c) ==
  /\ c.projection \notin {None, <<>>} /\ Distinct(c.projection)
  /\ Range(c.projection) \subseteq Columns \ c.bare

LoadsKeys(c) ==
  LET keys == ProjectedKeys(c) IN
  Distinct(keys) /\ Range(keys) \subseteq Columns \intersect Range(c.projection)

LoadsFreshness(c) ==
  /\ c.freshness # None => c.freshness \in Columns \intersect Range(c.projection)
  /\ c.fallback # None =>
       IF c.fallback[1] = "self" THEN c.fallback[2] \in Columns
       ELSE c.fallback[1] \in DOMAIN Relation /\ c.fallback[2] \in Relation[c.fallback[1]]

LoadsCompanion(c) ==
  c.companion # None =>
    c.companion \in DOMAIN Relation /\ "coverage" \in Relation[c.companion]

LoadsTerms(c) ==
  c.terms # None =>
    c.vocabulary # None /\ \A i, j \in DOMAIN c.terms : i # j => c.terms[i][1] # c.terms[j][1]

LoadsEvidence(c) ==
  /\ c.sources # None =>
       c.sources # <<>> /\ Distinct(c.sources) /\ "http" \notin Range(c.sources)
  /\ c.coverage # None => c.coverage[1] \in Columns

LoadsStrategy(c) ==
  c.strategy = "incremental" => c.mode = "upsert" /\ c.eventTime # None

\* The reader projects what the publisher keys, orders and samples by.
Readable(c) ==
  ({c.eventTime, c.sampled} \ {None}) \subseteq Range(c.projection)

\* The publisher checks every vocabulary before it reads a source, and refuses
\* a partial source where the whole content is to be compared.
Publishable(c) ==
  c.vocabulary \in {None} \union Registered /\ c.strategy # "incremental"

Loads(c) ==
  /\ LoadsProjection(c) /\ LoadsKeys(c) /\ LoadsFreshness(c) /\ LoadsCompanion(c)
  /\ LoadsTerms(c) /\ LoadsEvidence(c) /\ LoadsStrategy(c)

Enabled(contracts) == {m \in Model : contracts[m].enabled}
Ids(contracts, models) == {contracts[m].id : m \in models}

\* The models of this DAG: those of its ids, which must all be enabled.
Selected(at) == {m \in Enabled(at.contracts) : at.contracts[m].id \in at.listed}

Exports(at) ==
  /\ \A m \in Enabled(at.contracts) : Loads(at.contracts[m])
  /\ at.listed \subseteq Ids(at.contracts, Enabled(at.contracts))
  /\ \A m \in Selected(at) : Readable(at.contracts[m]) /\ Publishable(at.contracts[m])

Retirements(contracts) ==
  {contracts[m].id : m \in {n \in Model : /\ contracts[n].retire = TRUE
                                          /\ ~contracts[n].enabled
                                          /\ ~contracts[n].external}}

\* The rows of a vocabulary follow the contracts of this export; on one code
\* the row written last stays.
Glossaries(contracts) ==
  LET Rows(v) == UNION {Range(c.terms) : c \in {d \in contracts : /\ d.vocabulary = v
                                                                  /\ d.terms # None}}
      Codes(v) == {row[1] : row \in Rows(v)}
      Labels(v) == {row[2] : row \in Rows(v)}
  IN {g \in [Registered -> UNION {[Codes(v) -> Labels(v)] : v \in Registered}] :
        \A v \in Registered : /\ DOMAIN g[v] = Codes(v)
                              /\ \A code \in Codes(v) : <<code, g[v][code]>> \in Rows(v)}

----------------------------------------------------------------------------
Plain(id) ==
  [id |-> id, enabled |-> TRUE, external |-> TRUE, retire |-> None,
   mode |-> "upsert", strategy |-> "merge", zero |-> "fail",
   keys |-> <<"place">>, publicKeys |-> None, tested |-> {"place"}, unique |-> TRUE,
   nullable |-> {}, bare |-> {}, projection |-> <<"place", "at">>, eventTime |-> "at",
   freshness |-> None, slo |-> TRUE, sampled |-> None, fallback |-> None,
   validEmpty |-> FALSE, companion |-> None, coverage |-> <<"place", "published_rows">>,
   sources |-> <<"kma">>, termsAt |-> "config", vocabulary |-> "weather:sky_code",
   terms |-> <<Term.sky>>]

Rollup(id) ==
  [Plain(id) EXCEPT !.publicKeys = <<"at">>, !.sampled = "samples",
     !.projection = <<"place", "at", "samples">>, !.freshness = "samples",
     !.coverage = <<"samples", "source_relation">>, !.vocabulary = None, !.terms = None]

Sparse(id) ==
  [Plain(id) EXCEPT !.zero = "allow", !.fallback = <<"upstream", "at">>,
     !.validEmpty = TRUE, !.companion = "companion"]

Retired(id) == [Plain(id) EXCEPT !.enabled = FALSE, !.external = FALSE, !.retire = TRUE]

At(contracts, ids) == [contracts |-> contracts, listed |-> ids]

\* A reviewed tree: each model under an id of its own, the enabled ones listed.
ContractInit ==
  /\ \E kinds \in [Model -> {"plain", "rollup", "sparse", "retired"}],
        ids \in {f \in [Model -> ProductId] : IsInjective(f)} :
       tree = [m \in Model |-> CASE kinds[m] = "plain" -> Plain(ids[m])
                                 [] kinds[m] = "rollup" -> Rollup(ids[m])
                                 [] kinds[m] = "sparse" -> Sparse(ids[m])
                                 [] kinds[m] = "retired" -> Retired(ids[m])]
  /\ listed = Ids(tree, Enabled(tree))
  /\ edits = 0
  /\ main = At(tree, listed)
  /\ catalog = {} /\ exported = {}
  /\ glossary = [v \in Registered |-> <<>>]

\* A commit on the branch edits one field of one contract.
Edit(m, f) ==
  /\ edits < MaxEdits
  /\ \E v \in Choice[f] \ {tree[m][f]} : tree' = [tree EXCEPT ![m][f] = v]
  /\ edits' = edits + 1
  /\ UNCHANGED <<listed, main, catalog, exported, glossary>>

\* ... or the product ids of the DAG, which no rule compares.
EditList(id) ==
  /\ edits < MaxEdits
  /\ listed' = IF id \in listed THEN listed \ {id} ELSE listed \union {id}
  /\ edits' = edits + 1
  /\ UNCHANGED <<tree, main, catalog, exported, glossary>>

Merge ==
  /\ At(tree, listed) # main
  /\ Validates(tree)
  /\ main' = At(tree, listed)
  /\ UNCHANGED <<tree, listed, edits, catalog, exported, glossary>>

\* Publication comes first and stops at a refusal; the retirements follow it.
Export ==
  /\ Exports(main)
  /\ exported' = {main.contracts[m] : m \in Selected(main)}
  /\ catalog' = (catalog \union {c.id : c \in exported'}) \ Retirements(main.contracts)
  /\ \E g \in Glossaries(exported') :
       glossary' = [v \in Registered |-> IF g[v] = <<>> THEN glossary[v] ELSE g[v]]
  /\ UNCHANGED <<tree, listed, edits, main>>

ContractNext ==
  \/ \E m \in Model, f \in Fields : Edit(m, f)
  \/ \E id \in ProductId : EditList(id)
  \/ Merge
  \/ Export

ContractSpec == ContractInit /\ [][ContractNext]_contractVars

----------------------------------------------------------------------------
\* What the validator lets through and the export then refuses.

UnprojectedContract(c) == c.projection = None
RepeatedKey(c) == c.publicKeys = None /\ ~Distinct(c.keys)
PartialSource(c) == c.strategy = "incremental"
NarrowCompanion(c) == c.companion = "narrow"
UnreadTerms(c) == c.termsAt = "meta" /\ ~LoadsTerms(c)
UnregisteredVocabulary(c) == c.vocabulary \notin {None} \union Registered
UnlistedChange(at) == ~(at.listed \subseteq Ids(at.contracts, Enabled(at.contracts)))

Omission(at) ==
  \/ UnlistedChange(at)
  \/ \E m \in Enabled(at.contracts) : LET c == at.contracts[m] IN
       \/ UnprojectedContract(c) \/ RepeatedKey(c) \/ NarrowCompanion(c) \/ UnreadTerms(c)
       \/ c.eventTime = None /\ PartialSource(c)
  \/ \E m \in Selected(at) : LET c == at.contracts[m] IN
       PartialSource(c) \/ UnregisteredVocabulary(c)

\* The publisher "trusts contracts that already passed the validator": a merged
\* tree stops the domain's export exactly when it has one of the omissions, so
\* the loader and the reader refuse nothing else the validator accepts.
ValidatedTreeExports == Exports(main) <=> ~Omission(main)

\* What the export has published is served as declared: the retirement that
\* follows does not take it out of the catalog, and where all terms are declared
\* under config.meta no other product's labels replace its own.
ExportedIsServed ==
  \A c \in exported :
    /\ c.id \in catalog
    /\ (\A d \in exported : d.termsAt = "config") /\ c.terms # None /\ c.vocabulary \in Registered =>
         \A i \in DOMAIN c.terms : glossary[c.vocabulary][c.terms[i][1]] = c.terms[i][2]
=============================================================================
