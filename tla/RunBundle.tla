----------------------------- MODULE RunBundle -----------------------------
(***************************************************************************)
(* What is in a run: _build_pilot (runner.py) captures its inputs, parses  *)
(* and matches them, writes the artifacts, the summary and the manifest    *)
(* and seals them; verify_run (verifier.py) then judges the run, and       *)
(* whether the inputs it is given are those in the bundle.  The inputs     *)
(* live outside the run and may be replaced at any time; the profile is    *)
(* read twice, by the command line for the policy and by the run for the   *)
(* bundle.                                                                 *)
(*                                                                         *)
(* A feed that no parser accepts has no items.  The matcher is the matter  *)
(* of Matcher, the counters of absent products that of MissingState, and   *)
(* publication under faults and competition that of RunPublisher.          *)
(***************************************************************************)
EXTENDS SealedRun, Proposals

CONSTANTS
    Feeds, ItemsOf,      \* source files, and the items a parser makes of each
    Catalogs, ListedIn,  \* catalog exports, and the products each has in scope
    Profiles, ProfileOf, \* profiles, and what each says
    States,              \* missing-product state files
    Matched,             \* the match records of each feed against each catalog
    Formulas,            \* item ids that a spreadsheet takes for a formula
    Torn,                \* item ids whose texts hold U+0085, U+2028 or U+2029
    TooLong,             \* <<table, row>>: a cell beyond the csv module's field limit
    Absent,              \* no such input file
    AskedFor,            \* sets of inputs a verification may be given
    Moving,              \* bound: pairs of an input and what may replace it
    MaxMoves             \* bound on replacements

Inputs == {"source", "catalog", "config", "state"}
Contents == [source |-> Feeds, catalog |-> Catalogs, config |-> Profiles,
             state |-> States \cup {Absent}]
MatchStatuses == {"exact", "high_confidence", "conflict", "ambiguous", "unmatched"}

TableNames == {"normalized", "matches", "source_only", "review_queue", "proposals",
               "category_mapping", "product_categories", "missing"}

ASSUME BundleAssumption ==
    /\ Artifacts = Inputs \cup TableNames
         \cup {"jsonl", "next_state", "summary", "report", "database", "manifest"}
    /\ AskedFor \subseteq SUBSET {"source", "catalog", "config"}
    /\ \A m \in Moving : m[1] \in Inputs /\ m[2] \in Contents[m[1]] \ {Absent}
    /\ MaxMoves \in Nat
ASSUME AbsentAssumption ==
    /\ Absent \notin Feeds \cup Catalogs \cup Profiles \cup States
    /\ \A p \in Profiles : ProfileOf[p] # Absent
ASSUME MatchedAssumption ==
    \A s \in Feeds, c \in Catalogs :
        /\ DOMAIN Matched[s, c] = DOMAIN ItemsOf[s]
        /\ \A i \in DOMAIN ItemsOf[s] :
             LET m == Matched[s, c][i]
             IN  /\ m.status \in MatchStatuses
                 /\ m.product \in DOMAIN ListedIn[c] \cup {Nobody}
                 /\ m.status \in {"ambiguous", "unmatched"} <=> m.product = Nobody

\* A feed is a finite sequence of items, and what is listed is finite.
ASSUME FiniteAssumption ==
    /\ \A s \in Feeds : ItemsOf[s] \in Seq({ItemsOf[s][i] : i \in DOMAIN ItemsOf[s]})
    /\ \A c \in Catalogs : IsFiniteSet(DOMAIN ListedIn[c])
ASSUME PricesAssumption ==
    /\ \A s \in Feeds : \A i \in DOMAIN ItemsOf[s] : ItemsOf[s][i].price \in Int
    /\ \A c \in Catalogs : \A p \in DOMAIN ListedIn[c] : ListedIn[c][p].price \in Int
    /\ \A p \in Profiles : ProfileOf[p].pricing.limit \in Nat

VARIABLES
    input,     \* the input files, outside the run
    profile,   \* the profile, as loaded
    captured,  \* inputs/ of the run, as far as captured
    moved,     \* inputs replaced since the run has read them
    asked,     \* the inputs the verification is told to compare
    passing,   \* no check has failed so far
    unread     \* a file could not be read by the verification

bundleVars == <<input, profile, captured, moved, asked, passing, unread>>
vars == <<step, diskVars, checkVars, edits, bundleVars>>

CaptureOrder == <<"source", "catalog", "secret", "config", "state", "build">>
Steps == {CaptureOrder[i] : i \in DOMAIN CaptureOrder} \cup LoadSteps
            \cup {"load", "published", "manifest", "external", "artifacts"}
            \cup {"blocked", "failed", "passed"}

\* The variables have their types; what is captured is what an input held.
RunBundleTypeOK ==
    /\ step \in Steps
    /\ DOMAIN disk \subseteq FileNames /\ DOMAIN made \subseteq Artifacts \cup {SealName}
    /\ DOMAIN sealed \subseteq Artifacts
    /\ pos \in 0..Len(Sorted) + 1
    /\ gone \subseteq DOMAIN made
    /\ intact \in BOOLEAN
    /\ edits \in 0..MaxEdits
    /\ input \in [Inputs -> UNION {Contents[f] : f \in Inputs}]
    /\ DOMAIN captured \subseteq Inputs
    /\ \A f \in DOMAIN captured : captured[f] \in Contents[f] \ {Absent}
    /\ moved \subseteq Inputs \cup {"policy"}
    /\ asked \subseteq Inputs
    /\ passing \in BOOLEAN
    /\ unread \in BOOLEAN

Init ==
    /\ SealedInit
    /\ step = "load"
    /\ input \in {x \in [Inputs -> UNION {Contents[f] : f \in Inputs}] :
                    \A f \in Inputs : x[f] \in Contents[f]}
    /\ profile = Absent
    /\ captured = Empty
    /\ moved = {}
    /\ asked = {}
    /\ passing = TRUE
    /\ unread = FALSE

-----------------------------------------------------------------------------
\* load_pilot_config: an invalid profile blocks the run.
LoadProfile ==
    /\ step = "load"
    /\ profile' = ProfileOf[input["config"]]
    /\ step' = IF ValidPricing(profile'.pricing) THEN "source" ELSE "blocked"
    /\ UNCHANGED <<diskVars, checkVars, edits, input, captured, moved, asked, passing, unread>>

\* _capture_file: one read, into the bundle, for each input in turn.
Capture(f, next) ==
    /\ step = f
    /\ captured' = IF input[f] = Absent THEN captured
                   ELSE [g \in DOMAIN captured \cup {f} |->
                           IF g = f THEN input[f] ELSE captured[g]]
    /\ step' = next
    /\ UNCHANGED <<diskVars, checkVars, edits, input, profile, moved, asked, passing, unread>>

\* A profile with an inline secret is not bundled; it is read again after this.
CheckSecret ==
    /\ step = "secret"
    /\ step' = IF ProfileOf[input["config"]].secret THEN "blocked" ELSE "config"
    /\ UNCHANGED <<diskVars, checkVars, edits, bundleVars>>

\* Any of this may raise, and so may the steps before publication.
GiveUp ==
    /\ step \in {CaptureOrder[i] : i \in DOMAIN CaptureOrder}
    /\ step' = "blocked"
    /\ UNCHANGED <<diskVars, checkVars, edits, bundleVars>>

-----------------------------------------------------------------------------
\* _csv_value: a text that would be a formula is quoted, in CSV files only.
CsvCell(id) == IF id \in Formulas THEN <<"'", id>> ELSE id

\* How many rows have each status that occurs.
Tally(rows) ==
    [s \in {rows[i].status : i \in DOMAIN rows} |->
       Cardinality({i \in DOMAIN rows : rows[i].status = s})]

\* Which files an item is listed in, by its match.
InReview(match) == match.status \in {"conflict", "high_confidence", "ambiguous"}

\* Mutant of SourceOnly: whatever is not matched exactly.
SourceOnlyUnlessExact(match) == match.status # "exact"

SourceOnly(match) == match.status = "unmatched"

\* The tables that _build_pilot writes as CSV files, and into DuckDB.  The rows
\* of product_categories are sorted by id there; nothing reads their order.
Tables(feed, catalog, context) ==
    LET items   == ItemsOf[feed]
        matches == Matched[feed, catalog]
        listed  == ListedIn[catalog]
        mapping == CategoryMapping(items, matches, [p \in DOMAIN listed |-> listed[p].target])
        cells   == [i \in DOMAIN items |-> CsvCell(items[i].id)]
        current(i) == IF matches[i].product = Nobody THEN 0 ELSE listed[matches[i].product].price
        Where(Test(_)) == {i \in DOMAIN items : Test(matches[i])}
    IN  [ normalized   |-> [i \in DOMAIN items |-> [id |-> cells[i], sku |-> items[i].id]],
          matches      |-> [i \in DOMAIN items |-> [id |-> cells[i], status |-> matches[i].status]],
          source_only  |-> SelectRows(cells, Where(SourceOnly)),
          review_queue |-> SelectRows(cells, Where(InReview)),
          proposals    |-> [i \in DOMAIN items |->
                              Proposal(items[i], matches[i], current(i), context)],
          category_mapping |-> mapping,
          product_categories |->
             SelectRows([i \in DOMAIN items |->
                           [id |-> cells[i], status |-> CategoryProposal(mapping[items[i].path])]],
                        Where(SourceOnly)),
          missing      |-> DOMAIN listed \ {matches[i].product : i \in DOMAIN items} ]

Rows(table) == Cardinality(DOMAIN table)
\* Rows of every table; missing is a set of products, the others have rows.
RowCounts(tables) ==
    [t \in DOMAIN tables |-> IF t = "missing" THEN Cardinality(tables[t]) ELSE Rows(tables[t])]

\* reports/summary.json.  The hash of the database content is the content.
Summary(tables, items, listed, acts) ==
    LET complete == tables.missing = {}
    IN  [ source_items       |-> Len(items),
          scope_items        |-> Cardinality(DOMAIN listed),
          matches            |-> Tally(tables.matches),
          proposals          |-> Tally(tables.proposals),
          source_only        |-> Len(tables.source_only),
          review_queue       |-> Len(tables.review_queue),
          categories         |-> Rows(tables.category_mapping),
          categorised        |-> Len(tables.product_categories),
          missing            |-> Cardinality(tables.missing),
          complete           |-> complete,
          decision           |-> [allowed |-> complete /\ acts, proposed |-> {}],
          database           |-> tables ]

SummaryKeys == {"source_items", "scope_items", "matches", "proposals", "complete",
                "decision", "database"}

\* _policy_payload: what of the context the manifest names as the policy.
Policy(context) == [vat |-> context.vat, limit |-> context.limit, rule |-> context.rule]

\* run-manifest.json: records of the inputs, the policy and its hash (which is
\* the policy), the summary in short.
Manifest(inputs, context, summary) ==
    [ inputs  |-> [f \in Inputs |-> IF f \in DOMAIN inputs THEN inputs[f] ELSE Absent],
      policy  |-> Policy(context),
      hash    |-> Policy(context),
      summary |-> [k \in SummaryKeys |-> summary[k]] ]

\* What _build_pilot writes into one artifact.
Written(f, inputs, loaded) ==
    LET context == Context(loaded.pricing)
        items   == ItemsOf[inputs["source"]]
        tables  == Tables(inputs["source"], inputs["catalog"], context)
        summary == Summary(tables, items, ListedIn[inputs["catalog"]], loaded.acts)
    IN  CASE f \in DOMAIN tables -> tables[f]
          [] f = "jsonl"      -> [i \in DOMAIN items |-> items[i].id]
          [] f = "next_state" -> <<inputs["source"], inputs["catalog"], "state" \in DOMAIN inputs>>
          [] f \in {"summary", "report"} -> summary
          [] f = "database"   -> tables
          [] f = "manifest"   -> Manifest(inputs, context, summary)

\* Everything in the run directory, of these inputs under this profile.
Bundle(inputs, loaded) ==
    [ f \in DOMAIN inputs \cup (Artifacts \ Inputs) |->
        IF f \in Inputs THEN inputs[f] ELSE Written(f, inputs, loaded) ]

\* No run writes what somebody else does: the artifacts of a run, by which its
\* seal is known, are not Alien.
ASSUME AlienAssumption ==
    \A x \in [Inputs -> UNION {Contents[f] : f \in Inputs}], p \in Profiles :
        (\A f \in Inputs : x[f] \in Contents[f]) =>
            Bundle([f \in {g \in Inputs : x[g] # Absent} |-> x[f]], ProfileOf[p]) # Alien

\* The parsers and _validate_adapter_snapshot: bounds, and no id twice.
ValidSnapshot(items) ==
    /\ items # <<>> /\ Len(items) \in profile.least..profile.most
    /\ \A i, j \in DOMAIN items : items[i].id = items[j].id => i = j

\* Mutant of Build: the feed is parsed where it came from.
BuildFromOutside ==
    /\ step = "build"
    /\ LET bundle == Bundle([captured EXCEPT !["source"] = input["source"]], profile)
       IN  IF ValidSnapshot(ItemsOf[input["source"]])
             THEN Seal([bundle EXCEPT !["source"] = captured["source"],
                                      !["manifest"].inputs["source"] = captured["source"]],
                       "published")
             ELSE step' = "blocked" /\ UNCHANGED <<diskVars, checkVars, edits>>
    /\ UNCHANGED bundleVars

\* The rest of _build_pilot, on what is captured; then the run is published.
Build ==
    /\ step = "build"
    /\ IF ValidSnapshot(ItemsOf[captured["source"]])
         THEN Seal(Bundle(captured, profile), "published")
         ELSE step' = "blocked" /\ UNCHANGED <<diskVars, checkVars, edits>>
    /\ UNCHANGED bundleVars

-----------------------------------------------------------------------------
\* verify_run.py and run_all.py: with some of the inputs to compare, or none.
BeginVerification ==
    /\ step = "published"
    /\ BeginLoad
    /\ asked' \in AskedFor
    /\ UNCHANGED <<input, profile, captured, moved, passing, unread>>

LoadSealedRun == Load("manifest") /\ UNCHANGED bundleVars

\* An OSError of load_sealed_run is a failed check of the seal.
RunUnreadable ==
    /\ ReadFails
    /\ unread' = TRUE
    /\ UNCHANGED <<input, profile, captured, moved, asked, passing>>

\* The manifest agrees with the inputs in the bundle, and the policy with its
\* hash.
ManifestChecks(files) ==
    /\ "manifest" \in DOMAIN files
    /\ \A f \in Inputs :
         IF f \in DOMAIN files THEN files["manifest"].inputs[f] = files[f]
                               ELSE files["manifest"].inputs[f] = Absent /\ f \in {"config", "state"}
    /\ files["manifest"].hash = files["manifest"].policy

CheckManifest ==
    /\ step = "manifest"
    /\ passing' = ManifestChecks(sealed)
    /\ step' = "external" /\ pos' = 1
    /\ UNCHANGED <<diskVars, sealed, gone, intact, edits, input, profile, captured, moved, asked,
                   unread>>

\* _external_check of each input in turn, as it is by now, if it can be read.
CompareInput ==
    /\ step = "external"
    /\ LET f == <<"source", "catalog", "config">>[pos]
       IN  \/ /\ passing' = (passing /\ (f \in asked => input[f] = sealed["manifest"].inputs[f]))
              /\ UNCHANGED unread
           \/ f \in asked /\ passing' = FALSE /\ unread' = TRUE
    /\ pos' = pos + 1
    /\ step' = IF pos < 3 THEN "external" ELSE "artifacts"
    /\ UNCHANGED <<diskVars, sealed, gone, intact, edits, input, profile, captured, moved, asked>>

\* The summary agrees with the manifest, and an incomplete feed allows nothing.
SummaryChecks(files) ==
    LET summary == files["summary"]
    IN  /\ {"summary", "next_state"} \subseteq DOMAIN files
        /\ \A k \in SummaryKeys : files["manifest"].summary[k] = summary[k]
        /\ ~summary.complete => ~summary.decision.allowed /\ summary.decision.proposed = {}

\* Mutant of CountChecks: items for review are expected in source_only too.
CountChecksReviewed(counts, summary) ==
    /\ \A t \in {"normalized", "matches", "proposals"} : counts[t] = summary.source_items
    /\ counts["source_only"] = summary.source_only + summary.review_queue
    /\ counts["review_queue"] = summary.review_queue
    /\ counts["category_mapping"] = summary.categories
    /\ counts["product_categories"] = summary.categorised
    /\ counts["missing"] = summary.missing

\* Every table has the rows the summary counts.
CountChecks(counts, summary) ==
    /\ \A t \in {"normalized", "matches", "proposals"} : counts[t] = summary.source_items
    /\ counts["source_only"] = summary.source_only
    /\ counts["review_queue"] = summary.review_queue
    /\ counts["category_mapping"] = summary.categories
    /\ counts["product_categories"] = summary.categorised
    /\ counts["missing"] = summary.missing

\* The items are told apart, and are the same in both files of them.
IdentityChecks(normalized, jsonl) ==
    /\ \A i, j \in DOMAIN normalized :
         normalized[i].id = normalized[j].id \/ normalized[i].sku = normalized[j].sku => i = j
    /\ DOMAIN jsonl = DOMAIN normalized
    /\ \A i \in DOMAIN jsonl : jsonl[i] = normalized[i].id

\* _csv_rows: a cell beyond the field limit, and the file is not read.
CsvReadable(t, table) ==
    \A row \in IF t = "missing" THEN table ELSE {table[i] : i \in DOMAIN table} :
        <<t, row>> \notin TooLong

\* _jsonl_rows: str.splitlines breaks the line of such an item where
\* json.dumps has left the character as it is, and no half of it is JSON.
JsonlReadable(lines) == \A i \in DOMAIN lines : lines[i] \notin Torn

ArtifactChecks(files) ==
    LET tables  == [t \in TableNames |-> files[t]]
        summary == files["summary"]
    IN  /\ TableNames \cup {"jsonl", "database"} \subseteq DOMAIN files
        /\ \A t \in TableNames : CsvReadable(t, files[t])
        /\ JsonlReadable(files["jsonl"])
        /\ CountChecks(RowCounts(tables), summary)
        /\ Len(files["jsonl"]) = summary.source_items
        /\ IdentityChecks(files["normalized"], files["jsonl"])
        /\ Tally(files["matches"]) = summary.matches
        /\ Tally(files["proposals"]) = summary.proposals
        /\ RowCounts(files["database"]) = RowCounts(tables)
        /\ files["database"] = summary.database

\* The other checks; the database is read from a temporary copy, which may fail.
Conclude ==
    /\ step = "artifacts"
    /\ \/ /\ passing' = (passing /\ SummaryChecks(sealed) /\ ArtifactChecks(sealed))
          /\ UNCHANGED unread
       \/ passing' = FALSE /\ unread' = TRUE
    /\ step' = IF passing' THEN "passed" ELSE "failed"
    /\ UNCHANGED <<diskVars, checkVars, edits, input, profile, captured, moved, asked>>

Ended == step \in {"blocked", "passed", "failed"} /\ UNCHANGED vars

-----------------------------------------------------------------------------
\* What the run has read of an input by now.
ReadOf(f) == (IF f \in DOMAIN captured THEN {f} ELSE {})
                \cup (IF f = "config" /\ profile # Absent /\ "config" \notin DOMAIN captured
                        THEN {"policy"} ELSE {})

\* Somebody replaces an input.
Replace(f, new) ==
    /\ Cardinality(moved) < MaxMoves
    /\ new # input[f]
    /\ input' = [input EXCEPT ![f] = new]
    /\ moved' = moved \cup ReadOf(f)
    /\ UNCHANGED <<step, diskVars, checkVars, edits, profile, captured, asked, passing, unread>>

Run ==
    \/ LoadProfile
    \/ Capture("source", "catalog") \/ Capture("catalog", "secret")
    \/ CheckSecret
    \/ Capture("config", "state") \/ Capture("state", "build")
    \/ GiveUp
    \/ Build

Verify ==
    \/ BeginVerification \/ LoadSealedRun \/ RunUnreadable
    \/ CheckManifest \/ CompareInput \/ Conclude

Next ==
    \/ Run
    \/ Verify
    \/ Tamper /\ UNCHANGED bundleVars
    \/ \E m \in Moving : Replace(m[1], m[2])
    \/ Ended

Spec == Init /\ [][Next]_vars

-----------------------------------------------------------------------------
\* A run that passes was, at one moment of its verification, exactly as it was
\* sealed: no artifact changed, missing or added (ARCHITECTURE.md 8.1: a second
\* stability check for the seal and each artifact).
PassMeansIntact == step = "passed" => intact

\* A run that passes is what its bundled inputs make of it, under the bundled
\* profile, whatever was replaced outside meanwhile (ARCHITECTURE.md 8.1: the
\* parser and the loader consume the captured bytes), unless the profile was
\* replaced after its policy was loaded and before it was captured.
PassMeansReproducible ==
    step = "passed" /\ "policy" \notin moved =>
        SealOf(made) = Bundle([f \in Inputs \cap DOMAIN made |-> made[f]],
                              ProfileOf[made["config"]])

\* A run only fails its verification for a reason: somebody touched the run or
\* an input it was compared with, a read failed, or the run holds what the
\* verifier does not read back as it was written: an item id quoted in the CSV
\* files only, an item whose JSON line breaks, a cell beyond the field limit.
FailedForAReason ==
    step = "failed" =>
        \/ edits > 0
        \/ moved \cap asked # {}
        \/ unread
        \/ \E i \in DOMAIN ItemsOf[made["source"]] :
             ItemsOf[made["source"]][i].id \in Formulas \cup Torn
        \/ \E t \in TableNames : ~CsvReadable(t, made[t])

\* A price is only up for review for an item matched exactly, at the approved
\* markup of its source price, and near the current price; the verification
\* does not look at prices (README.md, pricing policy).
ReadyPricesAreApproved ==
    made # Empty => \A i \in DOMAIN made["proposals"] :
        LET row  == made["proposals"][i]
            item == ItemsOf[made["source"]][i]
            now  == ListedIn[made["catalog"]][row.product].price
        IN  row.status = "ready_for_review" =>
                /\ made["matches"][i].status = "exact"
                /\ row.proposed = 110 * item.price
                /\ row.proposed - 100 * now <= profile.pricing.limit * now
                /\ 100 * now - row.proposed <= profile.pricing.limit * now

\* What category_mapping.py asks of a candidate, of the exact matches here in a
\* source category and those against the target: two for it to be reviewed, at
\* most one in five against; three and none against for a strong one.
Supported(status, here, against) ==
    CASE status = "strong_candidate" -> Cardinality(here) >= 3 /\ against = {}
      [] status = "review_candidate" -> Cardinality(here) >= 2
                                        /\ Cardinality(against) * 5 <= Cardinality(here)
      [] OTHER -> TRUE

\* Every item of a run is in one place: matched exactly, up for review, or
\* source-only, and then it has a category proposal; and a source category is
\* given a target only if enough of its exact matches are there, counted from
\* the matches of the run and not from the table's own numbers.
EveryItemIsAccountedFor ==
    made # Empty =>
        LET exact == {i \in DOMAIN made["matches"] : made["matches"][i].status = "exact"}
        IN  /\ Len(made["jsonl"]) =
                 Cardinality(exact) + Len(made["review_queue"]) + Len(made["source_only"])
            /\ Len(made["product_categories"]) = Len(made["source_only"])
            /\ \A p \in DOMAIN made["category_mapping"] :
                 LET row     == made["category_mapping"][p]
                     here    == {i \in exact : ItemsOf[made["source"]][i].path = p}
                     against == {i \in here :
                       ListedIn[made["catalog"]][made["proposals"][i].product].target # row.target}
                 IN  Supported(row.status, here, against)
=============================================================================
