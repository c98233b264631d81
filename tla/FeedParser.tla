---------------------------- MODULE FeedParser ----------------------------
(***************************************************************************)
(* The supplier feed parsers: parse_yml (electrozone.py), parse_legacy_xml *)
(* (legacy_xml.py) with its Netlab and Vetcom field contracts, and the     *)
(* adapter boundary that chooses one (adapters.py).                        *)
(*                                                                         *)
(* A document is what is left when the XML is read: categories, declared   *)
(* currencies and offers, in document order.  Texts are members of a small *)
(* alphabet; an element may occur several times, so that a field of an     *)
(* offer is the set of its texts.  The parsers climb the category tree one *)
(* parent at a time.                                                       *)
(***************************************************************************)
EXTENDS Integers, SequencesExt

CONSTANTS Jobs  \* calls of create_adapter and parse, see JobAssumption

\* Texts that stand for their kind.
Blank      == ""
None       == "none"                   \* no such attribute
Positive   == {"7"}
Numeric    == Positive \cup {"-7"}
InStock    == {"5"}
OutOfStock == {"0"}

\* What the adapters declare.
CatalogSkuPrefix == [electrozone |-> "11", netlab |-> "31", vetcom |-> "41"]
Symbols == [electrozone |-> {}, netlab |-> {"*"}, vetcom |-> {}]
Scalars ==
    [electrozone |-> {"category", "currency", "price"},
     netlab |-> {"category", "currency", "price", "quantity", "outOfProd"},
     vetcom |-> {"category", "currency", "price", "quantity"}]

Fields == {"category", "currency", "price", "quantity", "outOfProd", "barcodes"}
IsDocument(d) ==
    /\ d.sound \in BOOLEAN  \* size, archive, XML, containers and currencies are in order
    /\ d.categories \in Seq(Range(d.categories)) /\ d.offers \in Seq(Range(d.offers))
    /\ \A i \in DOMAIN d.categories : DOMAIN d.categories[i] = {"id", "parent"}
    /\ \A i \in DOMAIN d.offers :
         /\ d.offers[i].fit \in BOOLEAN  \* attributes and the fields not modelled are in order
         /\ \A field \in Fields : IsFiniteSet(d.offers[i][field])
ASSUME JobAssumption ==
    \A j \in Jobs : IsDocument(j.doc) /\ {j.min, j.max} \subseteq Nat

VARIABLES
    job,      \* the call: supplier, expected prefix, limits and document
    phase,    \* what the call is doing
    next,     \* the category or offer whose turn it is
    parents,  \* categories read so far, with their parents
    current,  \* the category that a climb has reached
    passed,   \* the categories it has passed, from the root side on
    items     \* the items built so far

vars == <<job, phase, next, parents, current, passed, items>>

Doc      == job.doc
Yml      == job.supplier = "electrozone"
Ended    == {"accepted", "refused"}
Ids(seq) == {seq[i].id : i \in DOMAIN seq}

Init ==
    /\ job \in Jobs
    /\ phase = "adapter" /\ next = 1
    /\ parents = <<>> /\ current = Blank /\ passed = <<>> /\ items = <<>>

-----------------------------------------------------------------------------
Refuse == phase' = "refused" /\ UNCHANGED <<job, next, parents, current, passed, items>>

\* create_adapter, then everything up to the categories.
CreateAdapter ==
    /\ phase = "adapter"
    /\ IF \/ job.supplier \notin DOMAIN CatalogSkuPrefix
          \/ CatalogSkuPrefix[job.supplier] # job.prefix
          \/ ~Doc.sound
          \/ ~Yml /\ Len(Doc.offers) > job.max
         THEN Refuse
         ELSE /\ phase' = "categories"
              /\ UNCHANGED <<job, next, parents, current, passed, items>>

\* The last category was read, or validated.
LastCategory ==
    /\ phase \in {"categories", "validate"} /\ next > Len(Doc.categories)
    /\ phase' = IF Yml /\ phase = "categories" THEN "validate" ELSE "offers"
    /\ next' = 1
    /\ UNCHANGED <<job, parents, current, passed, items>>

\* Mutant of ReadCategory: a category may be declared again.
ReadCategoryAgain ==
    /\ phase = "categories" /\ next <= Len(Doc.categories)
    /\ LET category == Doc.categories[next]
       IN  IF category.id = Blank THEN Refuse
           ELSE /\ parents' = [c \in DOMAIN parents \cup {category.id} |->
                               IF c = category.id THEN category.parent ELSE parents[c]]
                /\ next' = next + 1
                /\ UNCHANGED <<job, phase, current, passed, items>>

ReadCategory ==
    /\ phase = "categories" /\ next <= Len(Doc.categories)
    /\ LET category == Doc.categories[next]
       IN  IF category.id \in {Blank} \cup DOMAIN parents THEN Refuse
           ELSE /\ parents' = [c \in DOMAIN parents \cup {category.id} |->
                               IF c = category.id THEN category.parent ELSE parents[c]]
                /\ next' = next + 1
                /\ UNCHANGED <<job, phase, current, passed, items>>

\* Mutant of ValidateCategory: an unknown parent makes a root.
ValidateCategoryAsRoot ==
    /\ phase = "validate" /\ next <= Len(Doc.categories)
    /\ current' = Doc.categories[next].id
    /\ phase' = "ascend"
    /\ UNCHANGED <<job, next, parents, passed, items>>

\* _validate_categories of parse_yml.
ValidateCategory ==
    /\ phase = "validate" /\ next <= Len(Doc.categories)
    /\ IF Doc.categories[next].parent \notin {Blank} \cup DOMAIN parents THEN Refuse
       ELSE /\ current' = Doc.categories[next].id
            /\ phase' = "ascend"
            /\ UNCHANGED <<job, next, parents, passed, items>>

\* Up from the category; an unknown parent ends the climb.
Up == current' = IF parents[current] \in DOMAIN parents THEN parents[current] ELSE Blank

\* Mutant of ClimbToValidate: it does not remember where it has been.
ClimbToValidateOn ==
    /\ phase = "ascend" /\ current # Blank
    /\ Up
    /\ UNCHANGED <<job, phase, next, parents, passed, items>>

ClimbToValidate ==
    /\ phase = "ascend" /\ current # Blank
    /\ IF current \in Range(passed) THEN Refuse
       ELSE /\ passed' = <<current>> \o passed
            /\ Up
            /\ UNCHANGED <<job, phase, next, parents, items>>

Validated ==
    /\ phase = "ascend" /\ current = Blank
    /\ phase' = "validate" /\ next' = next + 1 /\ passed' = <<>>
    /\ UNCHANGED <<job, parents, current, items>>

-----------------------------------------------------------------------------
\* Blank elements count in parse_yml and are ignored in parse_legacy_xml.
Texts(o, field) == IF Yml THEN o[field] ELSE o[field] \ {Blank}

\* The member of a set of one.
Only(S) == CHOOSE member \in S : TRUE

\* The text of a field that has one, or Blank.
Text(o, field) ==
    IF field \notin Scalars[job.supplier] \/ Texts(o, field) = {} THEN Blank
                                          ELSE Only(Texts(o, field))

Conflicting(o) == \E field \in Scalars[job.supplier] : Cardinality(Texts(o, field)) > 1

\* parse_yml reads no quantity: an offer without the attribute is unavailable.
YmlFaulty(o) ==
    \/ Text(o, "price") \notin {Blank} \cup Numeric
    \/ o.available \notin {None, "yes", "no"}

LegacyFaulty(o) ==
    \/ Text(o, "price") \notin Positive
    \/ Text(o, "quantity") \notin {Blank} \cup InStock \cup OutOfStock \cup Symbols[job.supplier]
    \/ o.available \notin {None, Blank, "yes", "no"}
    \/ o.available \in {None, Blank} /\ Text(o, "quantity") = Blank
    \/ Text(o, "outOfProd") \notin {Blank, "yes", "no"}

Faulty(o) ==
    \/ o.id = Blank \/ ~o.fit
    \/ Conflicting(o)
    \/ Text(o, "currency") \notin Doc.currencies
    \/ IF Yml THEN YmlFaulty(o) ELSE LegacyFaulty(o)

\* Mutant of Available: the attribute decides.
AvailableAsStated(o) ==
    \/ o.available = "yes"
    \/ ~Yml /\ o.available # "no" /\ Text(o, "quantity") \in InStock \cup Symbols[job.supplier]

\* The attribute or the stock makes an offer available; an empty stock and
\* OutOfProd make it unavailable whatever the attribute says.
Available(o) ==
    /\ \/ o.available = "yes"
       \/ ~Yml /\ o.available # "no" /\ Text(o, "quantity") \in InStock \cup Symbols[job.supplier]
    /\ Text(o, "quantity") \notin OutOfStock
    /\ Text(o, "outOfProd") # "yes"

\* Several different barcodes are none; only parse_yml leaves a warning.
Ean(o) ==
    LET barcodes == o.barcodes \ {Blank}
    IN  IF Cardinality(barcodes) = 1 THEN Only(barcodes) ELSE None

Item(o) ==
    [id |-> o.id, path |-> passed, available |-> Available(o), ean |-> Ean(o),
     price |-> IF Text(o, "price") = Blank THEN "0" ELSE Text(o, "price"),
     warned |-> Yml /\ Cardinality(o.barcodes \ {Blank}) > 1]

StartOffer ==
    /\ phase = "offers"
    /\ next <= Len(Doc.offers)
    /\ LET o == Doc.offers[next]
       IN  IF \/ o.id \in Ids(items) \/ Faulty(o)
              \/ Yml /\ Text(o, "category") \notin {Blank} \cup DOMAIN parents
             THEN Refuse
           ELSE /\ current' = Text(o, "category")
                /\ passed' = <<>>
                /\ phase' = "climb"
                /\ UNCHANGED <<job, next, parents, items>>

\* Mutant of Stray: a loop is not looked for.
StrayFromTree == current \notin DOMAIN parents

Stray == current \notin DOMAIN parents \/ current \in Range(passed)

\* _category_path: parse_legacy_xml refuses what parse_yml would pass over.
Climb ==
    /\ phase = "climb" /\ current # Blank
    /\ IF Stray /\ ~Yml THEN Refuse
       ELSE /\ passed' = IF Stray THEN passed ELSE <<current>> \o passed
            /\ current' = IF Stray THEN Blank ELSE parents[current]
            /\ UNCHANGED <<job, phase, next, parents, items>>

AppendItem ==
    /\ phase = "climb" /\ current = Blank
    /\ items' = Append(items, Item(Doc.offers[next]))
    /\ phase' = IF Yml /\ Len(items') > job.max THEN "refused" ELSE "offers"
    /\ next' = next + 1
    /\ UNCHANGED <<job, parents, current, passed>>

\* Every offer was read: the snapshot is returned unless it is too short.
Return ==
    /\ phase = "offers" /\ next > Len(Doc.offers)
    /\ phase' = IF Len(items) < job.min THEN "refused" ELSE "accepted"
    /\ UNCHANGED <<job, next, parents, current, passed, items>>

Step ==
    \/ CreateAdapter \/ ReadCategory \/ LastCategory
    \/ ValidateCategory \/ ClimbToValidate \/ Validated
    \/ StartOffer \/ Climb \/ AppendItem \/ Return
Next == Step \/ (phase \in Ended /\ UNCHANGED vars)

Spec == Init /\ [][Next]_vars
FairSpec == Spec /\ WF_vars(Step)

-----------------------------------------------------------------------------
\* The way up from category c that the document describes.
IsWholePath(path, c) ==
    IF c = Blank THEN path = <<>>
    ELSE /\ path # <<>> /\ Last(path) = c
         /\ \A i \in DOMAIN path : \E category \in Range(Doc.categories) :
              /\ category.id = path[i]
              /\ category.parent = IF i = 1 THEN Blank ELSE path[i - 1]

\* The category path of an item is never a piece of the tree: it starts at a
\* root and goes down to the category of its offer, whichever parser built it.
PathsAreWhole ==
    \A i \in DOMAIN items : IsWholePath(items[i].path, Text(Doc.offers[i], "category"))

\* A snapshot has every offer of the feed as one item, in order, within the
\* limits; none is available while the feed says it is out of stock or out of
\* production, and none has one of several barcodes.
SnapshotIsTheFeed ==
    phase = "accepted" =>
        /\ Len(items) = Len(Doc.offers) /\ Len(items) \in job.min..job.max
        /\ Cardinality(Ids(items)) = Len(items)
        /\ \A i \in DOMAIN items :
             LET o == Doc.offers[i]
             IN  /\ items[i].id = o.id
                 /\ items[i].available =>
                      /\ Yml \/ "0" \notin o.quantity
                      /\ job.supplier = "netlab" => "yes" \notin o.outOfProd
                 /\ items[i].ean # None => o.barcodes \ {Blank} = {items[i].ean}

\* The whole paths to a category, among all lines of categories.
Lines   == UNION {[1..n -> Ids(Doc.categories)] : n \in 0..Len(Doc.categories)}
Ways(c) == {path \in Lines : IsWholePath(path, c)}

\* What a parser must refuse.  parse_yml answers for every category of the feed,
\* parse_legacy_xml for those that its offers are in.
Unacceptable ==
    LET used == {Text(Doc.offers[i], "category") : i \in DOMAIN Doc.offers}
    IN  \/ <<job.supplier, job.prefix>>
              \notin {<<"electrozone", "11">>, <<"netlab", "31">>, <<"vetcom", "41">>}
        \/ ~Doc.sound
        \/ \E seq \in {Doc.categories, Doc.offers} :
             Blank \in Ids(seq) \/ Cardinality(Ids(seq)) < Len(seq)
        \/ \E c \in used \cup (IF Yml THEN Ids(Doc.categories) ELSE {}) : Ways(c) = {}
        \/ \E i \in DOMAIN Doc.offers : Faulty(Doc.offers[i])
        \/ Len(Doc.offers) \notin job.min..job.max

\* However the document winds, it is refused exactly when something is wrong
\* with it that its parser answers for.
VerdictIsDeserved == phase \in Ended => (phase = "refused" <=> Unacceptable)

\* How far a parse has come: its stage, the element that is next, and the
\* categories that it has climbed from there.
StageOf(p) ==
    CASE p = "adapter"                -> 0
      [] p = "categories"             -> 1
      [] p \in {"validate", "ascend"} -> 2
      [] p \in {"offers", "climb"}    -> 3
      [] p \in Ended                  -> 4
Stage   == StageOf(phase)
Climbed == IF phase \in {"climb", "ascend"} THEN 1 + Len(passed) ELSE 0

\* A step never goes back, and none is spent in place: a parse takes no more
\* steps than the stages, the elements and the categories allow, whatever the
\* category tree loops through.
ParseAdvances ==
    [][ /\ \/ Stage' > Stage
           \/ Stage' = Stage /\ next' > next
           \/ Stage' = Stage /\ next' = next /\ Climbed' > Climbed
        /\ next <= 1 + Len(IF Stage = 3 THEN Doc.offers ELSE Doc.categories)
        /\ Climbed <= 1 + Len(Doc.categories)
      ]_vars

\* Every parse comes to an end, whatever the category tree loops through.
EveryParseEnds == <>(phase \in Ended)
=============================================================================
