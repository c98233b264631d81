-------------------------- MODULE NetlabProperties --------------------------
(***************************************************************************)
(* scan_netlab_properties (netlab_properties.py): one pass over the ends   *)
(* of the elements of a GoodsProperties document.  Definitions and items   *)
(* are taken as they come, and each value of an item is handed to the      *)
(* caller at once, before the rest of the document is known to be sound.   *)
(***************************************************************************)
EXTENDS Integers, SequencesExt

CONSTANTS Scans  \* calls: the ends of elements, allow_unknown, whether the file opens

\* Elements that count; "broken" is where the XML reader gives up.
Tags == {"property", "properties", "item", "items", "broken"}
ASSUME ScanAssumption ==
    \A s \in Scans :
        /\ s.ends \in Seq(Range(s.ends))
        /\ \A i \in DOMAIN s.ends :
             /\ s.ends[i].tag \in Tags
             /\ s.ends[i].tag = "item" =>
                  /\ s.ends[i].values \in Seq(Range(s.ends[i].values))
                  /\ \A k \in DOMAIN s.ends[i].values : s.ends[i].values[k].missing \in BOOLEAN
        /\ {s.opens, s.allowUnknown} \subseteq BOOLEAN

VARIABLES
    scan,         \* the call
    verdict,      \* "none" while the scan goes on
    position,     \* the element whose end is next
    child,        \* the value of that item that is next
    definitions,  \* property ids defined so far
    itemIds,      \* items met so far
    emitted,      \* observations handed to the caller
    stats         \* the counters

scanVars == <<scan, verdict, position, child, definitions, itemIds, emitted, stats>>

NoStats == [properties |-> 0, items |-> 0, observations |-> 0, missing |-> 0,
            unknown |-> 0, unknownIds |-> {}, containers |-> <<0, 0>>]

ScanInit ==
    /\ scan \in Scans
    /\ verdict = "none" /\ position = 1 /\ child = 1
    /\ definitions = {} /\ itemIds = {} /\ emitted = <<>> /\ stats = NoStats

-----------------------------------------------------------------------------
Here   == scan.ends[position]
On(tag) == verdict = "none" /\ scan.opens /\ position <= Len(scan.ends) /\ Here.tag = tag
Count(field) == stats' = [stats EXCEPT ![field] = @ + 1]
Advance == position' = position + 1 /\ child' = 1

\* FeedValidationError, or whatever the caller's emit raises.
Reject ==
    /\ verdict' = "refused"
    /\ UNCHANGED <<scan, position, child, definitions, itemIds, emitted, stats>>

\* A file that cannot be read, a wrong root, a document that breaks off.
Broken ==
    /\ On("broken") \/ (verdict = "none" /\ ~scan.opens)
    /\ Reject

DefineProperty ==
    /\ On("property")
    /\ IF ~Here.valid \/ Here.id \in definitions THEN Reject
       ELSE /\ definitions' = definitions \cup {Here.id}
            /\ Count("properties")
            /\ Advance
            /\ UNCHANGED <<scan, verdict, itemIds, emitted>>

CloseContainer ==
    /\ On("properties") \/ On("items")
    /\ stats' = [stats EXCEPT !.containers[IF Here.tag = "items" THEN 2 ELSE 1] = @ + 1]
    /\ Advance
    /\ UNCHANGED <<scan, verdict, definitions, itemIds, emitted>>

\* The id of an item is checked before its first value.
ItemFaulty == child = 1 /\ (~Here.valid \/ Here.id \in itemIds)

\* Not a property tag, a repetition, or an unknown property.
ValueFaulty(value) ==
    \/ ~value.valid
    \/ \E k \in 1..child - 1 : Here.values[k].id = value.id
    \/ value.id \notin definitions /\ ~scan.allowUnknown

Observation(item, value) ==
    [item |-> item, property |-> value.id, missing |-> value.missing,
     definitionMissing |-> value.id \notin definitions]

\* Mutant of EmitValue: unknown properties are counted once each.
EmitValueCountingIds ==
    /\ On("item") /\ ~ItemFaulty /\ child <= Len(Here.values)
    /\ LET value == Here.values[child]
           new   == value.id \notin definitions \cup stats.unknownIds
       IN  IF ValueFaulty(value) THEN Reject
           ELSE /\ emitted' = Append(emitted, Observation(Here.id, value))
                /\ stats' = [stats EXCEPT
                     !.observations = @ + 1,
                     !.missing = @ + IF value.missing THEN 1 ELSE 0,
                     !.unknown = @ + IF new THEN 1 ELSE 0,
                     !.unknownIds = @ \cup ({value.id} \ definitions)]
                /\ itemIds' = itemIds \cup {Here.id}
                /\ child' = child + 1
                /\ UNCHANGED <<scan, verdict, position, definitions>>

EmitValue ==
    /\ On("item") /\ ~ItemFaulty /\ child <= Len(Here.values)
    /\ LET value == Here.values[child]
           known == value.id \in definitions
       IN  IF ValueFaulty(value) THEN Reject
           ELSE /\ emitted' = Append(emitted, Observation(Here.id, value))
                /\ stats' = [stats EXCEPT
                     !.observations = @ + 1,
                     !.missing = @ + IF value.missing THEN 1 ELSE 0,
                     !.unknown = @ + IF known THEN 0 ELSE 1,
                     !.unknownIds = @ \cup ({value.id} \ definitions)]
                /\ itemIds' = itemIds \cup {Here.id}
                /\ child' = child + 1
                /\ UNCHANGED <<scan, verdict, position, definitions>>

EmitRaises == On("item") /\ ~ItemFaulty /\ child <= Len(Here.values) /\ Reject

RejectItem == On("item") /\ ItemFaulty /\ Reject

EndItem ==
    /\ On("item") /\ ~ItemFaulty /\ child > Len(Here.values)
    /\ itemIds' = itemIds \cup {Here.id}
    /\ Count("items")
    /\ Advance
    /\ UNCHANGED <<scan, verdict, definitions, emitted>>

\* The document has ended: one container of each kind, and neither is empty.
Conclude ==
    /\ verdict = "none" /\ scan.opens /\ position > Len(scan.ends)
    /\ verdict' = IF stats.containers = <<1, 1>> /\ definitions # {} /\ itemIds # {}
                    THEN "accepted" ELSE "refused"
    /\ UNCHANGED <<scan, position, child, definitions, itemIds, emitted, stats>>

ScanStep ==
    \/ Broken \/ DefineProperty \/ CloseContainer
    \/ EmitValue \/ EmitRaises \/ RejectItem \/ EndItem
    \/ Conclude
ScanNext == ScanStep \/ (verdict # "none" /\ UNCHANGED scanVars)
ScanSpec == ScanInit /\ [][ScanNext]_scanVars

-----------------------------------------------------------------------------
\* The places of the values of the document, and of those the scan has passed.
ItemPlaces == {i \in DOMAIN scan.ends : scan.ends[i].tag = "item"}
Values == UNION {{<<i, k>> : k \in DOMAIN scan.ends[i].values} : i \in ItemPlaces}
Before(p, q) == p[1] < q[1] \/ (p[1] = q[1] /\ p[2] < q[2])
Handed == {p \in Values : Before(p, <<position, child>>)}

\* The n-th observation is the value at place p, of a property that is missing
\* when no definition of it stands before the item.
Shows(n, p) ==
    LET item  == scan.ends[p[1]]
        value == item.values[p[2]]
    IN  /\ emitted[n].item = item.id /\ emitted[n].property = value.id
        /\ emitted[n].missing = value.missing
        /\ emitted[n].definitionMissing <=>
             \A k \in 1..p[1] - 1 : scan.ends[k].tag = "property" => scan.ends[k].id # value.id

\* The caller has received the values of the document in order, none twice for
\* one item and property, up to where a scan was refused or is at work; the
\* counts of an accepted scan are those of what was received, all of it.
StatsMatchEmission ==
    /\ \A p \in Handed : \E n \in DOMAIN emitted : Shows(n, p)
    /\ \A n \in DOMAIN emitted : \E p \in Handed : Shows(n, p)
    /\ \A m, n \in DOMAIN emitted : \A p, q \in Handed :
          Shows(m, p) /\ Shows(n, q) => (m < n <=> Before(p, q))
    /\ \A m, n \in DOMAIN emitted :
          emitted[m].item = emitted[n].item /\ emitted[m].property = emitted[n].property => m = n
    /\ verdict = "accepted" =>
         LET strangers == {n \in DOMAIN emitted : emitted[n].definitionMissing}
         IN  /\ Handed = Values
             /\ stats.items = Cardinality(ItemPlaces) /\ stats.observations = Len(emitted)
             /\ stats.missing = Cardinality({n \in DOMAIN emitted : emitted[n].missing})
             /\ stats.unknown = Cardinality(strangers)
             /\ stats.unknownIds = {emitted[n].property : n \in strangers}
             /\ strangers # {} => scan.allowUnknown
=============================================================================
