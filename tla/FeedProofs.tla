---------------------------- MODULE FeedProofs ----------------------------
(***************************************************************************)
(* Proofs about NetlabProperties and FeedParser, for any documents.        *)
(*                                                                         *)
(* The property scan: a document is accepted after each of its values was  *)
(* handed to the caller once, in its order, whatever was refused before.   *)
(*                                                                         *)
(* The parsers: what was read of the category tree so far is a tree piece  *)
(* without double ids (TreeInv), a climb has passed distinct categories    *)
(* and follows every whole path there is from its start (ClimbInv), so it  *)
(* strays only when there is none.  Paths, snapshots and verdicts follow.  *)
(***************************************************************************)
EXTENDS FeedParser, NetlabProperties, FiniteSetTheorems, FunctionTheorems,
        SequenceTheorems, TLAPS

-----------------------------------------------------------------------------
\* The property scan.

\* The document of the scan is one of those assumed.
ScanType ==
    /\ scan \in Scans
    /\ verdict \in {"none", "accepted", "refused"}
    /\ position \in 1..Len(scan.ends) + 1
    /\ child \in Nat \ {0}
    /\ child > 1 => position \in ItemPlaces /\ child <= Len(Here.values) + 1
    /\ verdict = "accepted" => position = Len(scan.ends) + 1

\* What is known of the document so far.
Met == {i \in ItemPlaces : i < position \/ (i = position /\ child > 1)}
KnownInv ==
    /\ definitions = {scan.ends[k].id : k \in {k \in 1..position - 1 : scan.ends[k].tag = "property"}}
    /\ itemIds = {scan.ends[i].id : i \in Met}
    /\ \A i, j \in Met : scan.ends[i].id = scan.ends[j].id => i = j
    /\ \A p, q \in Handed :
         p[1] = q[1] /\ scan.ends[p[1]].values[p[2]].id = scan.ends[q[1]].values[q[2]].id
         => p = q

\* What the caller has received.
ReceivedInv ==
    /\ emitted \in Seq(Range(emitted))
    /\ \A p \in Handed : \E n \in DOMAIN emitted : Shows(n, p)
    /\ \A n \in DOMAIN emitted : \E p \in Handed : Shows(n, p)
    /\ \A m, n \in DOMAIN emitted : \A p, q \in Handed :
          Shows(m, p) /\ Shows(n, q) => (m < n <=> Before(p, q))
    /\ \A m, n \in DOMAIN emitted :
          emitted[m].item = emitted[n].item /\ emitted[m].property = emitted[n].property => m = n

\* The counters so far.
CountInv ==
    /\ stats.items = Cardinality({i \in ItemPlaces : i < position})
    /\ stats.observations = Len(emitted)
    /\ stats.missing = Cardinality({n \in DOMAIN emitted : emitted[n].missing})
    /\ stats.unknown = Cardinality({n \in DOMAIN emitted : emitted[n].definitionMissing})
    /\ stats.unknownIds =
         {emitted[n].property : n \in {n \in DOMAIN emitted : emitted[n].definitionMissing}}
    /\ (\E n \in DOMAIN emitted : emitted[n].definitionMissing) => scan.allowUnknown
    /\ DOMAIN stats = DOMAIN NoStats

ScanInv == ScanType /\ KnownInv /\ ReceivedInv /\ CountInv

\* Appending keeps a sequence a sequence.
LEMMA AppendRange ==
    ASSUME NEW s, s \in Seq(Range(s)), NEW x
    PROVE  /\ Append(s, x) \in Seq(Range(Append(s, x)))
           /\ Len(Append(s, x)) = Len(s) + 1
           /\ DOMAIN Append(s, x) = DOMAIN s \cup {Len(s) + 1}
           /\ Append(s, x)[Len(s) + 1] = x
           /\ \A i \in DOMAIN s : Append(s, x)[i] = s[i]
           /\ Len(s) \in Nat /\ DOMAIN s = 1..Len(s)
  <1> DEFINE T == Range(s) \cup {x}
             t == Append(s, x)
  <1>1. s \in Seq(T)
    BY SeqMonotonic
  <1> HIDE DEF T
  <1>2. Len(s) \in Nat /\ DOMAIN s = 1..Len(s)
    BY <1>1
  <1>3. /\ t \in Seq(T) /\ Len(t) = Len(s) + 1 /\ t[Len(s) + 1] = x
        /\ DOMAIN t = 1..Len(t)
        /\ \A i \in 1..Len(s) : t[i] = s[i]
    BY <1>1, <1>2 DEF T
  <1> HIDE DEF t
  <1>4. t \in [1..Len(t) -> Range(t)]
    BY <1>3, LenProperties DEF Range
  <1>5. t \in Seq(Range(t))
    BY <1>2, <1>3, <1>4, SeqDef
  <1> QED
    BY <1>2, <1>3, <1>5 DEF t

\* The document of a scan is a sequence, and so are the values of its items.
LEMMA DocumentType ==
    ASSUME ScanType
    PROVE  /\ Len(scan.ends) \in Nat /\ DOMAIN scan.ends = 1..Len(scan.ends)
           /\ \A i \in ItemPlaces :
                /\ Len(scan.ends[i].values) \in Nat
                /\ DOMAIN scan.ends[i].values = 1..Len(scan.ends[i].values)
                /\ \A k \in DOMAIN scan.ends[i].values :
                     scan.ends[i].values[k].missing \in BOOLEAN
           /\ \A i \in DOMAIN scan.ends : scan.ends[i].tag \in Tags
  <1>1. scan \in Scans
    BY DEF ScanType
  <1>2. scan.ends \in Seq(Range(scan.ends))
    BY <1>1, ScanAssumption, Zenon
  <1>3. \A i \in DOMAIN scan.ends : scan.ends[i].tag \in Tags
    BY <1>1, ScanAssumption, Zenon
  <1>4. ASSUME NEW i \in ItemPlaces
        PROVE  /\ scan.ends[i].values \in Seq(Range(scan.ends[i].values))
               /\ \A k \in DOMAIN scan.ends[i].values :
                    scan.ends[i].values[k].missing \in BOOLEAN
    BY <1>1, ScanAssumption, Zenon DEF ItemPlaces
  <1>5. \A s : s \in Seq(Range(s)) => Len(s) \in Nat /\ DOMAIN s = 1..Len(s)
    OBVIOUS
  <1> QED
    BY <1>2, <1>3, <1>4, <1>5, Zenon

\* The places of values, and those behind the scan.
LEMMA PlacesOfValues ==
    /\ \A p \in Values : /\ p = <<p[1], p[2]>> /\ p[1] \in ItemPlaces
                         /\ p[2] \in DOMAIN scan.ends[p[1]].values
    /\ \A i \in ItemPlaces : \A k \in DOMAIN scan.ends[i].values : <<i, k>> \in Values
  BY DEF Values

LEMMA PlacesHanded ==
    ASSUME ScanType
    PROVE  \A p \in Handed : /\ p \in Values
                             /\ p[1] \in Int /\ p[2] \in Int
                             /\ p[1] \in Met
                             /\ p[1] < position \/ (p[1] = position /\ p[2] < child)
  <1> SUFFICES ASSUME NEW p \in Handed
               PROVE  /\ p \in Values
                      /\ p[1] \in Int /\ p[2] \in Int
                      /\ p[1] \in Met
                      /\ p[1] < position \/ (p[1] = position /\ p[2] < child)
    OBVIOUS
  <1>1. p \in Values /\ (p[1] < position \/ (p[1] = position /\ p[2] < child))
    BY DEF Handed, Before
  <1>2. p[1] \in ItemPlaces /\ p[2] \in DOMAIN scan.ends[p[1]].values
    BY <1>1, PlacesOfValues
  <1>3. p[1] \in Int /\ p[2] \in Int /\ p[2] >= 1
    BY <1>2, DocumentType DEF ItemPlaces
  <1>4. p[1] \in Met
    BY <1>1, <1>2, <1>3 DEF Met, ScanType
  <1> QED
    BY <1>1, <1>3, <1>4

-----------------------------------------------------------------------------
\* A set of observations grows by one, or stays.
LEMMA OneMore ==
    ASSUME NEW S, IsFiniteSet(S), NEW x, x \notin S, NEW b \in BOOLEAN,
           NEW T, T = S \cup {y \in {x} : b}
    PROVE  IsFiniteSet(T) /\ Cardinality(T) = Cardinality(S) + IF b THEN 1 ELSE 0
  <1>1. CASE b
    <2>1. T = S \cup {x}
      BY <1>1
    <2> QED
      BY <1>1, <2>1, FS_AddElement
  <1>2. CASE ~b
    <2>1. T = S /\ Cardinality(S) \in Nat
      BY <1>2, FS_CardinalityType
    <2> QED
      BY <1>2, <2>1
  <1> QED
    BY <1>1, <1>2

\* Nothing was received before the first step.
LEMMA ScanInitInv == ScanInit => ScanInv
  <1> SUFFICES ASSUME ScanInit PROVE ScanInv
    OBVIOUS
  <1>1. ScanType
    <2>1. scan \in Scans
      BY DEF ScanInit
    <2>2. Len(scan.ends) \in Nat
      BY <2>1, ScanAssumption
    <2> QED
      BY <2>1, <2>2 DEF ScanInit, ScanType
  <1>2. Met = {}
    BY <1>1, DocumentType DEF ScanInit, Met, ItemPlaces
  <1>3. Handed = {}
    BY <1>1, <1>2, PlacesHanded
  <1>4. {i \in ItemPlaces : i < position} = {} /\ 1..position - 1 = {}
    BY <1>1, DocumentType DEF ScanInit, ItemPlaces
  <1>5. KnownInv
    BY <1>2, <1>3, <1>4 DEF ScanInit, KnownInv
  <1>6. emitted = <<>> /\ DOMAIN emitted = {} /\ Len(emitted) = 0
    BY DEF ScanInit
  <1>7. ReceivedInv
    BY <1>3, <1>6 DEF ReceivedInv
  <1>8. CountInv
    BY <1>4, <1>6, FS_EmptySet DEF ScanInit, CountInv, NoStats
  <1> QED
    BY <1>1, <1>5, <1>7, <1>8 DEF ScanInv

-----------------------------------------------------------------------------
\* Nothing is received, and no place is passed.
LEMMA ReceivedKept ==
    ASSUME ScanInv, UNCHANGED <<scan, emitted>>, Handed' = Handed
    PROVE  /\ ReceivedInv'
           /\ \A p, q \in Handed' :
                p[1] = q[1]
                /\ scan'.ends[p[1]].values[p[2]].id = scan'.ends[q[1]].values[q[2]].id
                => p = q
  <1>1. \A n, p : Shows(n, p)' <=> Shows(n, p)
    BY DEF Shows
  <1>2. \A p, q : Before(p, q)' <=> Before(p, q)
    BY DEF Before
  <1> QED
    BY <1>1, <1>2 DEF ScanInv, ReceivedInv, KnownInv

\* The scan goes on to the next element.
LEMMA AdvanceKeeps ==
    ASSUME ScanInv, UNCHANGED <<scan, emitted>>, Advance,
           position \in DOMAIN scan.ends,
           position \in ItemPlaces => child > Len(Here.values)
    PROVE  /\ ItemPlaces' = ItemPlaces
           /\ Handed' = Handed
           /\ Met' = Met \cup {i \in ItemPlaces : i = position}
           /\ (1..position - 1)' = (1..position - 1) \cup {position}
           /\ position' \in 1..Len(scan.ends) + 1
  <1>1. ScanType /\ position \in Nat /\ child \in Nat \ {0}
    BY DocumentType DEF ScanInv, ScanType
  <1>2. ItemPlaces' = ItemPlaces /\ Values' = Values
    BY DEF ItemPlaces, Values
  <1>3. position' = position + 1 /\ child' = 1
    BY DEF Advance
  <1>4. \A p \in Values : /\ p[1] \in ItemPlaces /\ p[1] \in Int /\ p[2] \in Int /\ p[2] >= 1
                          /\ p[1] = position => p[2] < child
    <2> SUFFICES ASSUME NEW p \in Values
                 PROVE  /\ p[1] \in ItemPlaces /\ p[1] \in Int /\ p[2] \in Int /\ p[2] >= 1
                        /\ p[1] = position => p[2] < child
      OBVIOUS
    <2>1. p[1] \in ItemPlaces /\ p[2] \in DOMAIN scan.ends[p[1]].values
      BY PlacesOfValues
    <2>2. /\ Len(scan.ends[p[1]].values) \in Nat
          /\ DOMAIN scan.ends[p[1]].values = 1..Len(scan.ends[p[1]].values)
      BY <1>1, <2>1, DocumentType
    <2>3. p[1] \in Int
      BY <1>1, <2>1, DocumentType DEF ItemPlaces
    <2> QED
      BY <1>1, <2>1, <2>2, <2>3 DEF Here
  <1>5. ASSUME NEW p \in Values
        PROVE  Before(p, <<position, child>>) <=> Before(p, <<position + 1, 1>>)
    BY <1>1, <1>4 DEF Before
  <1>6. Handed' = Handed
    BY <1>2, <1>3, <1>5 DEF Handed, Before
  <1>7. Met' = Met \cup {i \in ItemPlaces : i = position}
    <2>1. \A i \in ItemPlaces : i \in Int
      BY <1>1, DocumentType DEF ItemPlaces
    <2> QED
      BY <1>1, <1>2, <1>3, <2>1 DEF Met
  <1>8. (1..position - 1)' = (1..position - 1) \cup {position}
    BY <1>1, <1>3 DEF ScanType
  <1>9. position' \in 1..Len(scan.ends) + 1
    BY <1>1, <1>3, DocumentType
  <1> QED
    BY <1>2, <1>6, <1>7, <1>8, <1>9

\* Definitions and containers.
LEMMA BareStep ==
    ASSUME ScanInv, DefineProperty \/ CloseContainer, verdict' = verdict
    PROVE  ScanInv'
  <1>1. /\ position <= Len(scan.ends) /\ Here.tag \in {"property", "properties", "items"}
        /\ UNCHANGED <<scan, emitted, itemIds>> /\ Advance
        /\ verdict = "none"
    BY DEF DefineProperty, CloseContainer, On, Reject
  <1>2. ScanType /\ position \in DOMAIN scan.ends /\ position \notin ItemPlaces
    BY <1>1, DocumentType DEF ScanInv, ScanType, ItemPlaces, Here
  <1>3. /\ ItemPlaces' = ItemPlaces /\ Handed' = Handed
        /\ (1..position - 1)' = (1..position - 1) \cup {position}
        /\ position' \in 1..Len(scan.ends) + 1
        /\ Met' = Met
    BY <1>1, <1>2, AdvanceKeeps
  <1>4. ScanType'
    BY <1>1, <1>2, <1>3 DEF ScanType, Advance
  <1>5. definitions' = definitions \cup {scan.ends[k].id : k \in {k \in {position} : scan.ends[k].tag = "property"}}
    <2>1. CASE DefineProperty
      BY <2>1, <1>1 DEF DefineProperty, On, Here, Reject
    <2>2. CASE CloseContainer
      BY <2>2, <1>1 DEF CloseContainer, On, Here, Reject
    <2> QED
      BY <2>1, <2>2
  <1>6. KnownInv'
    <2>1. definitions' = {scan.ends[k].id : k \in {k \in 1..position' - 1 : scan.ends[k].tag = "property"}}
      BY <1>3, <1>5 DEF ScanInv, KnownInv
    <2>2. /\ itemIds' = {scan.ends[i].id : i \in Met'}
          /\ \A i, j \in Met' : scan.ends[i].id = scan.ends[j].id => i = j
      BY <1>1, <1>3 DEF ScanInv, KnownInv
    <2> QED
      BY <1>1, <1>3, <2>1, <2>2, ReceivedKept DEF KnownInv
  <1>7. ReceivedInv'
    BY <1>1, <1>3, ReceivedKept
  <1>8. /\ DOMAIN stats' = DOMAIN stats
        /\ stats'.items = stats.items /\ stats'.observations = stats.observations
        /\ stats'.missing = stats.missing /\ stats'.unknown = stats.unknown
        /\ stats'.unknownIds = stats.unknownIds
    BY <1>1 DEF DefineProperty, CloseContainer, Count, Reject, ScanInv, CountInv, NoStats
  <1>9. {i \in ItemPlaces : i < position}' = {i \in ItemPlaces : i < position}
    <2>1. \A i \in ItemPlaces : i \in Int /\ i # position
      BY <1>2, DocumentType DEF ItemPlaces
    <2> QED
      BY <1>1, <1>2, <1>3, <2>1 DEF Advance, ScanType
  <1>10. CountInv'
    BY <1>1, <1>8, <1>9 DEF ScanInv, CountInv
  <1> QED
    BY <1>4, <1>6, <1>7, <1>10 DEF ScanInv

\* An item ends.
LEMMA EndStep ==
    ASSUME ScanInv, EndItem
    PROVE  ScanInv'
  <1>1. /\ position <= Len(scan.ends) /\ Here.tag = "item" /\ child > Len(Here.values)
        /\ UNCHANGED <<scan, emitted, definitions>> /\ Advance
        /\ verdict = "none" /\ verdict' = verdict
        /\ itemIds' = itemIds \cup {Here.id} /\ Count("items")
        /\ child = 1 => Here.id \notin itemIds
    BY DEF EndItem, On, ItemFaulty
  <1>2. ScanType /\ position \in ItemPlaces /\ position \in DOMAIN scan.ends
    BY <1>1, DocumentType DEF ScanInv, ScanType, ItemPlaces, Here
  <1>3. /\ ItemPlaces' = ItemPlaces /\ Handed' = Handed
        /\ (1..position - 1)' = (1..position - 1) \cup {position}
        /\ position' \in 1..Len(scan.ends) + 1
        /\ Met' = Met \cup {position}
    BY <1>1, <1>2, AdvanceKeeps
  <1>4. ScanType'
    BY <1>1, <1>2, <1>3 DEF ScanType, Advance
  <1>5. definitions' = {scan.ends[k].id : k \in {k \in 1..position' - 1 : scan.ends[k].tag = "property"}}
    BY <1>1, <1>3 DEF ScanInv, KnownInv, Here
  <1>6. position \in Met \/ Here.id \notin itemIds
    BY <1>1, <1>2 DEF Met, ScanType
  <1>7. /\ itemIds' = {scan.ends[i].id : i \in Met'}
        /\ \A i, j \in Met' : scan.ends[i].id = scan.ends[j].id => i = j
    BY <1>1, <1>3, <1>6 DEF ScanInv, KnownInv, Here
  <1>8. KnownInv'
    BY <1>1, <1>3, <1>5, <1>7, ReceivedKept DEF KnownInv
  <1>9. ReceivedInv'
    BY <1>1, <1>3, ReceivedKept
  <1>10. /\ DOMAIN stats' = DOMAIN stats
         /\ stats'.items = stats.items + 1 /\ stats'.observations = stats.observations
         /\ stats'.missing = stats.missing /\ stats'.unknown = stats.unknown
         /\ stats'.unknownIds = stats.unknownIds
    BY <1>1 DEF Count, ScanInv, CountInv, NoStats
  <1>11. Cardinality({i \in ItemPlaces : i < position}') = Cardinality({i \in ItemPlaces : i < position}) + 1
    <2>1. \A i \in ItemPlaces : i \in 1..Len(scan.ends)
      BY <1>2, DocumentType DEF ItemPlaces
    <2>2. {i \in ItemPlaces : i < position}' = {i \in ItemPlaces : i < position} \cup {position}
      BY <1>1, <1>2, <1>3, <2>1 DEF Advance, ScanType
    <2>3. IsFiniteSet(1..Len(scan.ends))
      BY <1>2, DocumentType, FS_Interval
    <2>4. IsFiniteSet({i \in ItemPlaces : i < position})
      BY <2>1, <2>3, FS_Subset
    <2>5. position \notin {i \in ItemPlaces : i < position}
      BY <1>2 DEF ScanType
    <2> QED
      BY <2>2, <2>4, <2>5, FS_AddElement
  <1>12. CountInv'
    BY <1>1, <1>10, <1>11 DEF ScanInv, CountInv
  <1> QED
    BY <1>4, <1>8, <1>9, <1>12 DEF ScanInv

\* A value is handed on: the place passed and the observation belong together,
\* and no earlier ones are alike.
LEMMA EmitStep ==
    ASSUME ScanInv, EmitValue, verdict' = verdict
    PROVE  ScanInv'
  <1> DEFINE v   == Here.values[child]
             new == <<position, child>>
             N   == Len(emitted)
             o   == Observation(Here.id, v)
  <1>1. /\ position <= Len(scan.ends) /\ Here.tag = "item" /\ child <= Len(Here.values)
        /\ ~ItemFaulty /\ ~ValueFaulty(v)
        /\ UNCHANGED <<scan, position, definitions>>
        /\ verdict = "none" /\ child' = child + 1
        /\ itemIds' = itemIds \cup {Here.id}
        /\ emitted' = Append(emitted, o)
        /\ stats' = [stats EXCEPT
             !.observations = @ + 1,
             !.missing = @ + IF v.missing THEN 1 ELSE 0,
             !.unknown = @ + IF v.id \in definitions THEN 0 ELSE 1,
             !.unknownIds = @ \cup ({v.id} \ definitions)]
    BY DEF EmitValue, On, Reject
  <1>2. /\ ScanType /\ position \in ItemPlaces /\ position \in DOMAIN scan.ends
        /\ position \in Nat /\ child \in Nat \ {0}
    BY <1>1, DocumentType DEF ScanInv, ScanType, ItemPlaces, Here
  <1>3. /\ Len(Here.values) \in Nat /\ DOMAIN Here.values = 1..Len(Here.values)
        /\ v.missing \in BOOLEAN /\ child \in DOMAIN Here.values
    BY <1>1, <1>2, DocumentType DEF Here
  <1>4. ItemPlaces' = ItemPlaces /\ Values' = Values /\ Here' = Here
    BY <1>1 DEF ItemPlaces, Values, Here
  <1>5. ScanType'
    BY <1>1, <1>2, <1>3, <1>4 DEF ScanType
  <1>6. Met' = Met \cup {position}
    BY <1>1, <1>2, <1>4 DEF Met
  <1>7. \A p \in Handed : /\ p \in Values /\ p[1] \in Int /\ p[2] \in Int /\ p[1] \in Met
                          /\ Before(p, new) /\ ~Before(new, p)
    <2>1. \A p \in Handed : /\ p \in Values /\ p[1] \in Int /\ p[2] \in Int /\ p[1] \in Met
                            /\ p[1] < position \/ (p[1] = position /\ p[2] < child)
      BY <1>2, PlacesHanded
    <2> QED
      BY <1>2, <2>1 DEF Before
  <1>8. Handed' = Handed \cup {new}
    <2>1. new \in Values
      BY <1>2, <1>3, PlacesOfValues DEF Here
    <2>2. ASSUME NEW p \in Values
          PROVE  Before(p, <<position, child + 1>>) <=> Before(p, new) \/ p = new
      <3>1. p = <<p[1], p[2]>> /\ p[1] \in ItemPlaces /\ p[2] \in DOMAIN scan.ends[p[1]].values
        BY PlacesOfValues
      <3>2. p[2] \in Int
        BY <1>2, <3>1, DocumentType
      <3>3. p[1] = position /\ p[2] = child => p = new
        BY <3>1
      <3> HIDE DEF new
      <3>4. new[1] = position /\ new[2] = child
        BY DEF new
      <3> QED
        BY <1>2, <3>2, <3>3, <3>4 DEF Before
    <2>3. \A p, q : Before(p, q)' <=> Before(p, q)
      BY DEF Before
    <2>4. Handed' = {p \in Values : Before(p, <<position, child + 1>>)}
      BY <1>1, <1>4, <2>3 DEF Handed
    <2> QED
      BY <2>1, <2>2, <2>4 DEF Handed
  <1>9. new[1] = position /\ new[2] = child /\ ~Before(new, new)
    BY <1>2 DEF Before
  <1>10. ASSUME NEW p \in Handed
         PROVE  ~(scan.ends[p[1]].id = Here.id /\ scan.ends[p[1]].values[p[2]].id = v.id)
    <2>1. p[1] \in Met /\ p[1] \in ItemPlaces /\ p[2] \in DOMAIN scan.ends[p[1]].values
      BY <1>7, PlacesOfValues
    <2>2. CASE p[1] = position
      <3>1. p[2] \in 1..child - 1
        BY <1>2, <1>3, <1>7, <2>1, <2>2 DEF Before, Here
      <3> QED
        BY <1>1, <2>2, <3>1 DEF ValueFaulty, Here
    <2>3. CASE p[1] # position
      <3>1. scan.ends[p[1]].id \in itemIds
        BY <2>1 DEF ScanInv, KnownInv
      <3>2. CASE child = 1
        BY <1>1, <3>1, <3>2 DEF ItemFaulty
      <3>3. CASE child # 1
        <4>1. position \in Met
          BY <1>2, <3>3 DEF Met
        <4> QED
          BY <2>1, <2>3, <4>1 DEF ScanInv, KnownInv, Here
      <3> QED
        BY <3>2, <3>3
    <2> QED
      BY <2>2, <2>3
  <1>11. /\ N \in Nat /\ DOMAIN emitted = 1..N
         /\ emitted' \in Seq(Range(emitted')) /\ Len(emitted') = N + 1
         /\ DOMAIN emitted' = DOMAIN emitted \cup {N + 1} /\ N + 1 \notin DOMAIN emitted
         /\ emitted'[N + 1] = o
         /\ \A n \in DOMAIN emitted : emitted'[n] = emitted[n]
    <2>1. emitted \in Seq(Range(emitted))
      BY DEF ScanInv, ReceivedInv
    <2> HIDE DEF o
    <2>2. /\ emitted' \in Seq(Range(emitted')) /\ Len(emitted') = Len(emitted) + 1
          /\ DOMAIN emitted' = DOMAIN emitted \cup {Len(emitted) + 1}
          /\ emitted'[Len(emitted) + 1] = o
          /\ \A n \in DOMAIN emitted : emitted'[n] = emitted[n]
          /\ Len(emitted) \in Nat /\ DOMAIN emitted = 1..Len(emitted)
      BY <1>1, <2>1, AppendRange
    <2> QED
      BY <2>2
  <1>12. /\ o.item = Here.id /\ o.property = v.id /\ o.missing = v.missing
         /\ o.definitionMissing <=> v.id \notin definitions
    BY DEF Observation
  <1> HIDE DEF o, v, new, N
  <1>13. ASSUME NEW n \in DOMAIN emitted
         PROVE  ~(emitted[n].item = Here.id /\ emitted[n].property = v.id)
    <2>1. PICK p \in Handed : Shows(n, p)
      BY DEF ScanInv, ReceivedInv
    <2> QED
      BY <1>10, <2>1 DEF Shows
  <1>14. /\ \A n \in DOMAIN emitted : \A p : Shows(n, p)' <=> Shows(n, p)
         /\ \A n, p : n = N + 1 /\ p = new => Shows(n, p)'
         /\ \A n : n = N + 1 => \A p \in Handed : ~Shows(n, p)'
         /\ \A p : p = new => \A n \in DOMAIN emitted : ~Shows(n, p)'
    <2>1. \A n \in DOMAIN emitted : \A p : Shows(n, p)' <=> Shows(n, p)
      BY <1>1, <1>11 DEF Shows
    <2>2. v.id \notin definitions <=>
            \A k \in 1..position - 1 : scan.ends[k].tag = "property" => scan.ends[k].id # v.id
      BY DEF ScanInv, KnownInv
    <2>3. /\ scan' = scan /\ emitted'[N + 1] = o
          /\ scan.ends[new[1]].id = Here.id
          /\ scan.ends[new[1]].values[new[2]] = v /\ new[1] = position
      BY <1>1, <1>9, <1>11 DEF Here, v
    <2>4. ASSUME NEW n, NEW p, n = N + 1, p = new PROVE Shows(n, p)'
      BY <1>12, <2>2, <2>4, <2>3 DEF Shows
    <2>5. \A n : n = N + 1 => \A p \in Handed : ~Shows(n, p)'
      BY <1>1, <1>10, <1>11, <1>12 DEF Shows
    <2>6. \A p : p = new => \A n \in DOMAIN emitted : ~Shows(n, p)'
      BY <1>11, <1>13, <2>3 DEF Shows
    <2> QED
      BY <2>1, <2>4, <2>5, <2>6
  <1>15. KnownInv'
    <2>1. definitions' = {scan.ends[k].id : k \in {k \in 1..position' - 1 : scan.ends[k].tag = "property"}}
      BY <1>1 DEF ScanInv, KnownInv
    <2>2. position \in Met \/ Here.id \notin itemIds
      BY <1>1, <1>2 DEF Met, ItemFaulty
    <2>3. /\ itemIds' = {scan.ends[i].id : i \in Met'}
          /\ \A i, j \in Met' : scan.ends[i].id = scan.ends[j].id => i = j
      BY <1>1, <1>6, <2>2 DEF ScanInv, KnownInv, Here
    <2>4. ASSUME NEW p \in Handed', NEW q \in Handed', p[1] = q[1],
                 scan.ends[p[1]].values[p[2]].id = scan.ends[q[1]].values[q[2]].id
          PROVE  p = q
      <3>1. CASE p \in Handed /\ q \in Handed
        BY <2>4, <3>1 DEF ScanInv, KnownInv
      <3>2. CASE p = new \/ q = new
        BY <1>8, <1>9, <1>10, <2>4, <3>2 DEF Here, v
      <3> QED
        BY <1>8, <3>1, <3>2
    <2> QED
      BY <1>1, <2>1, <2>3, <2>4 DEF KnownInv
  <1>16. ReceivedInv'
    <2>1. \A p \in Handed' : \E n \in DOMAIN emitted' : Shows(n, p)'
      BY <1>8, <1>11, <1>14 DEF ScanInv, ReceivedInv
    <2>2. \A n \in DOMAIN emitted' : \E p \in Handed' : Shows(n, p)'
      BY <1>8, <1>11, <1>14 DEF ScanInv, ReceivedInv
    <2>3. ASSUME NEW m \in DOMAIN emitted', NEW n \in DOMAIN emitted',
                 NEW p \in Handed', NEW q \in Handed', Shows(m, p)', Shows(n, q)'
          PROVE  m < n <=> Before(p, q)
      <3>1. CASE m \in DOMAIN emitted /\ n \in DOMAIN emitted
        <4>1. p \in Handed /\ q \in Handed /\ Shows(m, p) /\ Shows(n, q)
          BY <1>8, <1>14, <2>3, <3>1
        <4> QED
          BY <3>1, <4>1 DEF ScanInv, ReceivedInv
      <3>2. CASE m \in DOMAIN emitted /\ n = N + 1
        <4>1. p \in Handed /\ q = new
          BY <1>8, <1>14, <2>3, <3>2
        <4> QED
          BY <1>7, <1>11, <3>2, <4>1
      <3>3. CASE m = N + 1 /\ n \in DOMAIN emitted
        <4>1. p = new /\ q \in Handed
          BY <1>8, <1>14, <2>3, <3>3
        <4> QED
          BY <1>7, <1>11, <3>3, <4>1
      <3>4. CASE m = N + 1 /\ n = N + 1
        <4>1. p = new /\ q = new
          BY <1>8, <1>14, <2>3, <3>4
        <4> QED
          BY <1>9, <1>11, <3>4, <4>1
      <3> QED
        BY <1>11, <3>1, <3>2, <3>3, <3>4
    <2>4. \A m, n \in DOMAIN emitted' :
             emitted'[m].item = emitted'[n].item /\ emitted'[m].property = emitted'[n].property
             => m = n
      BY <1>11, <1>12, <1>13 DEF ScanInv, ReceivedInv
    <2>5. \A p, q : Before(p, q)' <=> Before(p, q)
      BY DEF Before
    <2> QED
      BY <1>11, <2>1, <2>2, <2>3, <2>4, <2>5 DEF ReceivedInv
  <1>17. CountInv'
    <2>1. /\ DOMAIN stats' = DOMAIN stats
          /\ stats'.items = stats.items /\ stats'.observations = stats.observations + 1
          /\ stats'.missing = stats.missing + IF v.missing THEN 1 ELSE 0
          /\ stats'.unknown = stats.unknown + IF v.id \notin definitions THEN 1 ELSE 0
          /\ stats'.unknownIds = stats.unknownIds \cup ({v.id} \ definitions)
      BY <1>1 DEF ScanInv, CountInv, NoStats
    <2>2. IsFiniteSet(DOMAIN emitted)
      BY <1>11, FS_Interval
    <2> DEFINE S == {n \in DOMAIN emitted : emitted[n].missing}
               T == {n \in DOMAIN emitted : emitted[n].definitionMissing}
    <2>3. S' = S \cup {y \in {N + 1} : v.missing}
      BY <1>11, <1>12
    <2>4. T' = T \cup {y \in {N + 1} : v.id \notin definitions}
      BY <1>11, <1>12
    <2>5. /\ IsFiniteSet(S) /\ IsFiniteSet(T) /\ N + 1 \notin S /\ N + 1 \notin T
          /\ T \subseteq DOMAIN emitted
      BY <1>11, <2>2, FS_Subset
    <2>6. {emitted'[n].property : n \in T'} =
            {emitted[n].property : n \in T} \cup ({v.id} \ definitions)
      <3>1. \A n \in T : emitted'[n] = emitted[n]
        BY <1>11, <2>5
      <3>2. emitted'[N + 1].property = v.id
        BY <1>11, <1>12
      <3> HIDE DEF T
      <3> QED
        BY <2>4, <3>1, <3>2
    <2>7. (\E n \in DOMAIN emitted' : emitted'[n].definitionMissing) => scan.allowUnknown
      <3>1. v.id \notin definitions => scan.allowUnknown
        BY <1>1 DEF ValueFaulty
      <3> QED
        BY <1>11, <1>12, <3>1 DEF ScanInv, CountInv
    <2>8. /\ stats.items = Cardinality({i \in ItemPlaces : i < position})
          /\ stats.observations = N
          /\ stats.missing = Cardinality(S) /\ stats.unknown = Cardinality(T)
          /\ stats.unknownIds = {emitted[n].property : n \in T}
          /\ DOMAIN stats = DOMAIN NoStats
      BY DEF ScanInv, CountInv, N
    <2>9. (v.id \notin definitions) \in BOOLEAN
      OBVIOUS
    <2> HIDE DEF S, T
    <2>10. stats'.missing = Cardinality(S')
      BY <1>3, <2>1, <2>3, <2>5, <2>8, OneMore DEF v
    <2>11. stats'.unknown = Cardinality(T')
      <3>1. PICK b \in BOOLEAN : b <=> v.id \notin definitions
        BY <2>9
      <3>2. T' = T \cup {y \in {N + 1} : b}
        BY <2>4, <3>1
      <3>3. Cardinality(T') = Cardinality(T) + IF b THEN 1 ELSE 0
        BY <2>5, <3>2, OneMore
      <3> QED
        BY <2>1, <2>8, <3>1, <3>3
    <2>12. stats'.unknownIds = {emitted'[n].property : n \in T'}
      BY <2>1, <2>6, <2>8
    <2>13. /\ stats'.items = Cardinality({i \in ItemPlaces : i < position}')
           /\ stats'.observations = Len(emitted')
      BY <1>1, <1>4, <1>11, <2>1, <2>8
    <2> USE DEF S, T
    <2> QED
      BY <1>1, <2>1, <2>7, <2>8, <2>10, <2>11, <2>12, <2>13 DEF CountInv
  <1> QED
    BY <1>5, <1>15, <1>16, <1>17 DEF ScanInv

\* Every step of the scan keeps what is known of it.
LEMMA ScanStepInv == ScanInv /\ [ScanNext]_scanVars => ScanInv'
  <1> SUFFICES ASSUME ScanInv, [ScanNext]_scanVars PROVE ScanInv'
    OBVIOUS
  <1>1. ASSUME UNCHANGED <<scan, position, child, definitions, itemIds, emitted, stats>>,
               verdict' \in {"none", "accepted", "refused"},
               verdict' = "accepted" => position = Len(scan.ends) + 1
        PROVE  ScanInv'
    <2>1. ItemPlaces' = ItemPlaces /\ Values' = Values /\ Here' = Here /\ Met' = Met
      BY <1>1 DEF ItemPlaces, Values, Here, Met
    <2>2. Handed' = Handed
      BY <1>1, <2>1 DEF Handed, Before
    <2>3. ScanType' /\ CountInv'
      BY <1>1, <2>1 DEF ScanInv, ScanType, CountInv
    <2>4. ReceivedInv'
      BY <1>1, <2>2, ReceivedKept
    <2>5. KnownInv'
      BY <1>1, <2>1, <2>2, ReceivedKept DEF ScanInv, KnownInv
    <2> QED
      BY <2>3, <2>4, <2>5 DEF ScanInv
  <1>2. CASE Reject
    BY <1>1, <1>2 DEF Reject
  <1>3. CASE UNCHANGED scanVars
    BY <1>1, <1>3 DEF scanVars, ScanInv, ScanType
  <1>4. CASE Conclude
    <2>1. position = Len(scan.ends) + 1
      BY <1>4, DocumentType DEF Conclude, ScanInv, ScanType
    <2> QED
      BY <1>1, <1>4, <2>1 DEF Conclude
  <1>5. CASE (DefineProperty \/ CloseContainer) /\ ~Reject
    BY <1>5, BareStep DEF DefineProperty, CloseContainer
  <1>6. CASE EmitValue /\ ~Reject
    BY <1>6, EmitStep DEF EmitValue
  <1>7. CASE EndItem
    BY <1>7, EndStep
  <1> QED
    BY <1>2, <1>3, <1>4, <1>5, <1>6, <1>7
       DEF ScanNext, ScanStep, Broken, EmitRaises, RejectItem

THEOREM ScanInvariant == ScanSpec => []ScanInv
  <1> QED
    BY ScanInitInv, ScanStepInv, PTL DEF ScanSpec

\* However long the document, the caller of scan_netlab_properties has received
\* its values in order and each once, and the counts of an accepted scan are
\* those of the observations received (netlab_properties.py).
THEOREM ScanEmitsTheDocument == ScanSpec => []StatsMatchEmission
  <1>1. ScanInv => StatsMatchEmission
    <2> SUFFICES ASSUME ScanInv PROVE StatsMatchEmission
      OBVIOUS
    <2>1. CASE verdict = "accepted"
      <3>1. position = Len(scan.ends) + 1 /\ ScanType
        BY <2>1 DEF ScanInv, ScanType
      <3>2. \A i \in ItemPlaces : i \in Int /\ i < position
        BY <3>1, DocumentType DEF ItemPlaces
      <3>3. Handed = Values
        BY <3>2, PlacesOfValues DEF Handed, Before
      <3>4. {i \in ItemPlaces : i < position} = ItemPlaces
        BY <3>2
      <3> QED
        BY <3>3, <3>4 DEF ScanInv, ReceivedInv, CountInv, StatsMatchEmission
    <2>2. CASE verdict # "accepted"
      BY <2>2 DEF ScanInv, ReceivedInv, StatsMatchEmission
    <2> QED
      BY <2>1, <2>2
  <1> QED
    BY <1>1, ScanInvariant, PTL

-----------------------------------------------------------------------------
\* The parsers.

\* The categories that were read, and those of them that were validated.
Read ==
    IF phase = "adapter" THEN {}
    ELSE IF phase = "categories" THEN 1..next - 1 ELSE DOMAIN Doc.categories
Checked ==
    IF phase \in {"validate", "ascend"} THEN 1..next - 1 ELSE DOMAIN Doc.categories

\* The call is one of those assumed.
FeedType ==
    /\ job \in Jobs
    /\ phase \in {"adapter", "categories", "validate", "ascend", "offers", "climb"} \cup Ended
    /\ next \in Nat \ {0}
    /\ phase \in {"categories", "validate"} => next <= Len(Doc.categories) + 1
    /\ phase = "ascend" => next <= Len(Doc.categories)
    /\ phase = "offers" => next <= Len(Doc.offers) + 1
    /\ phase = "climb" => next <= Len(Doc.offers)
    /\ phase \in {"validate", "ascend"} => Yml
    /\ phase = "adapter" => next = 1 /\ parents = <<>>
    /\ phase \in {"adapter", "categories", "validate"} => passed = <<>>
    /\ phase \in {"adapter", "categories", "validate", "ascend"} => items = <<>>
    /\ items \in Seq(Range(items))

\* What create_adapter and the limits have let through.
AdapterInv ==
    phase \notin {"adapter", "refused"} =>
        /\ job.supplier \in DOMAIN CatalogSkuPrefix /\ CatalogSkuPrefix[job.supplier] = job.prefix
        /\ Doc.sound
        /\ ~Yml => Len(Doc.offers) <= job.max

\* What was read of the tree has no blank and no double ids.
TreeInv ==
    phase # "refused" =>
        /\ DOMAIN parents = {Doc.categories[k].id : k \in Read}
        /\ Blank \notin DOMAIN parents
        /\ \A k \in Read : parents[Doc.categories[k].id] = Doc.categories[k].parent
        /\ \A j, k \in Read : Doc.categories[j].id = Doc.categories[k].id => j = k

\* Each category is the parent of the one after it, and none comes twice.
Joined(w)   == \A i \in DOMAIN w : i > 1 => parents[w[i]] = w[i - 1]
Distinct(w) == \A i, j \in DOMAIN w : w[i] = w[j] => i = j

\* What _validate_categories has found of the categories behind it.
Rooted(c) ==
    \E w \in Lines : /\ w # <<>> /\ Last(w) = c /\ Distinct(w) /\ Joined(w)
                     /\ parents[w[1]] \notin DOMAIN parents
YmlInv ==
    Yml /\ phase \in {"validate", "ascend", "offers", "climb", "accepted"} =>
        /\ \A k \in Checked : /\ Doc.categories[k].parent \in {Blank} \cup DOMAIN parents
                              /\ Rooted(Doc.categories[k].id)
        /\ phase = "ascend" => Doc.categories[next].parent \in {Blank} \cup DOMAIN parents

\* Where a climb starts; what it passed is the lower end of every whole path
\* to there, and the category that it has reached is next on the way up.
Start == IF phase = "climb" THEN Text(Doc.offers[next], "category") ELSE Doc.categories[next].id
Follows(w, climbed, at) ==
    /\ Len(climbed) <= Len(w)
    /\ \A i \in DOMAIN climbed : climbed[i] = w[Len(w) - Len(climbed) + i]
    /\ at = IF Len(climbed) < Len(w) THEN w[Len(w) - Len(climbed)] ELSE Blank
ClimbInv ==
    phase \in {"climb", "ascend"} =>
        /\ passed \in Seq(DOMAIN parents)
        /\ Distinct(passed) /\ Joined(passed)
        /\ passed = <<>> => current = Start
        /\ passed # <<>> =>
             /\ Last(passed) = Start
             /\ LET up == parents[passed[1]]
                IN  current = IF phase = "climb" \/ up \in DOMAIN parents THEN up ELSE Blank
        /\ phase = "ascend" => current \in {Blank} \cup DOMAIN parents
        /\ phase = "climb" /\ Yml => Start \in {Blank} \cup DOMAIN parents
        /\ \A w \in Ways(Start) : Follows(w, passed, current)

\* The items are those of the first offers, which had nothing wrong with them.
Made ==
    /\ Len(items) <= Len(Doc.offers)
    /\ \A i \in DOMAIN items :
         LET o == Doc.offers[i]
         IN  /\ ~Faulty(o)
             /\ items[i].id = o.id /\ items[i].available = Available(o) /\ items[i].ean = Ean(o)
             /\ items[i].path \in Ways(Text(o, "category"))
    /\ \A i, j \in DOMAIN items : items[i].id = items[j].id => i = j
ItemInv ==
    /\ phase \in {"offers", "climb"} => Len(items) = next - 1
    /\ phase = "accepted" => Len(items) = Len(Doc.offers) /\ Len(items) >= job.min
    /\ Made
    /\ Yml /\ phase # "refused" => Len(items) <= job.max
    /\ phase = "climb" => ~Faulty(Doc.offers[next]) /\ Doc.offers[next].id \notin Ids(items)
VerdictInv == phase = "refused" => Unacceptable

FeedInv == FeedType /\ AdapterInv /\ TreeInv /\ YmlInv /\ ClimbInv /\ ItemInv /\ VerdictInv

-----------------------------------------------------------------------------
\* What is assumed of a call.
LEMMA JobType ==
    ASSUME job \in Jobs
    PROVE  /\ Len(Doc.categories) \in Nat /\ DOMAIN Doc.categories = 1..Len(Doc.categories)
           /\ Len(Doc.offers) \in Nat /\ DOMAIN Doc.offers = 1..Len(Doc.offers)
           /\ job.min \in Nat /\ job.max \in Nat
           /\ \A i \in DOMAIN Doc.offers : \A field \in Fields : IsFiniteSet(Doc.offers[i][field])
  <1>1. IsDocument(Doc) /\ job.min \in Nat /\ job.max \in Nat
    BY JobAssumption DEF Doc
  <1>2. /\ Doc.categories \in Seq(Range(Doc.categories)) /\ Doc.offers \in Seq(Range(Doc.offers))
        /\ \A i \in DOMAIN Doc.offers : \A field \in Fields : IsFiniteSet(Doc.offers[i][field])
    BY <1>1, Zenon DEF IsDocument
  <1>3. \A s : s \in Seq(Range(s)) => Len(s) \in Nat /\ DOMAIN s = 1..Len(s)
    OBVIOUS
  <1> QED
    BY <1>1, <1>2, <1>3, Zenon

\* What only depends on the call.
LEMMA JobFixed ==
    ASSUME job' = job
    PROVE  /\ Doc' = Doc /\ (Yml' <=> Yml)
           /\ \A o, field : Text(o, field)' = Text(o, field)
           /\ \A o : Faulty(o)' <=> Faulty(o)
           /\ \A o : Available(o)' = Available(o) /\ Ean(o)' = Ean(o)
           /\ Lines' = Lines
           /\ \A c : Ways(c)' = Ways(c)
           /\ Unacceptable' <=> Unacceptable
  <1>1. Doc' = Doc /\ (Yml' <=> Yml)
    BY DEF Doc, Yml
  <1>2. \A o, field : Texts(o, field)' = Texts(o, field)
    BY <1>1 DEF Texts
  <1>3. \A o, field : Text(o, field)' = Text(o, field)
    BY <1>2 DEF Text
  <1>4. \A o : Conflicting(o)' <=> Conflicting(o)
    BY <1>2 DEF Conflicting
  <1>5. \A o : (YmlFaulty(o)' <=> YmlFaulty(o)) /\ (LegacyFaulty(o)' <=> LegacyFaulty(o))
    BY <1>3 DEF YmlFaulty, LegacyFaulty
  <1>6. \A o : Faulty(o)' <=> Faulty(o)
    BY <1>1, <1>3, <1>4, <1>5 DEF Faulty
  <1>7. \A o : Available(o)' = Available(o) /\ Ean(o)' = Ean(o)
    BY <1>1, <1>3 DEF Available, Ean
  <1>8. Lines' = Lines
    BY <1>1 DEF Lines, Ids
  <1>9. \A path, c : IsWholePath(path, c)' <=> IsWholePath(path, c)
    BY <1>1 DEF IsWholePath
  <1>10. \A c : Ways(c)' = Ways(c)
    BY <1>8, <1>9 DEF Ways
  <1>11. Unacceptable' <=> Unacceptable
    BY <1>1, <1>3, <1>6, <1>10 DEF Unacceptable, Ids
  <1> QED
    BY <1>1, <1>3, <1>6, <1>7, <1>8, <1>10, <1>11

\* A set of naturals has a least one.
LEMMA LeastNatural ==
    ASSUME NEW T \in SUBSET Nat, T # {}
    PROVE  \E x \in T : \A y \in T : x <= y
  <1>1. PICK x \in T : \A y \in T : ~(<<y, x>> \in OpToRel(<, Nat))
    BY NatLessThanWellFounded, WFMin
  <1>2. \A y \in T : ~(y < x)
    BY <1>1 DEF OpToRel
  <1> QED
    BY <1>2

\* The length of a sequence is the number of its places.
LEMMA PlacesCounted ==
    ASSUME NEW n \in Nat
    PROVE  IsFiniteSet(1..n) /\ Cardinality(1..n) = n
  <1>1. 1 \in Int /\ n \in Int
    OBVIOUS
  <1>2. IsFiniteSet(1..n) /\ Cardinality(1..n) = IF 1 > n THEN 0 ELSE n - 1 + 1
    BY <1>1, FS_Interval, Zenon
  <1> QED
    BY <1>2

\* Ids that differ are as many as there are places, others are fewer.
LEMMA IdsCounted ==
    ASSUME NEW seq, Len(seq) \in Nat, DOMAIN seq = 1..Len(seq)
    PROVE  /\ IsFiniteSet(Ids(seq)) /\ Cardinality(Ids(seq)) \in Nat
           /\ Cardinality(Ids(seq)) <= Len(seq)
           /\ (\A i, j \in DOMAIN seq : seq[i].id = seq[j].id => i = j)
                <=> Cardinality(Ids(seq)) = Len(seq)
  <1> DEFINE f == [i \in 1..Len(seq) |-> seq[i].id]
  <1>1. f \in Surjection(1..Len(seq), Ids(seq))
    <2>1. f \in [1..Len(seq) -> Ids(seq)]
      BY DEF Ids
    <2>2. \A id \in Ids(seq) : \E i \in 1..Len(seq) : f[i] = id
      BY DEF Ids
    <2> HIDE DEF f
    <2> QED
      BY <2>1, <2>2 DEF Surjection
  <1>2. IsFiniteSet(1..Len(seq)) /\ Cardinality(1..Len(seq)) = Len(seq)
    BY PlacesCounted
  <1>3. f \in Injection(1..Len(seq), Ids(seq)) <=>
          \A i, j \in DOMAIN seq : seq[i].id = seq[j].id => i = j
    <2>1. f \in [1..Len(seq) -> Ids(seq)]
      BY <1>1 DEF Surjection
    <2>2. \A i \in 1..Len(seq) : f[i] = seq[i].id
      OBVIOUS
    <2> HIDE DEF f
    <2> QED
      BY <2>1, <2>2 DEF Injection, IsInjective
  <1> HIDE DEF f
  <1>4. /\ IsFiniteSet(Ids(seq)) /\ Cardinality(Ids(seq)) <= Cardinality(1..Len(seq))
        /\ Cardinality(Ids(seq)) = Cardinality(1..Len(seq)) <=> f \in Injection(1..Len(seq), Ids(seq))
    BY <1>1, <1>2, FS_Surjection
  <1> QED
    BY <1>2, <1>3, <1>4, FS_CardinalityType

\* A path gets longer at its root.
LEMMA Prepended ==
    ASSUME NEW S, NEW s \in Seq(S), NEW x \in S
    PROVE  LET t == <<x>> \o s
           IN  /\ t \in Seq(S) /\ t # <<>> /\ Len(t) = Len(s) + 1 /\ Len(s) \in Nat
               /\ DOMAIN t = 1..Len(s) + 1 /\ DOMAIN s = 1..Len(s)
               /\ t[1] = x
               /\ \A i \in 2..Len(s) + 1 : t[i] = s[i - 1]
  <1> DEFINE t == <<x>> \o s
  <1>1. <<x>> \in Seq(S) /\ Len(<<x>>) = 1 /\ <<x>>[1] = x
    OBVIOUS
  <1>2. Len(s) \in Nat /\ DOMAIN s = 1..Len(s)
    OBVIOUS
  <1>3. /\ t \in Seq(S) /\ Len(t) = 1 + Len(s)
        /\ \A i \in 1..1 + Len(s) : t[i] = IF i <= 1 THEN <<x>>[i] ELSE s[i - 1]
    BY <1>1, ConcatProperties
  <1> HIDE DEF t
  <1>4. DOMAIN t = 1..Len(t) /\ (t = <<>> => Len(t) = 0)
    BY <1>3
  <1>5. t # <<>> /\ t[1] = x /\ \A i \in 2..Len(s) + 1 : t[i] = s[i - 1]
    BY <1>1, <1>2, <1>3, <1>4
  <1> QED
    BY <1>2, <1>3, <1>4, <1>5 DEF t

-----------------------------------------------------------------------------
\* The cases of Unacceptable.
LEMMA Reasons ==
    /\ \/ job.supplier \notin DOMAIN CatalogSkuPrefix
       \/ CatalogSkuPrefix[job.supplier] # job.prefix
       => Unacceptable
    /\ ~Doc.sound => Unacceptable
    /\ Blank \in Ids(Doc.categories) => Unacceptable
    /\ Cardinality(Ids(Doc.categories)) < Len(Doc.categories) => Unacceptable
    /\ Cardinality(Ids(Doc.offers)) < Len(Doc.offers) => Unacceptable
    /\ \A i \in DOMAIN Doc.offers : Ways(Text(Doc.offers[i], "category")) = {} => Unacceptable
    /\ \A c \in Ids(Doc.categories) : Yml /\ Ways(c) = {} => Unacceptable
    /\ \A i \in DOMAIN Doc.offers : Faulty(Doc.offers[i]) => Unacceptable
    /\ Len(Doc.offers) \notin job.min..job.max => Unacceptable
  <1>1. \/ job.supplier \notin DOMAIN CatalogSkuPrefix
        \/ CatalogSkuPrefix[job.supplier] # job.prefix
        => <<job.supplier, job.prefix>>
              \notin {<<"electrozone", "11">>, <<"netlab", "31">>, <<"vetcom", "41">>}
    BY DEF CatalogSkuPrefix
  <1>2. <<job.supplier, job.prefix>>
              \notin {<<"electrozone", "11">>, <<"netlab", "31">>, <<"vetcom", "41">>}
        => Unacceptable
    BY Zenon DEF Unacceptable
  <1>3. ~Doc.sound => Unacceptable
    BY Zenon DEF Unacceptable
  <1>4. /\ Blank \in Ids(Doc.categories) => Unacceptable
        /\ Cardinality(Ids(Doc.categories)) < Len(Doc.categories) => Unacceptable
        /\ Cardinality(Ids(Doc.offers)) < Len(Doc.offers) => Unacceptable
    BY Zenon DEF Unacceptable
  <1>5. \A i \in DOMAIN Doc.offers : Ways(Text(Doc.offers[i], "category")) = {} => Unacceptable
    BY Zenon DEF Unacceptable
  <1>6. \A c \in Ids(Doc.categories) : Yml /\ Ways(c) = {} => Unacceptable
    BY Zenon DEF Unacceptable
  <1>7. \A i \in DOMAIN Doc.offers : Faulty(Doc.offers[i]) => Unacceptable
    BY Zenon DEF Unacceptable
  <1>8. Len(Doc.offers) \notin job.min..job.max => Unacceptable
    BY Zenon DEF Unacceptable
  <1> QED
    BY <1>1, <1>2, <1>3, <1>4, <1>5, <1>6, <1>7, <1>8, Zenon

-----------------------------------------------------------------------------
\* Whole paths.

\* What the parents are once every category was read.
Tree ==
    /\ DOMAIN parents = Ids(Doc.categories) /\ Blank \notin DOMAIN parents
    /\ \A k \in DOMAIN Doc.categories :
         parents[Doc.categories[k].id] = Doc.categories[k].parent

\* A whole path is the way up from its category by the parents, to a root.
LEMMA WayUp ==
    ASSUME job \in Jobs, Tree, NEW c, NEW w \in Ways(c)
    PROVE  /\ w \in Lines /\ Len(w) \in Nat /\ DOMAIN w = 1..Len(w)
           /\ \A i \in 1..Len(w) : /\ w[i] \in DOMAIN parents
                                   /\ parents[w[i]] = IF i = 1 THEN Blank ELSE w[i - 1]
           /\ c = Blank <=> Len(w) = 0
           /\ c # Blank => w[Len(w)] = c
  <1>1. w \in Lines /\ IsWholePath(w, c)
    BY DEF Ways
  <1>2. PICK n \in Nat : w \in [1..n -> Ids(Doc.categories)]
    BY <1>1, JobType DEF Lines
  <1>3. w \in Seq(Ids(Doc.categories)) /\ Len(w) = n /\ DOMAIN w = 1..n
    BY <1>2, SeqDef
  <1>4. \A i \in 1..n : w[i] \in DOMAIN parents
    BY <1>2 DEF Tree
  <1>5. CASE c = Blank
    BY <1>1, <1>3, <1>5, EmptySeq DEF IsWholePath
  <1>6. CASE c # Blank
    <2>1. /\ w # <<>> /\ w[Len(w)] = c
          /\ \A i \in 1..n : \E category \in Range(Doc.categories) :
               /\ category.id = w[i]
               /\ category.parent = IF i = 1 THEN Blank ELSE w[i - 1]
      BY <1>1, <1>3, <1>6 DEF IsWholePath, Last
    <2>2. n # 0
      BY <1>3, <2>1, EmptySeq
    <2>3. \A i \in 1..n : parents[w[i]] = IF i = 1 THEN Blank ELSE w[i - 1]
      BY <2>1 DEF Range, Tree
    <2> QED
      BY <1>1, <1>3, <1>4, <1>6, <2>1, <2>2, <2>3
  <1> QED
    BY <1>5, <1>6

\* No category is on a whole path twice: the first one that was would have a
\* parent that is on it twice, or be a root and have a parent.
LEMMA WaysAreDistinct ==
    ASSUME job \in Jobs, Tree, NEW c, NEW w \in Ways(c)
    PROVE  \A i, j \in 1..Len(w) : w[i] = w[j] => i = j
  <1>1. /\ Len(w) \in Nat
        /\ \A i \in 1..Len(w) : /\ w[i] \in DOMAIN parents
                                /\ parents[w[i]] = IF i = 1 THEN Blank ELSE w[i - 1]
    BY WayUp
  <1> DEFINE T == {i \in 1..Len(w) : \E j \in 1..Len(w) : i < j /\ w[i] = w[j]}
  <1>2. T = {}
    <2> SUFFICES ASSUME T # {} PROVE FALSE
      OBVIOUS
    <2>1. T \in SUBSET Nat
      BY <1>1
    <2> HIDE DEF T
    <2>2. PICK i \in T : \A k \in T : i <= k
      BY <2>1, LeastNatural
    <2> USE DEF T
    <2>3. PICK j \in 1..Len(w) : i < j /\ w[i] = w[j]
      BY <2>2
    <2>4. i \in 1..Len(w)
      BY <2>2
    <2>5. CASE i = 1
      <3>1. w[j - 1] = Blank /\ w[j - 1] \in DOMAIN parents
        BY <1>1, <2>3, <2>4, <2>5
      <3> QED
        BY <3>1 DEF Tree
    <2>6. CASE i # 1
      <3>1. w[i - 1] = w[j - 1] /\ i - 1 \in 1..Len(w) /\ j - 1 \in 1..Len(w) /\ i - 1 < j - 1
        BY <1>1, <2>3, <2>4, <2>6
      <3>2. i - 1 \in T
        BY <3>1
      <3> QED
        BY <2>2, <2>4, <3>2
    <2> QED
      BY <2>5, <2>6
  <1>3. \A i, j \in 1..Len(w) : i < j \/ j < i \/ i = j
    BY <1>1
  <1> QED
    BY <1>2, <1>3

\* Categories that differ make a line.
LEMMA DistinctLine ==
    ASSUME job \in Jobs, NEW w \in Seq(Ids(Doc.categories)),
           \A i, j \in 1..Len(w) : w[i] = w[j] => i = j
    PROVE  w \in Lines
  <1>1. Len(w) \in Nat /\ w \in [1..Len(w) -> Ids(Doc.categories)]
    BY LenProperties
  <1>2. w \in Injection(1..Len(w), Ids(Doc.categories))
    BY <1>1 DEF Injection, IsInjective
  <1>3. /\ IsFiniteSet(Ids(Doc.categories)) /\ Len(Doc.categories) \in Nat
        /\ Cardinality(Ids(Doc.categories)) \in Nat
        /\ Cardinality(Ids(Doc.categories)) <= Len(Doc.categories)
    BY JobType, IdsCounted
  <1>4. Cardinality(1..Len(w)) <= Cardinality(Ids(Doc.categories))
    BY <1>2, <1>3, FS_Injection
  <1>5. Cardinality(1..Len(w)) = Len(w)
    BY <1>1, PlacesCounted
  <1>6. Len(w) \in 0..Len(Doc.categories)
    BY <1>1, <1>3, <1>4, <1>5
  <1> QED
    BY <1>1, <1>6 DEF Lines

\* Distinct categories that join a root to a category are a whole path.
LEMMA WholeWay ==
    ASSUME job \in Jobs, Tree, NEW c, NEW w \in Seq(DOMAIN parents),
           w # <<>>, Last(w) = c, Distinct(w), Joined(w), parents[w[1]] = Blank
    PROVE  w \in Ways(c)
  <1>1. w \in Seq(Ids(Doc.categories))
    BY DEF Tree
  <1>2. Len(w) \in Nat \ {0} /\ DOMAIN w = 1..Len(w) /\ \A i \in 1..Len(w) : w[i] \in DOMAIN parents
    BY EmptySeq, LenProperties, ElementOfSeq
  <1>3. w \in Lines
    BY <1>1, <1>2, DistinctLine DEF Distinct
  <1>4. c # Blank
    BY <1>2 DEF Last, Tree
  <1>5. ASSUME NEW i \in 1..Len(w)
        PROVE  \E category \in Range(Doc.categories) :
                 /\ category.id = w[i]
                 /\ category.parent = IF i = 1 THEN Blank ELSE w[i - 1]
    <2>1. PICK k \in DOMAIN Doc.categories : Doc.categories[k].id = w[i]
      BY <1>2 DEF Tree, Ids
    <2>2. parents[w[i]] = IF i = 1 THEN Blank ELSE w[i - 1]
      BY <1>2 DEF Joined
    <2> QED
      BY <2>1, <2>2 DEF Tree, Range
  <1> QED
    BY <1>2, <1>3, <1>4, <1>5 DEF Ways, IsWholePath

\* A category whose way up ends has a whole path when no parent is unknown.
LEMMA RootedWay ==
    ASSUME job \in Jobs, Tree, NEW c, Rooted(c),
           \A k \in DOMAIN Doc.categories :
              Doc.categories[k].parent \in {Blank} \cup DOMAIN parents
    PROVE  Ways(c) # {}
  <1>1. PICK w \in Lines : /\ w # <<>> /\ Last(w) = c /\ Distinct(w) /\ Joined(w)
                           /\ parents[w[1]] \notin DOMAIN parents
    BY DEF Rooted
  <1>2. PICK n \in Nat : w \in [1..n -> DOMAIN parents]
    BY JobType DEF Lines, Tree
  <1>3. w \in Seq(DOMAIN parents) /\ Len(w) = n
    BY <1>2, SeqDef
  <1>4. Len(w) # 0
    BY <1>1, <1>3, EmptySeq
  <1>5. w[1] \in Ids(Doc.categories)
    BY <1>2, <1>3, <1>4 DEF Tree
  <1>6. parents[w[1]] = Blank
    BY <1>1, <1>5 DEF Ids, Tree
  <1> QED
    BY <1>1, <1>3, <1>6, WholeWay

\* After the categories, what TreeInv says is about all of them.
LEMMA AllRead ==
    ASSUME TreeInv, phase \notin {"adapter", "categories", "refused"}
    PROVE  /\ Tree
           /\ \A j, k \in DOMAIN Doc.categories :
                Doc.categories[j].id = Doc.categories[k].id => j = k
  BY DEF TreeInv, Tree, Read, Ids

-----------------------------------------------------------------------------
\* The steps.

\* The items stay what the feed says while there are no more of them.
LEMMA ItemsStand ==
    ASSUME Made, UNCHANGED <<job, items>>
    PROVE  Made'
  BY JobFixed DEF Made

\* No item is built before the offers.
LEMMA ItemsKept ==
    ASSUME ItemInv, UNCHANGED <<job, items>>, phase # "refused",
           phase' \notin {"offers", "climb", "accepted"}
    PROVE  ItemInv'
  <1>1. Made'
    BY ItemsStand DEF ItemInv
  <1>2. Doc' = Doc /\ (Yml' <=> Yml)
    BY JobFixed
  <1>3. Yml => Len(items) <= job.max
    BY DEF ItemInv
  <1> QED
    BY <1>1, <1>2, <1>3 DEF ItemInv

LEMMA FeedInitInv == Init => FeedInv
  <1> SUFFICES ASSUME Init PROVE FeedInv
    OBVIOUS
  <1>1. job \in Jobs /\ phase = "adapter" /\ next = 1 /\ parents = <<>> /\ passed = <<>> /\ items = <<>>
    BY DEF Init
  <1>2. DOMAIN parents = {} /\ DOMAIN items = {} /\ Len(items) = 0
    BY <1>1
  <1>3. FeedType
    BY <1>1 DEF FeedType, Ended
  <1>4. AdapterInv /\ TreeInv /\ YmlInv /\ ClimbInv /\ VerdictInv
    BY <1>1, <1>2 DEF AdapterInv, TreeInv, YmlInv, ClimbInv, VerdictInv, Read
  <1>5. ItemInv
    BY <1>1, <1>2, JobType DEF ItemInv, Made
  <1> QED
    BY <1>3, <1>4, <1>5 DEF FeedInv

\* A call that is refused for a reason.
LEMMA RefuseStep ==
    ASSUME FeedInv, Refuse, Unacceptable
    PROVE  FeedInv'
  <1>1. phase' = "refused" /\ UNCHANGED <<job, next, parents, current, passed, items>>
    BY DEF Refuse
  <1>2. FeedType'
    BY <1>1 DEF FeedInv, FeedType, Ended
  <1>3. AdapterInv' /\ TreeInv' /\ YmlInv' /\ ClimbInv'
    BY <1>1 DEF AdapterInv, TreeInv, YmlInv, ClimbInv
  <1>4. ItemInv'
    BY <1>1, ItemsStand DEF FeedInv, ItemInv
  <1>5. VerdictInv'
    BY <1>1, JobFixed DEF VerdictInv
  <1> QED
    BY <1>2, <1>3, <1>4, <1>5 DEF FeedInv

LEMMA CreateStep ==
    ASSUME FeedInv, CreateAdapter
    PROVE  FeedInv'
  <1>1. job \in Jobs /\ phase = "adapter" /\ next = 1 /\ parents = <<>> /\ passed = <<>> /\ items = <<>>
    BY DEF FeedInv, FeedType, CreateAdapter
  <1>2. CASE Refuse
    <2>1. \/ job.supplier \notin DOMAIN CatalogSkuPrefix \/ CatalogSkuPrefix[job.supplier] # job.prefix
          \/ ~Doc.sound
          \/ Len(Doc.offers) > job.max
      BY <1>1, <1>2 DEF CreateAdapter, Refuse
    <2>2. Len(Doc.offers) > job.max => Len(Doc.offers) \notin job.min..job.max
      BY <1>1, JobType
    <2>3. Unacceptable
      BY <2>1, <2>2, Reasons
    <2> QED
      BY <1>2, <2>3, RefuseStep
  <1>3. CASE ~Refuse
    <2>1. /\ phase' = "categories" /\ UNCHANGED <<job, next, parents, current, passed, items>>
          /\ job.supplier \in DOMAIN CatalogSkuPrefix /\ CatalogSkuPrefix[job.supplier] = job.prefix
          /\ Doc.sound /\ (~Yml => ~Len(Doc.offers) > job.max)
      BY <1>3 DEF CreateAdapter
    <2>2. DOMAIN parents = {} /\ DOMAIN items = {} /\ Len(items) = 0
      BY <1>1
    <2>3. FeedType'
      BY <1>1, <2>1, JobType DEF FeedInv, FeedType, Ended, Doc
    <2>4. AdapterInv'
      BY <1>1, <2>1, JobType, JobFixed DEF AdapterInv
    <2>5. TreeInv' /\ YmlInv' /\ ClimbInv' /\ VerdictInv'
      BY <1>1, <2>1, <2>2 DEF TreeInv, YmlInv, ClimbInv, VerdictInv, Read
    <2>6. ItemInv'
      BY <1>1, <2>1, ItemsKept DEF FeedInv
    <2> QED
      BY <2>3, <2>4, <2>5, <2>6 DEF FeedInv
  <1> QED
    BY <1>2, <1>3

\* A category is declared once, and is not blank.
LEMMA ReadStep ==
    ASSUME FeedInv, ReadCategory
    PROVE  FeedInv'
  <1> DEFINE category == Doc.categories[next]
  <1>1. /\ job \in Jobs /\ phase = "categories" /\ passed = <<>> /\ items = <<>>
        /\ next \in 1..Len(Doc.categories)
    BY JobType DEF FeedInv, FeedType, ReadCategory
  <1>2. /\ DOMAIN parents = {Doc.categories[k].id : k \in 1..next - 1}
        /\ Blank \notin DOMAIN parents
        /\ \A k \in 1..next - 1 : parents[Doc.categories[k].id] = Doc.categories[k].parent
        /\ \A j, k \in 1..next - 1 : Doc.categories[j].id = Doc.categories[k].id => j = k
    BY <1>1 DEF FeedInv, TreeInv, Read
  <1>3. DOMAIN Doc.categories = 1..Len(Doc.categories) /\ Len(Doc.categories) \in Nat
    BY <1>1, JobType
  <1>4. CASE Refuse
    <2>1. category.id = Blank \/ category.id \in DOMAIN parents
      BY <1>1, <1>4 DEF ReadCategory, Refuse
    <2>2. CASE category.id = Blank
      <3>1. Blank \in Ids(Doc.categories)
        BY <1>1, <1>3, <2>2 DEF Ids
      <3> QED
        BY <1>4, <3>1, Reasons, RefuseStep
    <2>3. CASE category.id \in DOMAIN parents
      <3>1. PICK k \in 1..next - 1 : Doc.categories[k].id = category.id
        BY <1>2, <2>3
      <3>2. k \in DOMAIN Doc.categories /\ next \in DOMAIN Doc.categories /\ k # next
        BY <1>1, <1>3
      <3>3. Cardinality(Ids(Doc.categories)) < Len(Doc.categories)
        BY <1>3, <3>1, <3>2, IdsCounted
      <3> QED
        BY <1>4, <3>3, Reasons, RefuseStep
    <2> QED
      BY <2>1, <2>2, <2>3
  <1>5. CASE ~Refuse
    <2>1. /\ parents' = [c \in DOMAIN parents \cup {category.id} |->
                          IF c = category.id THEN category.parent ELSE parents[c]]
          /\ next' = next + 1 /\ UNCHANGED <<job, phase, current, passed, items>>
          /\ category.id # Blank /\ category.id \notin DOMAIN parents
      BY <1>5 DEF ReadCategory
    <2>2. /\ DOMAIN parents' = {category.id} \cup DOMAIN parents
          /\ parents'[category.id] = category.parent
          /\ \A c \in DOMAIN parents : parents'[c] = parents[c]
      BY <2>1
    <2>3. Doc' = Doc
      BY <2>1, JobFixed
    <2>4. FeedType'
      BY <1>1, <1>3, <2>1, <2>3 DEF FeedInv, FeedType
    <2>5. AdapterInv' /\ YmlInv' /\ ClimbInv' /\ VerdictInv'
      BY <1>1, <2>1, <2>3, JobFixed DEF FeedInv, AdapterInv, YmlInv, ClimbInv, VerdictInv
    <2>6. TreeInv'
      <3>1. Read' = 1..next /\ 1..next = (1..next - 1) \cup {next}
        BY <1>1, <1>3, <2>1 DEF Read
      <3>2. DOMAIN parents' = {Doc.categories[k].id : k \in 1..next}
        BY <1>2, <2>2, <3>1
      <3>3. \A k \in 1..next : parents'[Doc.categories[k].id] = Doc.categories[k].parent
        BY <1>2, <2>2, <3>1
      <3>4. \A j, k \in 1..next : Doc.categories[j].id = Doc.categories[k].id => j = k
        BY <1>2, <2>1, <3>1
      <3>5. Blank \notin DOMAIN parents'
        BY <1>2, <2>1, <2>2
      <3> QED
        BY <2>3, <3>1, <3>2, <3>3, <3>4, <3>5 DEF TreeInv
    <2>7. ItemInv'
      BY <1>1, <2>1, ItemsKept DEF FeedInv
    <2> QED
      BY <2>4, <2>5, <2>6, <2>7 DEF FeedInv
  <1> QED
    BY <1>4, <1>5

LEMMA LastStep ==
    ASSUME FeedInv, LastCategory
    PROVE  FeedInv'
  <1>1. /\ phase \in {"categories", "validate"}
        /\ phase' = IF Yml /\ phase = "categories" THEN "validate" ELSE "offers"
        /\ next' = 1 /\ UNCHANGED <<job, parents, current, passed, items>>
    BY DEF LastCategory
  <1>2. /\ job \in Jobs /\ passed = <<>> /\ items = <<>> /\ next = Len(Doc.categories) + 1
        /\ phase = "validate" => Yml
    <2>1. job \in Jobs /\ next \in Nat \ {0} /\ next <= Len(Doc.categories) + 1
      BY <1>1 DEF FeedInv, FeedType
    <2>2. next > Len(Doc.categories) /\ Len(Doc.categories) \in Nat
      BY <2>1, JobType DEF LastCategory
    <2>3. passed = <<>> /\ items = <<>> /\ (phase = "validate" => Yml)
      BY <1>1 DEF FeedInv, FeedType
    <2> QED
      BY <2>1, <2>2, <2>3
  <1>3. /\ DOMAIN Doc.categories = 1..Len(Doc.categories) /\ Len(Doc.categories) \in Nat
        /\ Len(Doc.offers) \in Nat
    BY <1>2, JobType
  <1>4. Doc' = Doc /\ (Yml' <=> Yml)
    BY <1>1, JobFixed
  <1>5. FeedType'
    <2>1. phase' \in {"validate", "offers"} /\ (phase' = "validate" => Yml)
      BY <1>1, <1>2
    <2>2. items' \in Seq(Range(items'))
      BY <1>1 DEF FeedInv, FeedType
    <2>3. 1 <= Len(Doc.categories) + 1 /\ 1 <= Len(Doc.offers) + 1
      BY <1>3
    <2> QED
      BY <1>1, <1>2, <1>4, <2>1, <2>2, <2>3 DEF FeedType
  <1>6. AdapterInv' /\ ClimbInv' /\ VerdictInv'
    BY <1>1, <1>4 DEF FeedInv, AdapterInv, ClimbInv, VerdictInv
  <1>7. Read = DOMAIN Doc.categories /\ Read' = Read
    BY <1>1, <1>2, <1>3, <1>4 DEF Read
  <1>8. TreeInv'
    BY <1>1, <1>4, <1>7 DEF FeedInv, TreeInv
  <1>9. YmlInv'
    <2>1. CASE phase = "categories" /\ Yml
      BY <1>1, <1>4, <2>1 DEF YmlInv, Checked
    <2>2. CASE phase = "categories" /\ ~Yml
      BY <1>4, <2>2 DEF YmlInv
    <2>3. CASE phase = "validate"
      <3>1. Checked = DOMAIN Doc.categories /\ Checked' = Checked
        BY <1>1, <1>2, <1>3, <1>4, <2>3 DEF Checked
      <3>2. \A c : Rooted(c)' <=> Rooted(c)
        BY <1>1, JobFixed DEF Rooted, Distinct, Joined, Last
      <3> QED
        BY <1>1, <1>4, <2>3, <3>1, <3>2 DEF FeedInv, YmlInv
    <2> QED
      BY <1>1, <2>1, <2>2, <2>3
  <1>10. ItemInv'
    BY <1>1, <1>2, <1>3, <1>4, ItemsStand DEF FeedInv, ItemInv
  <1> QED
    BY <1>5, <1>6, <1>8, <1>9, <1>10 DEF FeedInv

\* Every whole path begins, seen from its category, where a climb begins.
LEMMA FollowsFirst ==
    ASSUME job \in Jobs, Tree, NEW c, NEW w \in Ways(c)
    PROVE  Follows(w, <<>>, c)
  <1>1. /\ Len(w) \in Nat /\ (c = Blank <=> Len(w) = 0) /\ (c # Blank => w[Len(w)] = c)
    BY WayUp
  <1>2. Len(<<>>) = 0 /\ DOMAIN <<>> = {}
    OBVIOUS
  <1> QED
    BY <1>1, <1>2 DEF Follows

\* One parent further up.
LEMMA ClimbsOn ==
    ASSUME job \in Jobs, Tree, NEW start, NEW p \in Seq(DOMAIN parents), NEW c \in DOMAIN parents,
           Distinct(p), Joined(p), c \notin Range(p),
           p = <<>> => c = start,
           p # <<>> => Last(p) = start /\ c = parents[p[1]],
           NEW t, t = <<c>> \o p
    PROVE  /\ t \in Seq(DOMAIN parents) /\ t # <<>>
           /\ Distinct(t) /\ Joined(t) /\ Last(t) = start /\ t[1] = c
           /\ \A w \in Ways(start) : Follows(w, p, c) => Follows(w, t, parents[c])
  <1>1. /\ t \in Seq(DOMAIN parents) /\ t # <<>> /\ Len(t) = Len(p) + 1 /\ Len(p) \in Nat
        /\ DOMAIN t = 1..Len(p) + 1 /\ DOMAIN p = 1..Len(p)
        /\ t[1] = c
        /\ \A i \in 2..Len(p) + 1 : t[i] = p[i - 1]
    BY Prepended
  <1>2. p = <<>> <=> Len(p) = 0
    BY <1>1, EmptySeq
  <1>3. Distinct(t)
    <2>1. \A i \in 1..Len(p) : p[i] # c
      BY <1>1 DEF Range
    <2>2. \A i, j \in 1..Len(p) : p[i] = p[j] => i = j
      BY <1>1 DEF Distinct
    <2>3. ASSUME NEW i \in 1..Len(p) + 1, NEW j \in 1..Len(p) + 1, t[i] = t[j]
          PROVE  i = j
      <3>1. CASE i = 1 /\ j = 1
        BY <3>1
      <3>2. CASE i = 1 /\ j # 1
        BY <1>1, <2>1, <2>3, <3>2
      <3>3. CASE i # 1 /\ j = 1
        BY <1>1, <2>1, <2>3, <3>3
      <3>4. CASE i # 1 /\ j # 1
        <4>1. i - 1 \in 1..Len(p) /\ j - 1 \in 1..Len(p) /\ p[i - 1] = p[j - 1]
          BY <1>1, <2>3, <3>4
        <4>2. i - 1 = j - 1
          BY <2>2, <4>1
        <4> QED
          BY <1>1, <4>2
      <3> QED
        BY <3>1, <3>2, <3>3, <3>4
    <2> QED
      BY <1>1, <2>3 DEF Distinct
  <1>4. Joined(t)
    <2>1. \A i \in 1..Len(p) : i > 1 => parents[p[i]] = p[i - 1]
      BY <1>1 DEF Joined
    <2>2. ASSUME NEW i \in 1..Len(p) + 1, i > 1 PROVE parents[t[i]] = t[i - 1]
      <3>1. CASE i = 2
        <4>1. p # <<>> /\ t[2] = p[1]
          BY <1>1, <1>2, <2>2, <3>1
        <4>2. t[i] = p[1] /\ t[i - 1] = c
          BY <1>1, <3>1, <4>1
        <4>3. parents[p[1]] = c
          BY <4>1
        <4> QED
          BY <4>2, <4>3
      <3>2. CASE i # 2
        <4>1. /\ i - 1 \in 1..Len(p) /\ i - 1 > 1 /\ t[i] = p[i - 1]
              /\ i - 1 \in 2..Len(p) + 1
          BY <1>1, <2>2, <3>2
        <4>2. t[i - 1] = p[i - 1 - 1]
          BY <1>1, <4>1
        <4>3. parents[p[i - 1]] = p[i - 1 - 1]
          BY <2>1, <4>1
        <4> QED
          BY <4>1, <4>2, <4>3
      <3> QED
        BY <3>1, <3>2
    <2> QED
      BY <1>1, <2>2 DEF Joined
  <1>5. Last(t) = start
    BY <1>1, <1>2 DEF Last
  <1>6. ASSUME NEW w \in Ways(start), Follows(w, p, c)
        PROVE  Follows(w, t, parents[c])
    <2>1. /\ Len(w) \in Nat
          /\ \A i \in 1..Len(w) : parents[w[i]] = IF i = 1 THEN Blank ELSE w[i - 1]
      BY WayUp
    <2>2. /\ Len(p) <= Len(w)
          /\ \A i \in 1..Len(p) : p[i] = w[Len(w) - Len(p) + i]
          /\ c = IF Len(p) < Len(w) THEN w[Len(w) - Len(p)] ELSE Blank
      BY <1>1, <1>6 DEF Follows
    <2>3. Len(p) < Len(w) /\ c = w[Len(w) - Len(p)]
      BY <1>1, <2>1, <2>2 DEF Tree
    <2>4. parents[c] = IF Len(t) < Len(w) THEN w[Len(w) - Len(t)] ELSE Blank
      BY <1>1, <2>1, <2>3
    <2>5. ASSUME NEW i \in 1..Len(t) PROVE t[i] = w[Len(w) - Len(t) + i]
      <3>1. CASE i = 1
        BY <1>1, <2>1, <2>3, <3>1
      <3>2. CASE i # 1
        <4>1. i - 1 \in 1..Len(p) /\ t[i] = p[i - 1]
          BY <1>1, <3>2
        <4>2. p[i - 1] = w[Len(w) - Len(p) + (i - 1)]
          BY <2>2, <4>1
        <4>3. Len(w) - Len(p) + (i - 1) = Len(w) - Len(t) + i
          BY <1>1, <2>1
        <4> QED
          BY <4>1, <4>2, <4>3
      <3> QED
        BY <3>1, <3>2
    <2>6. Len(t) <= Len(w) /\ DOMAIN t = 1..Len(t)
      BY <1>1, <2>1, <2>3
    <2> QED
      BY <2>4, <2>5, <2>6 DEF Follows
  <1> QED
    BY <1>1, <1>3, <1>4, <1>5, <1>6

\* A climb that does not stray passes one category more.
LEMMA PassedOn ==
    ASSUME job \in Jobs, Tree, passed \in Seq(DOMAIN parents), Distinct(passed), Joined(passed),
           current \in DOMAIN parents, current \notin Range(passed),
           passed = <<>> => current = Start,
           passed # <<>> => Last(passed) = Start /\ current = parents[passed[1]],
           \A w \in Ways(Start) : Follows(w, passed, current),
           passed' = <<current>> \o passed
    PROVE  /\ passed' \in Seq(DOMAIN parents) /\ passed' # <<>>
           /\ Distinct(passed') /\ Joined(passed') /\ Last(passed') = Start /\ passed'[1] = current
           /\ \A w \in Ways(Start) : Follows(w, passed', parents[current])
  <1>1. \A start : \A p \in Seq(DOMAIN parents) : \A c \in DOMAIN parents :
          /\ Distinct(p) /\ Joined(p) /\ c \notin Range(p)
          /\ p = <<>> => c = start
          /\ p # <<>> => Last(p) = start /\ c = parents[p[1]]
          => \A x : x = <<c>> \o p =>
             /\ x \in Seq(DOMAIN parents) /\ x # <<>>
             /\ Distinct(x) /\ Joined(x) /\ Last(x) = start /\ x[1] = c
             /\ \A w \in Ways(start) : Follows(w, p, c) => Follows(w, x, parents[c])
    BY ClimbsOn, Zenon
  <1>2. \A x : x = <<current>> \o passed =>
          /\ x \in Seq(DOMAIN parents) /\ x # <<>>
          /\ Distinct(x) /\ Joined(x) /\ Last(x) = Start /\ x[1] = current
          /\ \A w \in Ways(Start) : Follows(w, passed, current) => Follows(w, x, parents[current])
    BY <1>1
  <1> QED
    BY <1>2, Zenon

\* A climb that follows a whole path never strays.
LEMMA NoStray ==
    ASSUME job \in Jobs, Tree, NEW start, NEW p \in Seq(DOMAIN parents), NEW c, c # Blank,
           NEW w \in Ways(start), Follows(w, p, c)
    PROVE  c \in DOMAIN parents /\ c \notin Range(p)
  <1>1. Len(p) \in Nat /\ DOMAIN p = 1..Len(p)
    BY LenProperties
  <1>2. Len(w) \in Nat /\ \A i \in 1..Len(w) : w[i] \in DOMAIN parents
    BY WayUp
  <1>3. /\ Len(p) < Len(w) /\ c = w[Len(w) - Len(p)]
        /\ \A i \in 1..Len(p) : p[i] = w[Len(w) - Len(p) + i]
    BY <1>1, <1>2 DEF Follows
  <1>4. Len(w) - Len(p) \in 1..Len(w)
    BY <1>1, <1>2, <1>3
  <1>5. ASSUME NEW i \in 1..Len(p) PROVE p[i] # c
    <2>1. Len(w) - Len(p) + i \in 1..Len(w) /\ Len(w) - Len(p) + i # Len(w) - Len(p)
      BY <1>1, <1>2, <1>3
    <2> QED
      BY <1>3, <1>4, <2>1, WaysAreDistinct
  <1> QED
    BY <1>1, <1>2, <1>3, <1>4, <1>5 DEF Range

-----------------------------------------------------------------------------
\* What the steps between the categories and the offers leave as it is.
LEMMA TreeKept ==
    ASSUME UNCHANGED <<job, parents>>, TreeInv,
           phase \notin {"adapter", "categories", "refused"}, phase' # "categories", phase' # "adapter"
    PROVE  TreeInv' /\ \A c : Rooted(c)' <=> Rooted(c)
  <1>1. Doc' = Doc
    BY JobFixed
  <1>2. TreeInv'
    BY <1>1 DEF TreeInv, Read
  <1>3. \A c : Rooted(c)' <=> Rooted(c)
    BY JobFixed DEF Rooted, Distinct, Joined, Last
  <1> QED
    BY <1>2, <1>3

\* Before its first step, a climb has passed nothing.
LEMMA NothingPassed ==
    ASSUME passed' = <<>>
    PROVE  passed' \in Seq(DOMAIN parents') /\ Distinct(passed)' /\ Joined(passed)'
  <1>1. \A S : <<>> \in Seq(S)
    OBVIOUS
  <1>2. DOMAIN passed' = {}
    <2>1. \A s : s = <<>> => DOMAIN s = {}
      OBVIOUS
    <2> QED
      BY <2>1
  <1>3. Distinct(passed)' /\ Joined(passed)'
    BY <1>2 DEF Distinct, Joined
  <1> QED
    BY <1>1, <1>3

LEMMA ValidateStep ==
    ASSUME FeedInv, ValidateCategory
    PROVE  FeedInv'
  <1> DEFINE category == Doc.categories[next]
  <1>1. /\ job \in Jobs /\ phase = "validate" /\ Yml /\ passed = <<>> /\ items = <<>>
        /\ next \in 1..Len(Doc.categories) /\ DOMAIN Doc.categories = 1..Len(Doc.categories)
        /\ Len(Doc.categories) \in Nat
    <2>1. /\ job \in Jobs /\ phase = "validate" /\ Yml /\ passed = <<>> /\ items = <<>>
          /\ next \in Nat \ {0} /\ next <= Len(Doc.categories)
      BY DEF FeedInv, FeedType, ValidateCategory
    <2> QED
      BY <2>1, JobType
  <1>2. Tree
    BY <1>1, AllRead DEF FeedInv
  <1>3. category.id \in Ids(Doc.categories) /\ category.id \in DOMAIN parents /\ category.id # Blank
    BY <1>1, <1>2 DEF Tree, Ids
  <1>4. parents[category.id] = category.parent
    BY <1>1, <1>2 DEF Tree
  <1> HIDE DEF category
  <1>5. CASE Refuse
    <2>1. category.parent \notin {Blank} \cup DOMAIN parents
      BY <1>1, <1>5 DEF ValidateCategory, Refuse, category
    <2>2. ASSUME NEW w \in Ways(category.id) PROVE FALSE
      <3>1. /\ Len(w) \in Nat /\ Len(w) # 0 /\ w[Len(w)] = category.id
            /\ \A i \in 1..Len(w) : /\ w[i] \in DOMAIN parents
                                    /\ parents[w[i]] = IF i = 1 THEN Blank ELSE w[i - 1]
        BY <1>1, <1>2, <1>3, WayUp
      <3>2. category.parent = IF Len(w) = 1 THEN Blank ELSE w[Len(w) - 1]
        BY <1>4, <3>1
      <3>3. CASE Len(w) = 1
        BY <2>1, <3>2, <3>3
      <3>4. CASE Len(w) # 1
        <4>1. \A n \in Nat : n # 0 /\ n # 1 => n - 1 \in 1..n
          OBVIOUS
        <4>2. Len(w) - 1 \in 1..Len(w)
          BY <3>1, <3>4, <4>1
        <4> QED
          BY <2>1, <3>1, <3>2, <3>4, <4>2
      <3> QED
        BY <3>3, <3>4
    <2> QED
      BY <1>1, <1>3, <1>5, <2>2, Reasons, RefuseStep
  <1>6. CASE ~Refuse
    <2>1. /\ category.parent \in {Blank} \cup DOMAIN parents
          /\ current' = category.id /\ phase' = "ascend"
          /\ UNCHANGED <<job, next, parents, passed, items>>
      BY <1>6 DEF ValidateCategory, category
    <2>2. Doc' = Doc /\ (Yml' <=> Yml)
      BY <2>1, JobFixed
    <2>3. FeedType'
      <3>1. next \in Nat \ {0} /\ next <= Len(Doc.categories) /\ items \in Seq(Range(items))
        BY <1>1 DEF FeedInv, FeedType
      <3> QED
        BY <1>1, <2>1, <2>2, <3>1 DEF FeedType
    <2>4. AdapterInv' /\ VerdictInv'
      BY <1>1, <2>1, <2>2, JobFixed DEF FeedInv, AdapterInv, VerdictInv
    <2>5. TreeInv' /\ \A c : Rooted(c)' <=> Rooted(c)
      BY <1>1, <2>1, TreeKept DEF FeedInv
    <2>6. YmlInv'
      <3>1. Checked' = Checked
        BY <1>1, <2>1, <2>2 DEF Checked
      <3>2. \A k \in Checked : /\ Doc.categories[k].parent \in {Blank} \cup DOMAIN parents
                               /\ Rooted(Doc.categories[k].id)
        BY <1>1 DEF FeedInv, YmlInv
      <3> QED
        BY <2>1, <2>2, <2>5, <3>1, <3>2 DEF YmlInv, category
    <2>7. ClimbInv'
      <3>1. Start' = category.id
        BY <2>1, <2>2 DEF Start, category
      <3>2. \A w \in Ways(category.id) : Follows(w, <<>>, category.id)
        BY <1>1, <1>2, FollowsFirst
      <3>3. \A w : w \in Ways(Start)' => Follows(w, passed, current)'
        BY <1>1, <2>1, <3>1, <3>2, JobFixed DEF Ways, Follows
      <3>4. passed' = <<>>
        BY <1>1, <2>1
      <3>5. passed' \in Seq(DOMAIN parents') /\ Distinct(passed)' /\ Joined(passed)'
        BY <3>4, NothingPassed
      <3>6. current' \in {Blank} \cup DOMAIN parents'
        BY <1>3, <2>1
      <3> QED
        BY <2>1, <3>1, <3>3, <3>4, <3>5, <3>6 DEF ClimbInv
    <2>8. ItemInv'
      BY <1>1, <2>1, ItemsKept DEF FeedInv
    <2> QED
      BY <2>3, <2>4, <2>5, <2>6, <2>7, <2>8 DEF FeedInv
  <1> QED
    BY <1>5, <1>6

\* A place of a sequence.
LEMMA PlaceWithin ==
    \A n, m \in Nat : m # 0 /\ m <= n => m \in 1..n
  OBVIOUS

\* What a climb that validates has in hand.
LEMMA Validating ==
    ASSUME FeedInv, phase = "ascend"
    PROVE  /\ job \in Jobs /\ Yml /\ items = <<>> /\ Tree
           /\ next \in 1..Len(Doc.categories) /\ DOMAIN Doc.categories = 1..Len(Doc.categories)
           /\ Len(Doc.categories) \in Nat
           /\ Start = Doc.categories[next].id
           /\ Start \in Ids(Doc.categories) /\ Start \in DOMAIN parents /\ Start # Blank
           /\ passed \in Seq(DOMAIN parents) /\ Distinct(passed) /\ Joined(passed)
           /\ passed = <<>> => current = Start
           /\ passed # <<>> =>
                /\ Last(passed) = Start
                /\ LET up == parents[passed[1]]
                   IN  current = IF up \in DOMAIN parents THEN up ELSE Blank
           /\ \A w \in Ways(Start) : Follows(w, passed, current)
  <1>1. /\ job \in Jobs /\ Yml /\ items = <<>> /\ next \in Nat \ {0} /\ next <= Len(Doc.categories)
    BY DEF FeedInv, FeedType
  <1>2. /\ DOMAIN Doc.categories = 1..Len(Doc.categories) /\ Len(Doc.categories) \in Nat
        /\ next \in 1..Len(Doc.categories)
    <2>1. DOMAIN Doc.categories = 1..Len(Doc.categories) /\ Len(Doc.categories) \in Nat
      BY <1>1, JobType
    <2>2. next \in Nat /\ next # 0 /\ next <= Len(Doc.categories)
      BY <1>1
    <2> QED
      BY <2>1, <2>2, PlaceWithin, Zenon
  <1>3. Tree
    BY AllRead DEF FeedInv
  <1>4. Start = Doc.categories[next].id
    BY DEF Start
  <1>5. Start \in Ids(Doc.categories) /\ Start \in DOMAIN parents /\ Start # Blank
    BY <1>2, <1>3, <1>4 DEF Tree, Ids
  <1>6. /\ passed \in Seq(DOMAIN parents) /\ Distinct(passed) /\ Joined(passed)
        /\ passed = <<>> => current = Start
        /\ passed # <<>> =>
             /\ Last(passed) = Start
             /\ LET up == parents[passed[1]]
                IN  current = IF up \in DOMAIN parents THEN up ELSE Blank
        /\ \A w \in Ways(Start) : Follows(w, passed, current)
    BY DEF FeedInv, ClimbInv
  <1> QED
    BY <1>1, <1>2, <1>3, <1>4, <1>5, <1>6, Zenon

LEMMA ClimbToValidateStep ==
    ASSUME FeedInv, ClimbToValidate
    PROVE  FeedInv'
  <1>1. phase = "ascend" /\ current # Blank
    BY DEF ClimbToValidate
  <1>2. /\ job \in Jobs /\ Yml /\ items = <<>> /\ Tree
        /\ Start = Doc.categories[next].id
        /\ Start \in Ids(Doc.categories) /\ Start \in DOMAIN parents
        /\ passed \in Seq(DOMAIN parents) /\ Distinct(passed) /\ Joined(passed)
        /\ \A w \in Ways(Start) : Follows(w, passed, current)
    BY <1>1, Validating
  <1>3. /\ current \in DOMAIN parents
        /\ passed = <<>> => current = Start
        /\ passed # <<>> => Last(passed) = Start /\ current = parents[passed[1]]
    BY <1>1, Validating
  <1>4. CASE Refuse
    <2>1. current \in Range(passed)
      BY <1>1, <1>4 DEF ClimbToValidate, Refuse
    <2>2. Ways(Start) = {}
      BY <1>1, <1>2, <2>1, NoStray
    <2> QED
      BY <1>2, <1>4, <2>2, Reasons, RefuseStep
  <1>5. CASE ~Refuse
    <2>1. /\ current \notin Range(passed) /\ passed' = <<current>> \o passed
          /\ current' = IF parents[current] \in DOMAIN parents THEN parents[current] ELSE Blank
          /\ UNCHANGED <<job, phase, next, parents, items>>
      BY <1>5 DEF ClimbToValidate, Up
    <2>2. /\ passed' \in Seq(DOMAIN parents) /\ passed' # <<>>
          /\ Distinct(passed') /\ Joined(passed') /\ Last(passed') = Start /\ passed'[1] = current
          /\ \A w \in Ways(Start) : Follows(w, passed', parents[current])
      BY <1>2, <1>3, <2>1, PassedOn
    <2>3. ASSUME NEW w \in Ways(Start) PROVE Follows(w, passed', current')
      <3>1. Follows(w, passed', parents[current])
        BY <2>2
      <3>2. /\ Len(w) \in Nat /\ Len(passed') \in Nat
            /\ \A i \in 1..Len(w) : w[i] \in DOMAIN parents
        BY <1>2, <2>2, WayUp, LenProperties
      <3>3. parents[current] \in {Blank} \cup DOMAIN parents
        BY <3>1, <3>2, <2>2 DEF Follows
      <3>4. current' = parents[current]
        BY <1>2, <2>1, <3>3
      <3> QED
        BY <3>1, <3>4
    <2>4. FeedType'
      BY <1>1, <2>1, JobFixed DEF FeedInv, FeedType
    <2>5. AdapterInv' /\ VerdictInv'
      BY <1>1, <2>1, JobFixed DEF FeedInv, AdapterInv, VerdictInv
    <2>6. TreeInv' /\ \A c : Rooted(c)' <=> Rooted(c)
      BY <1>1, <2>1, TreeKept DEF FeedInv
    <2>7. YmlInv'
      <3>1. Checked' = Checked /\ Doc' = Doc
        BY <1>1, <2>1, JobFixed DEF Checked
      <3> QED
        BY <1>1, <1>2, <2>1, <2>6, <3>1 DEF FeedInv, YmlInv
    <2>8. ClimbInv'
      <3>1. Start' = Start /\ Ways(Start)' = Ways(Start)
        <4>1. Start' = Doc.categories[next].id
          BY <1>1, <2>1, JobFixed DEF Start
        <4> QED
          BY <1>2, <2>1, <4>1, JobFixed DEF Ways
      <3>2. Distinct(passed)' /\ Joined(passed)'
        BY <2>1, <2>2 DEF Distinct, Joined
      <3>3. \A w \in Ways(Start)' : Follows(w, passed, current)'
        BY <2>3, <3>1 DEF Follows
      <3>4. current' \in {Blank} \cup DOMAIN parents'
        BY <2>1
      <3>5. parents'[passed'[1]] = parents[current]
        BY <2>1, <2>2
      <3> QED
        BY <1>1, <2>1, <2>2, <3>1, <3>2, <3>3, <3>4, <3>5 DEF ClimbInv
    <2>9. ItemInv'
      BY <1>1, <2>1, ItemsKept DEF FeedInv
    <2> QED
      BY <2>4, <2>5, <2>6, <2>7, <2>8, <2>9 DEF FeedInv
  <1> QED
    BY <1>4, <1>5

LEMMA ValidatedStep ==
    ASSUME FeedInv, Validated
    PROVE  FeedInv'
  <1>1. /\ phase = "ascend" /\ current = Blank
        /\ phase' = "validate" /\ next' = next + 1 /\ passed' = <<>>
        /\ UNCHANGED <<job, parents, current, items>>
    BY DEF Validated
  <1>2. /\ job \in Jobs /\ Yml /\ items = <<>> /\ Tree
        /\ next \in 1..Len(Doc.categories) /\ Len(Doc.categories) \in Nat
        /\ Start = Doc.categories[next].id /\ Start # Blank
        /\ passed \in Seq(DOMAIN parents) /\ Distinct(passed) /\ Joined(passed)
    BY <1>1, Validating
  <1>3. passed # <<>> /\ Last(passed) = Start /\ parents[passed[1]] \notin DOMAIN parents
    <2>1. /\ passed = <<>> => current = Start
          /\ passed # <<>> =>
               /\ Last(passed) = Start
               /\ LET up == parents[passed[1]]
                  IN  current = IF up \in DOMAIN parents THEN up ELSE Blank
      BY <1>1, Validating, Zenon
    <2> QED
      BY <1>1, <1>2, <2>1 DEF Tree
  <1>4. Rooted(Doc.categories[next].id)
    <2>1. passed \in Seq(Ids(Doc.categories)) /\ DOMAIN passed = 1..Len(passed)
      BY <1>2, LenProperties DEF Tree
    <2>2. passed \in Lines
      BY <1>2, <2>1, DistinctLine DEF Distinct
    <2> QED
      BY <1>2, <1>3, <2>2 DEF Rooted
  <1>5. Doc' = Doc /\ (Yml' <=> Yml)
    BY <1>1, JobFixed
  <1>6. FeedType'
    <2>1. items \in Seq(Range(items))
      BY DEF FeedInv, FeedType
    <2>2. next' \in Nat \ {0} /\ next' <= Len(Doc.categories) + 1
      <3>1. \A n \in Nat : \A m \in 1..n : m + 1 \in Nat \ {0} /\ m + 1 <= n + 1
        OBVIOUS
      <3> QED
        BY <1>1, <1>2, <3>1, Zenon
    <2> QED
      BY <1>1, <1>2, <1>5, <2>1, <2>2 DEF FeedType
  <1>7. AdapterInv' /\ VerdictInv' /\ ClimbInv'
    BY <1>1, <1>5 DEF FeedInv, AdapterInv, VerdictInv, ClimbInv
  <1>8. TreeInv' /\ \A c : Rooted(c)' <=> Rooted(c)
    BY <1>1, TreeKept DEF FeedInv
  <1>9. YmlInv'
    <2>1. Checked = 1..next - 1 /\ Checked' = 1..next
      <3>1. \A n \in Nat : \A m \in 1..n : \A x : x = m + 1 => x - 1 = m
        OBVIOUS
      <3>2. next' - 1 = next
        BY <1>1, <1>2, <3>1, Zenon
      <3> QED
        BY <1>1, <3>2 DEF Checked
    <2>2. \A k \in 1..next : k \in 1..next - 1 \/ k = next
      BY <1>2
    <2>3. /\ \A k \in 1..next - 1 : /\ Doc.categories[k].parent \in {Blank} \cup DOMAIN parents
                                    /\ Rooted(Doc.categories[k].id)
          /\ Doc.categories[next].parent \in {Blank} \cup DOMAIN parents
      BY <1>1, <1>2, <2>1 DEF FeedInv, YmlInv
    <2> QED
      BY <1>1, <1>4, <1>5, <1>8, <2>1, <2>2, <2>3 DEF YmlInv
  <1>10. ItemInv'
    BY <1>1, ItemsKept DEF FeedInv
  <1> QED
    BY <1>6, <1>7, <1>8, <1>9, <1>10 DEF FeedInv

-----------------------------------------------------------------------------
\* A category of parse_yml has a whole path once all were validated.
LEMMA YmlWay ==
    ASSUME FeedInv, Yml, phase \in {"offers", "climb", "accepted"}, NEW c \in DOMAIN parents
    PROVE  Ways(c) # {}
  <1>1. job \in Jobs
    BY DEF FeedInv, FeedType
  <1>2. Tree
    BY AllRead DEF FeedInv
  <1>3. Checked = DOMAIN Doc.categories
    BY DEF Checked
  <1>4. \A k \in DOMAIN Doc.categories : /\ Doc.categories[k].parent \in {Blank} \cup DOMAIN parents
                                         /\ Rooted(Doc.categories[k].id)
    BY <1>3 DEF FeedInv, YmlInv
  <1>5. Rooted(c)
    BY <1>2, <1>4 DEF Tree, Ids
  <1> QED
    BY <1>1, <1>2, <1>4, <1>5, RootedWay

\* What the parser has in hand of an offer.
LEMMA Offering ==
    ASSUME FeedInv, phase \in {"offers", "climb"}, phase = "offers" => next <= Len(Doc.offers)
    PROVE  /\ job \in Jobs /\ Tree
           /\ Len(Doc.offers) \in Nat /\ DOMAIN Doc.offers = 1..Len(Doc.offers)
           /\ next \in 1..Len(Doc.offers) /\ next \in DOMAIN Doc.offers
           /\ items \in Seq(Range(items)) /\ DOMAIN items = 1..Len(items)
           /\ Len(items) = next - 1
           /\ job.min \in Nat /\ job.max \in Nat
  <1>1. /\ job \in Jobs /\ next \in Nat \ {0} /\ next <= Len(Doc.offers)
        /\ items \in Seq(Range(items))
    BY DEF FeedInv, FeedType
  <1>2. /\ Len(Doc.offers) \in Nat /\ DOMAIN Doc.offers = 1..Len(Doc.offers)
        /\ job.min \in Nat /\ job.max \in Nat
    BY <1>1, JobType
  <1>3. Tree
    BY AllRead DEF FeedInv
  <1>4. next \in Nat /\ next # 0
    BY <1>1
  <1>5. next \in 1..Len(Doc.offers)
    BY <1>1, <1>2, <1>4, PlaceWithin, Zenon
  <1>6. Len(items) = next - 1
    BY DEF FeedInv, ItemInv
  <1>7. DOMAIN items = 1..Len(items)
    BY <1>1, LenProperties
  <1> QED
    BY <1>1, <1>2, <1>3, <1>5, <1>6, <1>7, Zenon

LEMMA StartOfferStep ==
    ASSUME FeedInv, StartOffer
    PROVE  FeedInv'
  <1> DEFINE o == Doc.offers[next]
  <1>1. phase = "offers" /\ next <= Len(Doc.offers)
    BY DEF StartOffer
  <1>2. /\ job \in Jobs /\ Tree
        /\ Len(Doc.offers) \in Nat /\ DOMAIN Doc.offers = 1..Len(Doc.offers)
        /\ next \in 1..Len(Doc.offers) /\ next \in DOMAIN Doc.offers
        /\ items \in Seq(Range(items)) /\ DOMAIN items = 1..Len(items)
        /\ Len(items) = next - 1
    BY <1>1, Offering
  <1>3. CASE Refuse
    <2>1. \/ o.id \in Ids(items) \/ Faulty(o)
          \/ Yml /\ Text(o, "category") \notin {Blank} \cup DOMAIN parents
      BY <1>1, <1>3 DEF StartOffer, Refuse
    <2>2. CASE o.id \in Ids(items)
      <3>1. PICK i \in DOMAIN items : items[i].id = o.id
        BY <2>2 DEF Ids
      <3>2. items[i].id = Doc.offers[i].id
        BY DEF FeedInv, ItemInv, Made
      <3>3. /\ i \in DOMAIN Doc.offers /\ next \in DOMAIN Doc.offers /\ i # next
            /\ Doc.offers[i].id = Doc.offers[next].id
        BY <1>2, <3>1, <3>2
      <3>4. Len(Doc.offers) \in Nat /\ DOMAIN Doc.offers = 1..Len(Doc.offers)
        BY <1>2
      <3>5. Cardinality(Ids(Doc.offers)) < Len(Doc.offers)
        BY <3>3, <3>4, IdsCounted
      <3> QED
        BY <1>3, <3>5, Reasons, RefuseStep
    <2>3. CASE Faulty(o)
      BY <1>2, <1>3, <2>3, Reasons, RefuseStep
    <2>4. CASE Text(o, "category") \notin {Blank} \cup DOMAIN parents
      <3>1. ASSUME NEW w \in Ways(Text(o, "category")) PROVE FALSE
        <4>1. /\ Len(w) \in Nat /\ Len(w) # 0 /\ w[Len(w)] = Text(o, "category")
              /\ \A i \in 1..Len(w) : w[i] \in DOMAIN parents
          BY <1>2, <2>4, WayUp
        <4>2. \A n \in Nat : n # 0 => n \in 1..n
          OBVIOUS
        <4> QED
          BY <2>4, <4>1, <4>2
      <3> QED
        BY <1>2, <1>3, <3>1, Reasons, RefuseStep
    <2> QED
      BY <2>1, <2>2, <2>3, <2>4
  <1>4. CASE ~Refuse
    <2>1. /\ o.id \notin Ids(items) /\ ~Faulty(o)
          /\ Yml => Text(o, "category") \in {Blank} \cup DOMAIN parents
          /\ current' = Text(o, "category") /\ passed' = <<>> /\ phase' = "climb"
          /\ UNCHANGED <<job, next, parents, items>>
      BY <1>4 DEF StartOffer
    <2>2. Doc' = Doc /\ (Yml' <=> Yml)
      BY <2>1, JobFixed
    <2>3. FeedType'
      BY <1>1, <2>1, <2>2 DEF FeedInv, FeedType
    <2>4. AdapterInv' /\ VerdictInv'
      BY <1>1, <2>1, <2>2, JobFixed DEF FeedInv, AdapterInv, VerdictInv
    <2>5. TreeInv' /\ \A c : Rooted(c)' <=> Rooted(c)
      BY <1>1, <2>1, TreeKept DEF FeedInv
    <2>6. YmlInv'
      <3>1. Checked' = Checked
        BY <1>1, <2>1, <2>2 DEF Checked
      <3> QED
        BY <1>1, <2>1, <2>2, <2>5, <3>1 DEF FeedInv, YmlInv
    <2>7. ClimbInv'
      <3>1. Start' = Text(o, "category")
        BY <2>1, <2>2, JobFixed DEF Start
      <3>2. \A w \in Ways(Text(o, "category")) : Follows(w, <<>>, Text(o, "category"))
        BY <1>2, FollowsFirst
      <3>3. \A w : w \in Ways(Start)' => Follows(w, passed, current)'
        BY <2>1, <3>1, <3>2, JobFixed DEF Ways, Follows
      <3>4. passed' \in Seq(DOMAIN parents') /\ Distinct(passed)' /\ Joined(passed)'
        BY <2>1, NothingPassed
      <3> QED
        BY <2>1, <2>2, <3>1, <3>3, <3>4 DEF ClimbInv
    <2>8. ItemInv'
      <3>1. Yml => Len(items) <= job.max
        BY <1>1 DEF FeedInv, ItemInv
      <3>2. ~Faulty(Doc.offers[next])' /\ (Doc.offers[next].id \notin Ids(items))'
        BY <2>1, <2>2, JobFixed DEF Ids
      <3>3. Made'
        BY <2>1, ItemsStand DEF FeedInv, ItemInv
      <3> QED
        BY <1>2, <2>1, <2>2, <3>1, <3>2, <3>3 DEF ItemInv
    <2> QED
      BY <2>3, <2>4, <2>5, <2>6, <2>7, <2>8 DEF FeedInv
  <1> QED
    BY <1>3, <1>4

\* What a climb for an offer has passed.
LEMMA Climbing ==
    ASSUME FeedInv, phase = "climb"
    PROVE  /\ Start = Text(Doc.offers[next], "category")
           /\ passed \in Seq(DOMAIN parents) /\ Distinct(passed) /\ Joined(passed)
           /\ passed = <<>> => current = Start
           /\ passed # <<>> => Last(passed) = Start /\ current = parents[passed[1]]
           /\ Yml => Start \in {Blank} \cup DOMAIN parents
           /\ \A w \in Ways(Start) : Follows(w, passed, current)
  BY DEF FeedInv, ClimbInv, Start

\* parse_yml never passes over a stray: what its validation has found leads
\* every climb to a root.
LEMMA YmlStaysOn ==
    ASSUME FeedInv, phase = "climb", current # Blank, Stray
    PROVE  ~Yml
  <1> SUFFICES ASSUME Yml PROVE FALSE
    OBVIOUS
  <1>1. job \in Jobs /\ Tree
    BY Offering
  <1>2. /\ passed \in Seq(DOMAIN parents)
        /\ passed = <<>> => current = Start
        /\ passed # <<>> => Last(passed) = Start /\ current = parents[passed[1]]
        /\ Start \in {Blank} \cup DOMAIN parents
        /\ \A w \in Ways(Start) : Follows(w, passed, current)
    BY Climbing
  <1>3. Start \in DOMAIN parents
    <2>1. CASE passed = <<>>
      BY <1>2, <2>1
    <2>2. CASE passed # <<>>
      <3>1. Len(passed) \in Nat /\ Len(passed) # 0 /\ \A i \in 1..Len(passed) : passed[i] \in DOMAIN parents
        BY <1>2, <2>2, EmptySeq, LenProperties, ElementOfSeq
      <3>2. Start = passed[Len(passed)]
        BY <1>2, <2>2 DEF Last
      <3>3. \A n \in Nat : n # 0 => n \in 1..n
        OBVIOUS
      <3> QED
        BY <3>1, <3>2, <3>3
    <2> QED
      BY <2>1, <2>2
  <1>4. Ways(Start) # {}
    BY <1>3, YmlWay
  <1> QED
    BY <1>1, <1>2, <1>4, NoStray DEF Stray

LEMMA ClimbStep ==
    ASSUME FeedInv, Climb
    PROVE  FeedInv'
  <1>1. phase = "climb" /\ current # Blank
    BY DEF Climb
  <1>2. job \in Jobs /\ Tree /\ next \in DOMAIN Doc.offers
    BY <1>1, Offering
  <1>3. /\ Start = Text(Doc.offers[next], "category")
        /\ passed \in Seq(DOMAIN parents) /\ Distinct(passed) /\ Joined(passed)
        /\ passed = <<>> => current = Start
        /\ passed # <<>> => Last(passed) = Start /\ current = parents[passed[1]]
        /\ Yml => Start \in {Blank} \cup DOMAIN parents
        /\ \A w \in Ways(Start) : Follows(w, passed, current)
    BY <1>1, Climbing
  <1>4. Ways(Start) # {} => ~Stray
    BY <1>1, <1>2, <1>3, NoStray DEF Stray
  <1>5. CASE Stray
    <2>1. ~Yml
      BY <1>1, <1>5, YmlStaysOn
    <2>2. Refuse
      BY <1>5, <2>1 DEF Climb
    <2>3. Unacceptable
      BY <1>2, <1>3, <1>4, <1>5, Reasons
    <2> QED
      BY <2>2, <2>3, RefuseStep
  <1>6. CASE ~Stray
    <2>1. /\ current \in DOMAIN parents /\ current \notin Range(passed)
          /\ passed' = <<current>> \o passed /\ current' = parents[current]
          /\ UNCHANGED <<job, phase, next, parents, items>>
      BY <1>6 DEF Climb, Stray
    <2>2. /\ passed' \in Seq(DOMAIN parents) /\ passed' # <<>>
          /\ Distinct(passed') /\ Joined(passed') /\ Last(passed') = Start /\ passed'[1] = current
          /\ \A w \in Ways(Start) : Follows(w, passed', current')
      BY <1>2, <1>3, <2>1, PassedOn
    <2>3. FeedType'
      BY <1>1, <2>1, JobFixed DEF FeedInv, FeedType
    <2>4. AdapterInv' /\ VerdictInv'
      BY <1>1, <2>1, JobFixed DEF FeedInv, AdapterInv, VerdictInv
    <2>5. TreeInv' /\ \A c : Rooted(c)' <=> Rooted(c)
      BY <1>1, <2>1, TreeKept DEF FeedInv
    <2>6. YmlInv'
      <3>1. Checked' = Checked /\ Doc' = Doc /\ (Yml' <=> Yml)
        BY <1>1, <2>1, JobFixed DEF Checked
      <3> QED
        BY <1>1, <2>1, <2>5, <3>1 DEF FeedInv, YmlInv
    <2>7. ClimbInv'
      <3>1. Start' = Start /\ Ways(Start)' = Ways(Start)
        <4>1. Start' = Text(Doc.offers[next], "category")
          BY <1>1, <2>1, JobFixed DEF Start
        <4> QED
          BY <1>3, <2>1, <4>1, JobFixed DEF Ways
      <3>2. Distinct(passed)' /\ Joined(passed)'
        BY <2>1, <2>2 DEF Distinct, Joined
      <3>3. \A w \in Ways(Start)' : Follows(w, passed, current)'
        BY <2>2, <3>1 DEF Follows
      <3>4. Yml' <=> Yml
        BY <2>1, JobFixed
      <3>5. parents'[passed'[1]] = parents[current]
        BY <2>1, <2>2
      <3> QED
        BY <1>1, <1>3, <2>1, <2>2, <3>1, <3>2, <3>3, <3>4, <3>5 DEF ClimbInv
    <2>8. ItemInv'
      <3>1. Made'
        BY <2>1, ItemsStand DEF FeedInv, ItemInv
      <3>2. ~Faulty(Doc.offers[next])' /\ (Doc.offers[next].id \notin Ids(items))'
        BY <1>1, <2>1, JobFixed DEF Ids, FeedInv, ItemInv
      <3> QED
        BY <1>1, <2>1, <3>1, <3>2, JobFixed DEF FeedInv, ItemInv
    <2> QED
      BY <2>3, <2>4, <2>5, <2>6, <2>7, <2>8 DEF FeedInv
  <1> QED
    BY <1>5, <1>6

LEMMA AppendStep ==
    ASSUME FeedInv, AppendItem
    PROVE  FeedInv'
  <1> DEFINE o == Doc.offers[next]
             new == Item(o)
  <1>1. /\ phase = "climb" /\ current = Blank
        /\ items' = Append(items, new)
        /\ phase' = IF Yml /\ Len(items') > job.max THEN "refused" ELSE "offers"
        /\ next' = next + 1
        /\ UNCHANGED <<job, parents, current, passed>>
    BY DEF AppendItem
  <1>2. /\ job \in Jobs /\ Tree
        /\ Len(Doc.offers) \in Nat /\ DOMAIN Doc.offers = 1..Len(Doc.offers)
        /\ next \in 1..Len(Doc.offers) /\ next \in DOMAIN Doc.offers
        /\ items \in Seq(Range(items)) /\ DOMAIN items = 1..Len(items)
        /\ Len(items) = next - 1
        /\ job.min \in Nat /\ job.max \in Nat
    BY <1>1, Offering
  <1>3. Doc' = Doc /\ (Yml' <=> Yml)
    BY <1>1, JobFixed
  <1>4. passed \in Ways(Text(o, "category"))
    <2>1. /\ Start = Text(o, "category")
          /\ passed \in Seq(DOMAIN parents) /\ Distinct(passed) /\ Joined(passed)
          /\ passed = <<>> => current = Start
          /\ passed # <<>> => Last(passed) = Start /\ current = parents[passed[1]]
      BY <1>1, Climbing
    <2>2. CASE passed = <<>>
      <3>1. Len(Doc.categories) \in Nat
        BY <1>2, JobType
      <3>2. <<>> \in [1..0 -> Ids(Doc.categories)]
        OBVIOUS
      <3>3. <<>> \in Lines
        BY <3>1, <3>2 DEF Lines
      <3>4. IsWholePath(<<>>, Blank)
        BY DEF IsWholePath
      <3> QED
        BY <1>1, <2>1, <2>2, <3>3, <3>4 DEF Ways
    <2>3. CASE passed # <<>>
      BY <1>1, <1>2, <2>1, <2>3, WholeWay
    <2> QED
      BY <2>2, <2>3
  <1>5. /\ new.id = o.id /\ new.available = Available(o) /\ new.ean = Ean(o) /\ new.path = passed
    BY DEF Item
  <1> HIDE DEF new
  <1>6. /\ items' \in Seq(Range(items')) /\ Len(items') = Len(items) + 1
        /\ DOMAIN items' = DOMAIN items \cup {Len(items) + 1}
        /\ items'[Len(items) + 1] = new
        /\ \A i \in DOMAIN items : items'[i] = items[i]
    BY <1>1, <1>2, AppendRange
  <1>7. Len(items') = next /\ DOMAIN items' = DOMAIN items \cup {next} /\ items'[next] = new
        /\ next' - 1 = next
    <2>1. \A n \in Nat : \A m \in 1..n : m - 1 + 1 = m /\ m + 1 - 1 = m
      OBVIOUS
    <2> QED
      BY <1>1, <1>2, <1>6, <2>1
  <1>8. Made'
    <2>1. ~Faulty(o) /\ o.id \notin Ids(items) /\ Made
      BY <1>1 DEF FeedInv, ItemInv
    <2>2. Len(items') <= Len(Doc.offers)
      BY <1>2, <1>7
    <2>3. ASSUME NEW i \in DOMAIN items'
          PROVE  /\ ~Faulty(Doc.offers[i])
                 /\ items'[i].id = Doc.offers[i].id
                 /\ items'[i].available = Available(Doc.offers[i]) /\ items'[i].ean = Ean(Doc.offers[i])
                 /\ items'[i].path \in Ways(Text(Doc.offers[i], "category"))
      <3>1. CASE i \in DOMAIN items
        BY <1>6, <2>1, <3>1 DEF Made
      <3>2. CASE i = next
        BY <1>4, <1>5, <1>7, <2>1, <3>2
      <3> QED
        BY <1>7, <3>1, <3>2
    <2>4. ASSUME NEW i \in DOMAIN items', NEW j \in DOMAIN items', items'[i].id = items'[j].id
          PROVE  i = j
      <3>1. \A k \in DOMAIN items : items'[k].id = items[k].id /\ items[k].id # items'[next].id
        BY <1>5, <1>6, <1>7, <2>1 DEF Ids
      <3>2. \A k, l \in DOMAIN items : items[k].id = items[l].id => k = l
        BY <2>1 DEF Made
      <3> QED
        BY <1>7, <2>4, <3>1, <3>2
    <2> QED
      BY <1>1, <1>3, <2>2, <2>3, <2>4, JobFixed DEF Made
  <1>9. FeedType'
    <2>1. \A n \in Nat : \A m \in 1..n : m + 1 \in Nat \ {0} /\ m + 1 <= n + 1
      OBVIOUS
    <2>2. next' \in Nat \ {0} /\ next' <= Len(Doc.offers) + 1
      BY <1>1, <1>2, <2>1, Zenon
    <2> QED
      BY <1>1, <1>2, <1>3, <1>6, <2>2 DEF FeedType, Ended
  <1>10. AdapterInv' /\ ClimbInv'
    BY <1>1, <1>3, JobFixed DEF FeedInv, AdapterInv, ClimbInv
  <1>11. TreeInv' /\ \A c : Rooted(c)' <=> Rooted(c)
    BY <1>1, TreeKept DEF FeedInv
  <1>12. YmlInv'
    <2>1. phase' = "offers" => Checked' = Checked
      BY <1>1, <1>3 DEF Checked
    <2> QED
      BY <1>1, <1>3, <1>11, <2>1 DEF FeedInv, YmlInv
  <1>13. ItemInv'
    <2>1. phase' # "refused" /\ Yml => Len(items') <= job.max
      BY <1>1, <1>2, <1>7
    <2> QED
      BY <1>1, <1>3, <1>7, <1>8, <2>1 DEF ItemInv
  <1>14. VerdictInv'
    <2> SUFFICES ASSUME phase' = "refused" PROVE Unacceptable'
      BY DEF VerdictInv
    <2>1. Len(Doc.offers) > job.max
      BY <1>1, <1>2, <1>7
    <2>2. Len(Doc.offers) \notin job.min..job.max
      BY <1>2, <2>1
    <2> QED
      BY <1>1, <2>2, Reasons, JobFixed
  <1> QED
    BY <1>8, <1>9, <1>10, <1>11, <1>12, <1>13, <1>14 DEF FeedInv

LEMMA ReturnStep ==
    ASSUME FeedInv, Return
    PROVE  FeedInv'
  <1>1. /\ phase = "offers" /\ next > Len(Doc.offers)
        /\ phase' = IF Len(items) < job.min THEN "refused" ELSE "accepted"
        /\ UNCHANGED <<job, next, parents, current, passed, items>>
    BY DEF Return
  <1>2. /\ job \in Jobs /\ Len(items) = next - 1 /\ next \in Nat \ {0}
        /\ next <= Len(Doc.offers) + 1
    BY <1>1 DEF FeedInv, FeedType, ItemInv
  <1>3. Len(Doc.offers) \in Nat /\ job.min \in Nat /\ job.max \in Nat
    BY <1>2, JobType
  <1>4. Len(items) = Len(Doc.offers)
    BY <1>1, <1>2, <1>3
  <1>5. CASE Len(items) < job.min
    <2>1. Len(Doc.offers) \notin job.min..job.max
      BY <1>3, <1>4, <1>5
    <2>2. Refuse /\ Unacceptable
      BY <1>1, <1>5, <2>1, Reasons DEF Refuse
    <2> QED
      BY <2>2, RefuseStep
  <1>6. CASE ~(Len(items) < job.min)
    <2>1. phase' = "accepted" /\ Doc' = Doc /\ (Yml' <=> Yml)
      BY <1>1, <1>6, JobFixed
    <2>2. FeedType'
      BY <1>1, <2>1 DEF FeedInv, FeedType, Ended
    <2>3. AdapterInv' /\ ClimbInv' /\ VerdictInv'
      BY <1>1, <2>1, JobFixed DEF FeedInv, AdapterInv, ClimbInv, VerdictInv
    <2>4. TreeInv' /\ \A c : Rooted(c)' <=> Rooted(c)
      BY <1>1, <2>1, TreeKept DEF FeedInv
    <2>5. YmlInv'
      <3>1. Checked' = Checked
        BY <1>1, <2>1 DEF Checked
      <3> QED
        BY <1>1, <2>1, <2>4, <3>1 DEF FeedInv, YmlInv
    <2>6. ItemInv'
      <3>1. Made'
        BY <1>1, ItemsStand DEF FeedInv, ItemInv
      <3>2. Len(items) >= job.min /\ (Yml => Len(items) <= job.max)
        BY <1>1, <1>3, <1>4, <1>6 DEF FeedInv, ItemInv
      <3> QED
        BY <1>1, <1>4, <2>1, <3>1, <3>2 DEF ItemInv
    <2> QED
      BY <2>2, <2>3, <2>4, <2>5, <2>6 DEF FeedInv
  <1> QED
    BY <1>5, <1>6

LEMMA FeedStepInv == FeedInv /\ [Next]_vars => FeedInv'
  <1> SUFFICES ASSUME FeedInv, [Next]_vars PROVE FeedInv'
    OBVIOUS
  <1>1. CASE Step
    <2>1. \/ CreateAdapter \/ ReadCategory \/ LastCategory
          \/ ValidateCategory \/ ClimbToValidate \/ Validated
          \/ StartOffer \/ Climb \/ AppendItem \/ Return
      BY <1>1 DEF Step
    <2> QED
      BY <2>1, CreateStep, ReadStep, LastStep, ValidateStep, ClimbToValidateStep, ValidatedStep,
         StartOfferStep, ClimbStep, AppendStep, ReturnStep
  <1>2. CASE UNCHANGED vars
    <2>1. UNCHANGED <<job, phase, next, parents, current, passed, items>>
      BY <1>2 DEF vars
    <2>2. FeedType' /\ AdapterInv' /\ VerdictInv'
      BY <2>1, JobFixed DEF FeedInv, FeedType, AdapterInv, VerdictInv
    <2>3. TreeInv' /\ YmlInv'
      <3>1. Doc' = Doc /\ (Yml' <=> Yml) /\ \A c : Rooted(c)' <=> Rooted(c)
        BY <2>1, JobFixed DEF Rooted, Distinct, Joined, Last
      <3>2. Checked' = Checked /\ Read' = Read
        BY <2>1, <3>1 DEF Checked, Read
      <3> QED
        BY <2>1, <3>1, <3>2 DEF FeedInv, TreeInv, YmlInv
    <2>4. ClimbInv'
      <3>1. Start' = Start
        BY <2>1, JobFixed DEF Start
      <3>2. Ways(Start)' = Ways(Start)
        BY <2>1, <3>1, JobFixed DEF Ways
      <3>3. (Distinct(passed)' <=> Distinct(passed)) /\ (Joined(passed)' <=> Joined(passed))
        BY <2>1 DEF Distinct, Joined
      <3>4. \A w : Follows(w, passed, current)' <=> Follows(w, passed, current)
        BY <2>1 DEF Follows
      <3> QED
        BY <2>1, <3>1, <3>2, <3>3, <3>4, JobFixed DEF FeedInv, ClimbInv
    <2>5. ItemInv'
      <3>1. Made'
        BY <2>1, ItemsStand DEF FeedInv, ItemInv
      <3>2. \A o : Faulty(o)' <=> Faulty(o)
        BY <2>1, JobFixed
      <3> QED
        BY <2>1, <3>1, <3>2, JobFixed DEF FeedInv, ItemInv, Ids
    <2> QED
      BY <2>2, <2>3, <2>4, <2>5 DEF FeedInv
  <1> QED
    BY <1>1, <1>2 DEF Next

-----------------------------------------------------------------------------
\* What the parsers promise.

\* The invariant of the parsers: what was read of the tree, that a climb follows
\* every whole path there is, and what the items and the verdict are due to.
THEOREM FeedInvariant == Spec => []FeedInv
  <1>1. Init => FeedInv
    BY FeedInitInv
  <1>2. FeedInv /\ [Next]_vars => FeedInv'
    BY FeedStepInv
  <1> QED
    BY <1>1, <1>2, PTL DEF Spec

\* Whatever the documents, no parser returns or holds an item whose category
\* path is a piece of the tree (_category_path, _validate_categories).
THEOREM PathsAreWholeAlways == Spec => []PathsAreWhole
  <1>1. FeedInv => PathsAreWhole
    BY DEF FeedInv, ItemInv, Made, PathsAreWhole, Ways
  <1> QED
    BY <1>1, FeedInvariant, PTL

\* The only text of a field.
LEMMA OnlyText ==
    ASSUME NEW S, IsFiniteSet(S), ~(Cardinality(S) > 1), NEW x \in S
    PROVE  S = {x} /\ Only(S) = x
  <1>1. Cardinality(S) \in Nat /\ Cardinality(S) # 0
    BY FS_CardinalityType, FS_EmptySet
  <1>2. Cardinality(S) = 1
    BY <1>1
  <1>3. S = {x}
    BY <1>2, FS_Singleton
  <1>4. Only({x}) = x
    BY DEF Only
  <1> QED
    BY <1>3, <1>4

\* Whatever the documents, a snapshot has every offer as one item, within the
\* limits, and no item is available against its own stock or production field,
\* or has one of several barcodes (parse_yml, parse_legacy_xml).
THEOREM SnapshotIsTheFeedAlways == Spec => []SnapshotIsTheFeed
  <1>1. ASSUME FeedInv, phase = "accepted"
        PROVE  /\ Len(items) = Len(Doc.offers) /\ Len(items) \in job.min..job.max
               /\ Cardinality(Ids(items)) = Len(items)
    <2>1. /\ job \in Jobs /\ items \in Seq(Range(items))
          /\ Len(items) = Len(Doc.offers) /\ Len(items) >= job.min
          /\ Yml => Len(items) <= job.max
          /\ ~Yml => Len(Doc.offers) <= job.max
      BY <1>1 DEF FeedInv, FeedType, ItemInv, AdapterInv
    <2>2. Len(Doc.offers) \in Nat /\ job.min \in Nat /\ job.max \in Nat
      BY <2>1, JobType
    <2>3. Len(items) \in Nat /\ DOMAIN items = 1..Len(items)
      BY <2>1, LenProperties
    <2>4. \A i, j \in DOMAIN items : items[i].id = items[j].id => i = j
      BY <1>1 DEF FeedInv, ItemInv, Made
    <2>5. Cardinality(Ids(items)) = Len(items)
      BY <2>3, <2>4, IdsCounted
    <2> QED
      BY <2>1, <2>2, <2>5
  <1>2. ASSUME FeedInv, phase = "accepted", NEW i \in DOMAIN items, NEW o, o = Doc.offers[i]
        PROVE  /\ items[i].id = o.id
               /\ items[i].available =>
                    /\ Yml \/ "0" \notin o.quantity
                    /\ job.supplier = "netlab" => "yes" \notin o.outOfProd
               /\ items[i].ean # None => o.barcodes \ {Blank} = {items[i].ean}
    <2>1. /\ ~Faulty(o) /\ items[i].id = o.id
          /\ items[i].available = Available(o) /\ items[i].ean = Ean(o)
      BY <1>2 DEF FeedInv, ItemInv, Made
    <2>2. /\ job \in Jobs /\ items \in Seq(Range(items)) /\ Len(items) = Len(Doc.offers)
          /\ job.supplier \in DOMAIN CatalogSkuPrefix
      BY <1>2 DEF FeedInv, FeedType, ItemInv, AdapterInv
    <2>3. /\ IsFiniteSet(o.quantity) /\ IsFiniteSet(o.outOfProd) /\ IsFiniteSet(o.barcodes)
      <3>1. DOMAIN items = 1..Len(items)
        BY <2>2, LenProperties
      <3>2. /\ DOMAIN Doc.offers = 1..Len(Doc.offers)
            /\ \A k \in DOMAIN Doc.offers : \A field \in Fields : IsFiniteSet(Doc.offers[k][field])
        BY <2>2, JobType
      <3>3. \A field \in Fields : IsFiniteSet(o[field])
        BY <1>2, <2>2, <3>1, <3>2
      <3> QED
        BY <3>3 DEF Fields
    <2>4. ASSUME NEW field \in {"quantity", "outOfProd"}, field \in Scalars[job.supplier], ~Yml,
                 NEW text \in o[field], text # Blank
          PROVE  Text(o, field) = text
      <3>1. Texts(o, field) = o[field] \ {Blank}
        BY <2>4 DEF Texts
      <3>2. IsFiniteSet(Texts(o, field))
        BY <2>3, <3>1, FS_Subset
      <3>3. ~(Cardinality(Texts(o, field)) > 1)
        BY <2>1, <2>4 DEF Faulty, Conflicting
      <3>4. text \in Texts(o, field)
        BY <2>4, <3>1
      <3>5. Only(Texts(o, field)) = text
        BY <3>2, <3>3, <3>4, OnlyText
      <3> QED
        BY <2>4, <3>4, <3>5 DEF Text
    <2>5. ASSUME Available(o), ~Yml, "0" \in o.quantity PROVE FALSE
      <3>1. job.supplier \in {"netlab", "vetcom"}
        BY <2>2, <2>5 DEF Yml, CatalogSkuPrefix
      <3>2. "quantity" \in Scalars[job.supplier]
        BY <3>1 DEF Scalars
      <3>3. Text(o, "quantity") = "0"
        BY <2>4, <2>5, <3>2 DEF Blank
      <3> QED
        BY <2>5, <3>3 DEF Available, OutOfStock
    <2>6. ASSUME Available(o), job.supplier = "netlab", "yes" \in o.outOfProd PROVE FALSE
      <3>1. ~Yml
        BY <2>6 DEF Yml
      <3>2. "outOfProd" \in Scalars[job.supplier]
        BY <2>6 DEF Scalars
      <3>3. Text(o, "outOfProd") = "yes"
        BY <2>4, <2>6, <3>1, <3>2 DEF Blank
      <3> QED
        BY <2>6, <3>3 DEF Available
    <2>7. Ean(o) # None => o.barcodes \ {Blank} = {Ean(o)}
      <3> DEFINE barcodes == o.barcodes \ {Blank}
      <3> SUFFICES ASSUME Ean(o) # None PROVE barcodes = {Ean(o)}
        OBVIOUS
      <3>1. Cardinality(barcodes) = 1 /\ Ean(o) = Only(barcodes)
        BY DEF Ean
      <3>2. IsFiniteSet(barcodes)
        BY <2>3, FS_Subset
      <3> HIDE DEF barcodes
      <3>3. PICK x \in barcodes : TRUE
        BY <3>1, FS_EmptySet
      <3> QED
        BY <3>1, <3>2, <3>3, OnlyText
    <2> QED
      BY <2>1, <2>5, <2>6, <2>7
  <1>3. FeedInv => SnapshotIsTheFeed
    BY <1>1, <1>2 DEF SnapshotIsTheFeed
  <1> QED
    BY <1>3, FeedInvariant, PTL

\* Whatever the documents, a parse is refused exactly when something is wrong
\* with its call or its document that its parser answers for.
THEOREM VerdictIsDeservedAlways == Spec => []VerdictIsDeserved
  <1>1. ASSUME FeedInv, phase = "accepted" PROVE ~Unacceptable
    <2>1. /\ job \in Jobs /\ items \in Seq(Range(items))
          /\ Len(items) = Len(Doc.offers) /\ Len(items) >= job.min
          /\ Yml => Len(items) <= job.max
          /\ ~Yml => Len(Doc.offers) <= job.max
          /\ job.supplier \in DOMAIN CatalogSkuPrefix /\ CatalogSkuPrefix[job.supplier] = job.prefix
          /\ Doc.sound
      BY <1>1 DEF FeedInv, FeedType, ItemInv, AdapterInv
    <2>2. /\ Len(Doc.offers) \in Nat /\ job.min \in Nat /\ job.max \in Nat
          /\ DOMAIN Doc.offers = 1..Len(Doc.offers)
          /\ Len(Doc.categories) \in Nat /\ DOMAIN Doc.categories = 1..Len(Doc.categories)
      BY <2>1, JobType
    <2>3. DOMAIN items = DOMAIN Doc.offers
      BY <2>1, <2>2, LenProperties
    <2>4. /\ Tree
          /\ \A j, k \in DOMAIN Doc.categories :
               Doc.categories[j].id = Doc.categories[k].id => j = k
      BY <1>1, AllRead DEF FeedInv
    <2>5. \A i \in DOMAIN Doc.offers : /\ ~Faulty(Doc.offers[i])
                                       /\ items[i].id = Doc.offers[i].id
                                       /\ Ways(Text(Doc.offers[i], "category")) # {}
      BY <1>1, <2>3 DEF FeedInv, ItemInv, Made
    <2>6. \A i, j \in DOMAIN Doc.offers : Doc.offers[i].id = Doc.offers[j].id => i = j
      BY <1>1, <2>3, <2>5 DEF FeedInv, ItemInv, Made
    <2>7. <<job.supplier, job.prefix>>
             \in {<<"electrozone", "11">>, <<"netlab", "31">>, <<"vetcom", "41">>}
      BY <2>1 DEF CatalogSkuPrefix
    <2>8. ASSUME NEW seq \in {Doc.categories, Doc.offers}
          PROVE  ~(Blank \in Ids(seq) \/ Cardinality(Ids(seq)) < Len(seq))
      <3>1. CASE seq = Doc.categories
        <4>1. Blank \notin Ids(Doc.categories)
          BY <2>4 DEF Tree
        <4>2. Cardinality(Ids(Doc.categories)) = Len(Doc.categories)
          BY <2>2, <2>4, IdsCounted
        <4> QED
          BY <2>2, <3>1, <4>1, <4>2
      <3>2. CASE seq = Doc.offers
        <4>1. Blank \notin Ids(Doc.offers)
          BY <2>5 DEF Ids, Faulty
        <4>2. Cardinality(Ids(Doc.offers)) = Len(Doc.offers)
          BY <2>2, <2>6, IdsCounted
        <4> QED
          BY <2>2, <3>2, <4>1, <4>2
      <3> QED
        BY <3>1, <3>2
    <2>9. ASSUME NEW c \in {Text(Doc.offers[i], "category") : i \in DOMAIN Doc.offers}
                           \cup (IF Yml THEN Ids(Doc.categories) ELSE {})
          PROVE  Ways(c) # {}
      <3>1. CASE c \in {Text(Doc.offers[i], "category") : i \in DOMAIN Doc.offers}
        BY <2>5, <3>1
      <3>2. CASE Yml /\ c \in Ids(Doc.categories)
        BY <1>1, <2>4, <3>2, YmlWay DEF Tree
      <3> QED
        BY <3>1, <3>2
    <2>10. Len(Doc.offers) \in job.min..job.max
      BY <2>1, <2>2
    <2> QED
      BY <2>1, <2>5, <2>7, <2>8, <2>9, <2>10, Zenon DEF Unacceptable
  <1>2. FeedInv => VerdictIsDeserved
    <2> SUFFICES ASSUME FeedInv, phase \in Ended PROVE phase = "refused" <=> Unacceptable
      BY DEF VerdictIsDeserved
    <2>1. phase = "refused" => Unacceptable
      BY DEF FeedInv, VerdictInv
    <2>2. phase = "accepted" => ~Unacceptable
      BY <1>1
    <2> QED
      BY <2>1, <2>2 DEF Ended
  <1> QED
    BY <1>2, FeedInvariant, PTL

\* A climb has passed no more categories than there are.
LEMMA ClimbIsShort ==
    ASSUME FeedInv
    PROVE  /\ phase \in {"climb", "ascend"} =>
                passed \in Seq(DOMAIN parents) /\ Len(passed) <= Len(Doc.categories)
           /\ Climbed \in Nat /\ Climbed <= 1 + Len(Doc.categories)
  <1>1. job \in Jobs
    BY DEF FeedInv, FeedType
  <1>2. Len(Doc.categories) \in Nat
    BY <1>1, JobType
  <1>3. ASSUME phase \in {"climb", "ascend"}
        PROVE  passed \in Seq(DOMAIN parents) /\ Len(passed) <= Len(Doc.categories) /\ Len(passed) \in Nat
    <2>1. Tree
      BY <1>3, AllRead DEF FeedInv
    <2>2. passed \in Seq(DOMAIN parents) /\ Distinct(passed)
      BY <1>3 DEF FeedInv, ClimbInv
    <2>3. DOMAIN passed = 1..Len(passed) /\ Len(passed) \in Nat
      BY <2>2, LenProperties
    <2>4. passed \in Lines
      BY <1>1, <2>1, <2>2, <2>3, DistinctLine DEF Distinct, Tree
    <2>5. PICK n \in 0..Len(Doc.categories) : passed \in [1..n -> Ids(Doc.categories)]
      BY <2>4 DEF Lines
    <2>6. Len(passed) = n
      BY <1>2, <2>5, SeqDef
    <2>7. Len(passed) <= Len(Doc.categories)
      BY <1>2, <2>6
    <2> QED
      BY <2>2, <2>3, <2>7
  <1> QED
    BY <1>2, <1>3 DEF Climbed

\* The stages of a parse.
LEMMA Stages ==
    /\ StageOf("adapter") = 0 /\ StageOf("categories") = 1
    /\ StageOf("validate") = 2 /\ StageOf("ascend") = 2
    /\ StageOf("offers") = 3 /\ StageOf("climb") = 3
    /\ StageOf("accepted") = 4 /\ StageOf("refused") = 4
  BY DEF StageOf, Ended

\* Whatever the documents, a step takes a parse further, and there are bounds to
\* how far it can come: no climb of the parsers runs in a circle.
THEOREM ParseAlwaysAdvances == Spec => ParseAdvances
  <1> DEFINE Further ==
               \/ Stage' > Stage
               \/ Stage' = Stage /\ next' > next
               \/ Stage' = Stage /\ next' = next /\ Climbed' > Climbed
             Within ==
               /\ next <= 1 + Len(IF Stage = 3 THEN Doc.offers ELSE Doc.categories)
               /\ Climbed <= 1 + Len(Doc.categories)
  <1>1. ASSUME FeedInv, phase \notin Ended PROVE Within
    <2>1. job \in Jobs /\ next \in Nat
      BY <1>1 DEF FeedInv, FeedType
    <2>2. Len(Doc.categories) \in Nat /\ Len(Doc.offers) \in Nat
      BY <2>1, JobType
    <2>3. Climbed <= 1 + Len(Doc.categories)
      BY <1>1, ClimbIsShort
    <2>4. /\ phase \in {"adapter", "categories", "validate", "ascend", "offers", "climb"}
          /\ phase = "adapter" => next = 1
          /\ phase \in {"categories", "validate"} => next <= Len(Doc.categories) + 1
          /\ phase = "ascend" => next <= Len(Doc.categories)
          /\ phase = "offers" => next <= Len(Doc.offers) + 1
          /\ phase = "climb" => next <= Len(Doc.offers)
      BY <1>1 DEF FeedInv, FeedType
    <2>5. CASE phase \in {"offers", "climb"}
      <3>1. next <= 1 + Len(Doc.offers)
        BY <2>1, <2>2, <2>4, <2>5
      <3>2. Stage = 3
        BY <2>5, Stages DEF Stage
      <3> QED
        BY <2>3, <3>1, <3>2
    <2>6. CASE phase \notin {"offers", "climb"}
      <3>1. next <= 1 + Len(Doc.categories)
        BY <2>1, <2>2, <2>4, <2>6
      <3>2. Stage # 3
        BY <2>4, <2>6, Stages DEF Stage
      <3> QED
        BY <2>3, <3>1, <3>2
    <2> QED
      BY <2>5, <2>6
  <1>2. ASSUME FeedInv, Step PROVE Further /\ phase \notin Ended
    <2>1. /\ phase \in {"adapter", "categories", "validate", "ascend", "offers", "climb"} \cup Ended
          /\ next \in Nat
      BY <1>2 DEF FeedInv, FeedType
    <2>2. phase \notin Ended
      BY <1>2 DEF Ended, Step, CreateAdapter, ReadCategory, LastCategory, ValidateCategory,
                  ClimbToValidate, Validated, StartOffer, Climb, AppendItem, Return
    <2>3. ASSUME phase' \in Ended PROVE Further
      <3>1. Stage' = 4
        BY <2>3, Stages DEF Stage, Ended
      <3>2. Stage \in 0..3
        BY <2>1, <2>2, Stages DEF Stage
      <3> QED
        BY <3>1, <3>2
    <2>4. ASSUME phase' \notin Ended PROVE Further
      <3>1. ~Refuse
        BY <2>4 DEF Refuse, Ended
      <3>2. CASE CreateAdapter
        <4>1. phase = "adapter" /\ phase' = "categories"
          BY <3>1, <3>2 DEF CreateAdapter
        <4> QED
          BY <4>1, Stages DEF Stage
      <3>3. CASE ReadCategory
        <4>1. phase' = phase /\ next' = next + 1
          BY <3>1, <3>3 DEF ReadCategory
        <4> QED
          BY <2>1, <4>1 DEF Stage
      <3>4. CASE LastCategory
        <4>1. /\ phase \in {"categories", "validate"} /\ phase' \in {"validate", "offers"}
              /\ phase = "validate" => phase' = "offers"
          BY <3>4 DEF LastCategory
        <4> QED
          BY <4>1, Stages DEF Stage
      <3>5. CASE ValidateCategory
        <4>1. /\ phase = "validate" /\ phase' = "ascend" /\ UNCHANGED <<next, passed>>
              /\ passed = <<>>
          BY <1>2, <3>1, <3>5 DEF ValidateCategory, FeedInv, FeedType
        <4>2. Climbed = 0 /\ Climbed' = 1 + Len(<<>>)
          BY <4>1 DEF Climbed
        <4> QED
          BY <4>1, <4>2, Stages DEF Stage
      <3>6. CASE ClimbToValidate
        <4>1. /\ passed \in Seq(DOMAIN parents) /\ current \in DOMAIN parents
          BY <1>2, <3>6, Validating DEF ClimbToValidate
        <4>2. passed' = <<current>> \o passed
          BY <3>1, <3>6 DEF ClimbToValidate
        <4>3. Len(passed') = Len(passed) + 1 /\ Len(passed) \in Nat
          BY <4>1, <4>2, Prepended
        <4>4. /\ Stage' = Stage /\ next' = next
              /\ Climbed = 1 + Len(passed) /\ Climbed' = 1 + Len(passed')
          BY <3>1, <3>6 DEF ClimbToValidate, Stage, Climbed
        <4> QED
          BY <4>3, <4>4
      <3>7. CASE Validated
        <4>1. phase = "ascend" /\ phase' = "validate" /\ next' = next + 1
          BY <3>7 DEF Validated
        <4> QED
          BY <2>1, <4>1, Stages DEF Stage
      <3>8. CASE StartOffer
        <4>1. phase = "offers" /\ phase' = "climb" /\ next' = next /\ passed' = <<>>
          BY <3>1, <3>8 DEF StartOffer
        <4>2. Climbed = 0 /\ Climbed' = 1 + Len(<<>>)
          BY <4>1 DEF Climbed
        <4> QED
          BY <4>1, <4>2, Stages DEF Stage
      <3>9. CASE Climb
        <4>1. phase = "climb" /\ current # Blank /\ passed \in Seq(DOMAIN parents)
          BY <1>2, <3>9, Climbing DEF Climb
        <4>2. ~Stray
          BY <1>2, <3>1, <3>9, <4>1, YmlStaysOn DEF Climb
        <4>3. passed' = <<current>> \o passed /\ current \in DOMAIN parents
          BY <3>1, <3>9, <4>2 DEF Climb, Stray
        <4>4. Len(passed') = Len(passed) + 1 /\ Len(passed) \in Nat
          BY <4>1, <4>3, Prepended
        <4>5. /\ Stage' = Stage /\ next' = next
              /\ Climbed = 1 + Len(passed) /\ Climbed' = 1 + Len(passed')
          BY <3>1, <3>9, <4>1 DEF Climb, Stage, Climbed
        <4> QED
          BY <4>4, <4>5
      <3>10. CASE AppendItem
        <4>1. phase = "climb" /\ phase' = "offers" /\ next' = next + 1
          BY <2>4, <3>10 DEF AppendItem, Ended
        <4> QED
          BY <2>1, <4>1, Stages DEF Stage
      <3>11. CASE Return
        BY <2>4, <3>11 DEF Return, Ended
      <3> QED
        BY <1>2, <3>2, <3>3, <3>4, <3>5, <3>6, <3>7, <3>8, <3>9, <3>10, <3>11 DEF Step
    <2> QED
      BY <2>2, <2>3, <2>4
  <1>3. FeedInv /\ [Next]_vars => [Further /\ Within]_vars
    BY <1>1, <1>2 DEF Next
  <1> QED
    BY <1>3, FeedInvariant, PTL DEF Spec, ParseAdvances
=============================================================================
