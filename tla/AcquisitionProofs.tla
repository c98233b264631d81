------------------------- MODULE AcquisitionProofs -------------------------
(***************************************************************************)
(* Proofs about Acquisition for any calls, files, editions and bounds: the *)
(* comparisons of the importer before and after the copy are enough, as    *)
(* long as every write changes the modification time.                      *)
(***************************************************************************)
EXTENDS Acquisition, SequenceTheorems, TLAPS

Opened == {"stat", "verify", "copy", "restat", "reverify"}
Wholes == offered \cup {Body(e) : e \in Editions}

\* What each call reads, and that it writes what it reads.
ReadOK(c) ==
    /\ c \in Fetches => pc[c] \notin DropPcs \ {"start", "copy"}
    /\ c \in Drops /\ pc[c] \in Opened => local[c].reading \in Files
    /\ c \in Fetches /\ pc[c] = "copy" => \E e \in Editions : local[c].reading = Body(e)
    /\ pc[c] \in {"start", "open", "stat", "verify"} => Got(c) = <<>>
    /\ pc[c] = "copy" => part[c] = Got(c)

\* As long as the file has the modification time that was seen first, what has
\* been copied is the beginning of its content, and its path has named it.
DropOK(c) ==
    LET f == local[c].reading
    IN  /\ pc[c] \in {"verify", "copy", "restat"} => local[c].seen <= stamp[f]
        /\ pc[c] \in {"copy", "restat"} /\ stamp[f] = local[c].seen =>
             disk[f] \in offered /\ IsPrefix(Got(c), disk[f])
        /\ pc[c] = "restat" /\ stamp[f] = local[c].seen => Got(c) = disk[f]
        /\ pc[c] \in {"reverify", "parse", "install"} => Got(c) \in offered

CopyOK(c) ==
    /\ c \in Drops => DropOK(c)
    /\ c \in Fetches /\ pc[c] = "copy" => IsPrefix(Got(c), local[c].reading)
    /\ pc[c] \in {"parse", "install"} => \E whole \in Wholes : IsPrefix(Got(c), whole)
    /\ pc[c] = "install" => Parses(Got(c))

\* SuccessIsOwnFeed of one call.
DoneOK(c) ==
    outcome[c] = "done" =>
        /\ pc[c] \in {"cleanup", "ended"} /\ Parses(Got(c))
        /\ shelf[Got(c)] # Absent /\ shelf[Got(c)].sha256 = Got(c)
        /\ c \in Drops => Got(c) \in offered /\ shelf[Got(c)].terms = "dropped"

PathInv  == path.file # Absent /\ ~path.link => disk[path.file] \in offered
ShelfInv ==
    /\ shelf \in [Feeds -> Snapshots \cup {Absent}]
    /\ \A n \in Feeds : shelf[n] # Absent =>
         shelf[n].sha256 = n /\ \E whole \in Wholes : IsUpToClosing(n, whole)

PartOK(c) == part[c] # Absent => pc[c] # "ended" \/ outcome[c] = "unclean"
CallOK(c) == ReadOK(c) /\ CopyOK(c) /\ DoneOK(c) /\ PartOK(c)

AcqInv == AcquisitionTypeOK /\ PathInv /\ ShelfInv /\ \A c \in Calls : CallOK(c)

\* The part of the type invariant that is about calls.
Places == DropPcs \cup {"parse", "install", "cleanup", "ended", "dead"}
CallTypes ==
    /\ pc \in [Calls -> Places]
    /\ local \in [Calls -> [reading : Contents \cup Files \cup {Absent},
                            seen : Nat, got : Contents]]
    /\ part \in [Calls -> Contents \cup {Absent}]
    /\ outcome \in [Calls -> {"none", "done", "failed", "unclean"}]

\* The step is another call's.
Kept(d) ==
    /\ pc'[d] = pc[d] /\ local'[d] = local[d]
    /\ part'[d] = part[d] /\ outcome'[d] = outcome[d]
Others(c) == \A d \in Calls \ {c} : Kept(d)

-----------------------------------------------------------------------------
\* Contents are the short sequences of editions.
LEMMA ContentsFacts ==
    /\ \A d : d \in Contents <=> d \in Seq(Editions) /\ Len(d) <= MaxBlocks + 1
    /\ <<>> \in Contents
    /\ \A e \in Editions : Body(e) \in Contents
    /\ MaxBlocks \in Nat /\ Closing \in 1..MaxBlocks
  <1>1. MaxBlocks \in Nat /\ Closing \in 1..MaxBlocks
    BY AcquisitionAssumption
  <1>2. ASSUME NEW d, d \in Contents PROVE d \in Seq(Editions) /\ Len(d) <= MaxBlocks + 1
    <2>1. PICK k \in 0..MaxBlocks + 1 : d \in [1..k -> Editions]
      BY <1>2 DEF Contents
    <2>2. k \in Nat /\ d \in Seq(Editions)
      BY <1>1, <2>1, SeqDef
    <2>3. Len(d) = k
      BY <2>1, <2>2, LenProperties
    <2> QED
      BY <1>1, <2>2, <2>3
  <1>3. ASSUME NEW d \in Seq(Editions), Len(d) <= MaxBlocks + 1 PROVE d \in Contents
    BY <1>1, <1>3, LenProperties DEF Contents
  <1>4. <<>> \in Contents
    <2>1. <<>> \in Seq(Editions) /\ Len(<<>>) = 0
      BY EmptySeq
    <2>2. 0 <= MaxBlocks + 1
      BY <1>1
    <2> QED
      BY <1>3, <2>1, <2>2, Zenon
  <1>5. ASSUME NEW e \in Editions PROVE Body(e) \in Contents
    <2>1. LengthOf[e] \in 1..MaxBlocks + 1
      BY AcquisitionAssumption
    <2> QED
      BY <1>1, <2>1 DEF Contents, Body
  <1> QED
    BY <1>1, <1>2, <1>3, <1>4, <1>5

\* Prefixes by their elements.
LEMMA PrefixFacts ==
    ASSUME NEW S, NEW s \in Seq(S), NEW t \in Seq(S)
    PROVE  IsPrefix(s, t) <=> Len(s) <= Len(t) /\ \A i \in 1..Len(s) : s[i] = t[i]
  <1>1. Len(s) \in Nat /\ Len(t) \in Nat
    BY LenProperties
  <1>2. ASSUME Len(s) <= Len(t)
        PROVE  /\ SubSeq(s, 1, Len(s)) \in Seq(S) /\ SubSeq(t, 1, Len(s)) \in Seq(S)
               /\ Len(SubSeq(s, 1, Len(s))) = Len(s) /\ Len(SubSeq(t, 1, Len(s))) = Len(s)
               /\ \A i \in 1..Len(s) : /\ SubSeq(s, 1, Len(s))[i] = s[i]
                                       /\ SubSeq(t, 1, Len(s))[i] = t[i]
    <2>1. \A i \in 1..Len(s) : s[i] \in S /\ t[i] \in S
      BY <1>1, <1>2, ElementOfSeq
    <2> QED
      BY <1>1, <1>2, <2>1, SubSeqProperties
  <1>3. ASSUME Len(s) <= Len(t), \A i \in 1..Len(s) : s[i] = t[i]
        PROVE  SubSeq(s, 1, Len(s)) = SubSeq(t, 1, Len(s))
    BY <1>1, <1>2, <1>3, SeqEqual
  <1> QED
    BY <1>2, <1>3 DEF IsPrefix

\* Copying one more block, and all of them.
LEMMA PrefixGrows ==
    ASSUME NEW S, NEW s \in Seq(S), NEW t \in Seq(S), IsPrefix(s, t)
    PROVE  /\ Len(s) + 1 <= Len(t) =>
                LET longer == Append(s, t[Len(s) + 1])
                IN  longer \in Seq(S) /\ Len(longer) = Len(s) + 1 /\ IsPrefix(longer, t)
           /\ Len(s) >= Len(t) => s = t
  <1>1. /\ Len(s) \in Nat /\ Len(t) \in Nat /\ Len(s) <= Len(t)
        /\ \A i \in 1..Len(s) : s[i] = t[i]
    BY PrefixFacts, LenProperties
  <1>2. ASSUME Len(s) >= Len(t) PROVE s = t
    <2>1. Len(s) = Len(t)
      BY <1>1, <1>2
    <2> QED
      BY <1>1, <2>1, SeqEqual
  <1>3. ASSUME Len(s) + 1 <= Len(t)
        PROVE  LET longer == Append(s, t[Len(s) + 1])
               IN  longer \in Seq(S) /\ Len(longer) = Len(s) + 1 /\ IsPrefix(longer, t)
    <2> DEFINE longer == Append(s, t[Len(s) + 1])
    <2>1. t[Len(s) + 1] \in S
      BY <1>1, <1>3, ElementOfSeq
    <2>2. /\ longer \in Seq(S) /\ Len(longer) = Len(s) + 1
          /\ \A i \in 1..Len(s) : longer[i] = s[i]
          /\ longer[Len(s) + 1] = t[Len(s) + 1]
      BY <2>1, AppendProperties
    <2>3. \A i \in 1..Len(longer) : longer[i] = t[i]
      BY <1>1, <2>2
    <2> HIDE DEF longer
    <2>4. IsPrefix(longer, t)
      BY <1>1, <1>3, <2>2, <2>3, PrefixFacts
    <2> QED
      BY <2>2, <2>4 DEF longer
  <1> QED
    BY <1>2, <1>3

LEMMA PrefixOfItself ==
    ASSUME NEW S, NEW s \in Seq(S)
    PROVE  IsPrefix(s, s) /\ IsPrefix(<<>>, s)
  <1>1. <<>> \in Seq(S) /\ Len(<<>>) = 0 /\ Len(s) \in Nat
    BY EmptySeq, LenProperties
  <1>2. IsPrefix(s, s)
    BY <1>1, PrefixFacts
  <1>3. 0 <= Len(s) /\ \A i \in 1..0 : <<>>[i] = s[i]
    BY <1>1
  <1>4. IsPrefix(<<>>, s)
    BY <1>1, <1>3, PrefixFacts, Zenon
  <1> QED
    BY <1>2, <1>4

-----------------------------------------------------------------------------
LEMMA AcqInitInv == Init => AcqInv
  <1> SUFFICES ASSUME Init PROVE AcqInv
    OBVIOUS
  <1>1. AcquisitionTypeOK
    <2>1. <<>> \in Contents /\ \A e \in Editions : Body(e) \in Contents
      BY ContentsFacts
    <2>2. \A f \in Files : disk[f] \in Contents /\ disk \in [Files -> Contents]
      BY <2>1 DEF Init
    <2>3. MaxEdits \in Nat /\ MaxTampers \in Nat /\ MaxCrashes \in Nat
      BY AcquisitionAssumption
    <2>4. disk \in [Files -> Contents]
      BY <2>1 DEF Init
    <2>5. path \in Paths /\ offered \subseteq Contents
      BY <2>4 DEF Init, Paths
    <2> QED
      BY <2>1, <2>3, <2>4, <2>5 DEF Init, AcquisitionTypeOK, Locals, DropPcs
  <1>2. PathInv
    BY DEF Init, PathInv
  <1>3. ShelfInv
    BY DEF Init, ShelfInv, Shelf!Init
  <1>4. ASSUME NEW c \in Calls PROVE CallOK(c)
    BY DEF Init, CallOK, ReadOK, CopyOK, DropOK, DoneOK, PartOK, Locals, Got, Opened, DropPcs
  <1> QED
    BY <1>1, <1>2, <1>3, <1>4 DEF AcqInv

\* What the others know stays true while the shelf and what was offered grow.
LEMMA OthersStep ==
    ASSUME NEW d \in Calls, CallOK(d), ShelfInv, AcquisitionTypeOK, Kept(d),
           UNCHANGED <<disk, stamp>>, offered \subseteq offered',
           \A n \in Feeds : shelf[n] # Absent => shelf'[n] = shelf[n]
    PROVE  CallOK(d)'
  <1>1. Got(d)' = Got(d) /\ Got(d) \in Contents /\ Wholes \subseteq Wholes'
    BY DEF Kept, Got, AcquisitionTypeOK, Wholes, Body
  <1>2. ReadOK(d)'
    BY <1>1 DEF CallOK, ReadOK, Kept, Body
  <1>3. CopyOK(d)'
    <2>1. d \in Drops => DropOK(d)'
      BY <1>1 DEF CallOK, CopyOK, DropOK, Kept
    <2>2. \A whole : whole \in Wholes => whole \in Wholes'
      BY <1>1
    <2> QED
      BY <1>1, <2>1, <2>2 DEF CallOK, CopyOK, Kept, Parses
  <1>4. DoneOK(d)'
    BY <1>1 DEF CallOK, DoneOK, Kept, Parses, Feeds
  <1>5. PartOK(d)'
    BY DEF CallOK, PartOK, Kept
  <1> QED
    BY <1>2, <1>3, <1>4, <1>5 DEF CallOK

\* A step that touches nothing but the variables of its call, and the bounds.
LEMMA QuietStep ==
    ASSUME AcqInv, NEW c \in Calls, UNCHANGED <<driveVars, storeVars>>,
           tampers' \in 0..MaxTampers, crashes' \in 0..MaxCrashes,
           CallTypes', Others(c), CallOK(c)'
    PROVE  AcqInv'
  <1> USE DEF driveVars, storeVars
  <1>1. AcquisitionTypeOK'
    BY DEF AcqInv, AcquisitionTypeOK, CallTypes, Places
  <1>2. PathInv'
    BY DEF AcqInv, PathInv
  <1>3. ShelfInv'
    BY DEF AcqInv, ShelfInv, Wholes, Body, Feeds, Parses, IsUpToClosing
  <1>4. ASSUME NEW d \in Calls \ {c} PROVE CallOK(d)'
    BY <1>4, OthersStep DEF AcqInv, Others
  <1> QED
    BY <1>1, <1>2, <1>3, <1>4 DEF AcqInv

LEMMA AloneStep ==
    ASSUME AcqInv, NEW c \in Calls, Alone, CallTypes', Others(c), CallOK(c)'
    PROVE  AcqInv'
  BY QuietStep DEF Alone, AcqInv, AcquisitionTypeOK

LEMMA RefuseStep ==
    ASSUME AcqInv, NEW c \in Calls, Refuse(c)
    PROVE  AcqInv'
  <1> USE DEF Refuse, Finish, Forget, Goto
  <1>1. <<>> \in Contents
    BY ContentsFacts
  <1>2. CallTypes'
    BY <1>1 DEF AcqInv, AcquisitionTypeOK, CallTypes, Places, Locals
  <1>3. Others(c)
    BY DEF AcqInv, AcquisitionTypeOK, Others, Kept
  <1>4. pc'[c] = "cleanup" /\ outcome'[c] = "failed"
    BY DEF AcqInv, AcquisitionTypeOK
  <1>5. CallOK(c)'
    BY <1>4 DEF CallOK, ReadOK, CopyOK, DropOK, DoneOK, PartOK, Opened, DropPcs
  <1> QED
    BY <1>2, <1>3, <1>5, AloneStep

\* The call goes on to its next statement.
LEMMA GotoStep ==
    ASSUME AcqInv, NEW c \in Calls, NEW place \in Places,
           pc[c] \notin {"cleanup", "ended", "dead"}, place # "ended",
           Goto(c, place), Alone, CallTypes', Others(c), UNCHANGED <<part, outcome>>,
           ReadOK(c)', CopyOK(c)'
    PROVE  AcqInv'
  <1>1. pc'[c] = place /\ outcome'[c] = outcome[c]
    BY DEF Goto, AcqInv, AcquisitionTypeOK
  <1>2. DoneOK(c)' /\ PartOK(c)'
    BY <1>1 DEF AcqInv, CallOK, DoneOK, PartOK
  <1> QED
    BY <1>2, AloneStep DEF CallOK

LEMMA OpeningSteps ==
    ASSUME AcqInv, NEW c \in Calls, Look(c) \/ Open(c) \/ Stat(c) \/ Verify(c)
    PROVE  AcqInv'
  <1> USE DEF AcqInv, AcquisitionTypeOK, Goto
  <1>1. CASE Refuse(c)
    BY <1>1, RefuseStep
  <1>2. ASSUME Look(c), ~Refuse(c) PROVE AcqInv'
    <2>1. pc[c] = "start" /\ Goto(c, "open") /\ Alone /\ UNCHANGED <<local, part, outcome>>
      BY <1>2 DEF Look, Unless
    <2>2. CallTypes' /\ Others(c)
      BY <2>1 DEF CallTypes, Others, Kept, Places, DropPcs
    <2>3. ReadOK(c)' /\ CopyOK(c)'
      BY <1>2, <2>1, AcquisitionAssumption
         DEF Look, CallOK, ReadOK, CopyOK, DropOK, Got, Opened, DropPcs
    <2> QED
      BY <2>1, <2>2, <2>3, GotoStep DEF Places, DropPcs
  <1>3. ASSUME Open(c) PROVE AcqInv'
    <2>1. /\ pc[c] = "open" /\ Goto(c, "stat") /\ Alone /\ UNCHANGED <<part, outcome>>
          /\ local' = [local EXCEPT ![c].reading = path.file] /\ path.file \in Files
      BY <1>3 DEF Open, Paths
    <2>2. CallTypes' /\ Others(c)
      BY <2>1 DEF CallTypes, Others, Kept, Places, DropPcs
    <2>3. /\ c \in Drops /\ c \notin Fetches /\ Got(c) = <<>>
          /\ pc'[c] = "stat" /\ local'[c].reading \in Files /\ local'[c].got = <<>>
      <3>1. c \in Drops /\ c \notin Fetches /\ Got(c) = <<>>
        BY <2>1, AcquisitionAssumption DEF Calls, CallOK, ReadOK, DropPcs
      <3> QED
        BY <2>1, <3>1 DEF Got
    <2>4. ReadOK(c)' /\ CopyOK(c)'
      BY <2>3 DEF ReadOK, CopyOK, DropOK, Got, DropPcs
    <2> QED
      BY <2>1, <2>2, <2>4, GotoStep DEF Places, DropPcs
  <1>4. ASSUME Stat(c) PROVE AcqInv'
    <2>1. /\ pc[c] = "stat" /\ Goto(c, "verify") /\ Alone /\ UNCHANGED <<part, outcome>>
          /\ local' = [local EXCEPT ![c].seen = stamp[local[c].reading]]
      BY <1>4 DEF Stat
    <2>2. c \in Drops /\ local[c].reading \in Files /\ stamp[local[c].reading] \in Nat
      BY <2>1 DEF CallOK, ReadOK, Opened, DropPcs, Calls
    <2>3. CallTypes' /\ Others(c)
      BY <2>1, <2>2 DEF CallTypes, Others, Kept, Places, DropPcs
    <2>4. ReadOK(c)' /\ CopyOK(c)'
      BY <2>1, <2>2, AcquisitionAssumption
         DEF CallOK, ReadOK, CopyOK, DropOK, Got, Opened, DropPcs, Alone, driveVars
    <2> QED
      BY <2>1, <2>3, <2>4, GotoStep DEF Places, DropPcs
  <1>5. ASSUME Verify(c), ~Refuse(c) PROVE AcqInv'
    <2> DEFINE f == local[c].reading
    <2>1. /\ pc[c] = "verify" /\ Goto(c, "copy") /\ Alone /\ UNCHANGED <<local, outcome>>
          /\ part' = [part EXCEPT ![c] = <<>>]
          /\ path = [file |-> f, link |-> FALSE]
      BY <1>5 DEF Verify, Create, NamesOpenFile
    <2>2. c \in Drops /\ f \in Files /\ Got(c) = <<>> /\ f # Absent
      BY <2>1, AcquisitionAssumption DEF CallOK, ReadOK, Opened, DropPcs, Calls
    <2>3. disk[f] \in offered /\ disk[f] \in Seq(Editions)
      BY <2>1, <2>2, ContentsFacts DEF PathInv
    <2>4. IsPrefix(Got(c), disk[f])
      BY <2>2, <2>3, PrefixOfItself
    <2>5. CallTypes' /\ Others(c)
      BY <2>1, ContentsFacts DEF CallTypes, Others, Kept, Places, DropPcs
    <2>6. ReadOK(c)' /\ CopyOK(c)'
      BY <2>1, <2>2, <2>3, <2>4, AcquisitionAssumption
         DEF CallOK, ReadOK, CopyOK, DropOK, Got, Opened, DropPcs, Alone, driveVars
    <2>7. DoneOK(c)' /\ PartOK(c)'
      BY <2>1 DEF CallOK, DoneOK, PartOK
    <2> QED
      BY <2>1, <2>5, <2>6, <2>7, AloneStep DEF CallOK
  <1> QED
    BY <1>1, <1>2, <1>3, <1>4, <1>5

LEMMA ConnectStep ==
    ASSUME AcqInv, NEW c \in Calls, Connect(c)
    PROVE  AcqInv'
  <1> USE DEF AcqInv, AcquisitionTypeOK, Goto
  <1>1. PICK e \in Editions : local' = [local EXCEPT ![c].reading = Body(e)]
    BY DEF Connect
  <1>2. /\ pc[c] = "start" /\ Goto(c, "copy") /\ Alone /\ UNCHANGED outcome
        /\ part' = [part EXCEPT ![c] = <<>>] /\ c \in Fetches /\ c \notin Drops
    BY AcquisitionAssumption DEF Connect, Create
  <1>3. Body(e) \in Contents /\ <<>> \in Contents /\ Got(c) = <<>>
    BY <1>2, ContentsFacts DEF CallOK, ReadOK
  <1>4. CallTypes' /\ Others(c)
    BY <1>1, <1>2, <1>3 DEF CallTypes, Others, Kept, Places, DropPcs
  <1>5. /\ local'[c].reading = Body(e) /\ local'[c].got = <<>>
        /\ pc'[c] = "copy" /\ part'[c] = <<>> /\ outcome'[c] = outcome[c]
    BY <1>1, <1>2, <1>3 DEF Got
  <1>6. IsPrefix(<<>>, Body(e))
    BY <1>3, ContentsFacts, PrefixOfItself
  <1>7. ReadOK(c)'
    BY <1>2, <1>5 DEF ReadOK, Got, DropPcs, Opened, Body
  <1>8. CopyOK(c)'
    BY <1>2, <1>5, <1>6 DEF CopyOK, Got
  <1>9. DoneOK(c)' /\ PartOK(c)'
    BY <1>2, <1>5 DEF CallOK, DoneOK, PartOK
  <1> QED
    BY <1>2, <1>4, <1>7, <1>8, <1>9, AloneStep DEF CallOK

\* The content that a call is copying.
LEMMA StreamFacts ==
    ASSUME AcqInv, NEW c \in Calls, pc[c] = "copy"
    PROVE  /\ Got(c) \in Seq(Editions) /\ Got(c) \in Contents /\ part[c] = Got(c)
           /\ Stream(c) \in Seq(Editions) /\ Stream(c) \in Contents
           /\ Len(Got(c)) \in Nat /\ Len(Stream(c)) \in Nat
           /\ c \in Fetches => IsPrefix(Got(c), Stream(c))
           /\ c \in Drops /\ stamp[local[c].reading] = local[c].seen =>
                IsPrefix(Got(c), Stream(c))
  <1>1. Got(c) \in Contents /\ part[c] = Got(c)
    BY DEF AcqInv, AcquisitionTypeOK, CallOK, ReadOK, Got
  <1>2. CASE c \in Drops
    <2>1. local[c].reading \in Files /\ Stream(c) = disk[local[c].reading]
      BY <1>2 DEF AcqInv, CallOK, ReadOK, Opened, Stream
    <2>2. stamp[local[c].reading] = local[c].seen => IsPrefix(Got(c), Stream(c))
      BY <1>2, <2>1 DEF AcqInv, CallOK, CopyOK, DropOK
    <2>3. Stream(c) \in Contents
      BY <2>1 DEF AcqInv, AcquisitionTypeOK
    <2> QED
      BY <1>1, <1>2, <2>2, <2>3, ContentsFacts, LenProperties, AcquisitionAssumption
  <1>3. CASE c \in Fetches
    <2>1. Stream(c) = local[c].reading /\ c \notin Drops
      BY <1>3, AcquisitionAssumption DEF Stream
    <2>2. Stream(c) \in Contents
      BY <1>3, <2>1, ContentsFacts DEF AcqInv, CallOK, ReadOK
    <2>3. IsPrefix(Got(c), Stream(c))
      BY <1>3, <2>1 DEF AcqInv, CallOK, CopyOK
    <2> QED
      BY <1>1, <2>1, <2>2, <2>3, ContentsFacts, LenProperties
  <1> QED
    BY <1>2, <1>3 DEF Calls

LEMMA CopyStep ==
    ASSUME AcqInv, NEW c \in Calls, Copy(c)
    PROVE  AcqInv'
  <1> DEFINE next == Len(Got(c)) + 1
             longer == Append(Got(c), Stream(c)[next])
             f == local[c].reading
  <1>1. CASE Refuse(c)
    BY <1>1, RefuseStep
  <1>2. ASSUME ~Refuse(c) PROVE AcqInv'
    <2>1. /\ pc[c] = "copy" /\ next <= Len(Stream(c)) /\ ~(next > MaxBlocks)
          /\ local' = [local EXCEPT ![c].got = Append(@, Stream(c)[next])]
          /\ part' = [part EXCEPT ![c] = Append(@, Stream(c)[next])]
          /\ UNCHANGED <<pc, outcome>> /\ Alone
      BY <1>2 DEF Copy
    <2>2. /\ Got(c) \in Seq(Editions) /\ part[c] = Got(c) /\ Stream(c) \in Seq(Editions)
          /\ Len(Got(c)) \in Nat
      BY <2>1, StreamFacts
    <2>3. Stream(c)[next] \in Editions
      BY <2>1, <2>2, LenProperties
    <2>4. longer \in Seq(Editions) /\ Len(longer) = next
      BY <2>2, <2>3, AppendProperties
    <2>5. local' = [local EXCEPT ![c].got = longer] /\ part' = [part EXCEPT ![c] = longer]
      BY <2>1, <2>2 DEF Got
    <2> HIDE DEF longer
    <2>6. longer \in Contents
      <3>1. Len(longer) <= MaxBlocks + 1
        BY <2>1, <2>2, <2>4, ContentsFacts
      <3> QED
        BY <2>4, <3>1, ContentsFacts
    <2>7. CallTypes' /\ Others(c)
      <3>1. UNCHANGED <<pc, outcome>> /\ CallTypes
        BY <2>1 DEF AcqInv, AcquisitionTypeOK, CallTypes, Places
      <3>2. CallTypes'
        BY <2>5, <2>6, <3>1 DEF CallTypes
      <3>3. Others(c)
        BY <2>5, <3>1 DEF CallTypes, Others, Kept
      <3> QED
        BY <3>2, <3>3
    <2>8. /\ pc'[c] = "copy" /\ local'[c].got = longer /\ part'[c] = longer
          /\ local'[c].reading = f /\ local'[c].seen = local[c].seen
          /\ outcome'[c] = outcome[c]
      BY <2>1, <2>5 DEF AcqInv, AcquisitionTypeOK
    <2>9. IsPrefix(Got(c), Stream(c)) => IsPrefix(longer, Stream(c))
      BY <2>1, <2>2, PrefixGrows DEF longer
    <2>10. ReadOK(c)'
      BY <2>1, <2>8 DEF AcqInv, CallOK, ReadOK, Got, DropPcs, Opened, Body
    <2>11. CopyOK(c)'
      <3>1. ASSUME c \in Drops PROVE DropOK(c)'
        <4>1. Stream(c) = disk[f] /\ disk' = disk /\ stamp' = stamp /\ offered' = offered
          BY <2>1, <3>1 DEF Stream, Alone, driveVars
        <4>2. /\ local[c].seen <= stamp[f]
              /\ stamp[f] = local[c].seen => disk[f] \in offered /\ IsPrefix(Got(c), disk[f])
          BY <2>1, <3>1 DEF AcqInv, CallOK, CopyOK, DropOK
        <4>3. stamp[f] = local[c].seen => disk[f] \in offered /\ IsPrefix(longer, disk[f])
          BY <2>9, <4>1, <4>2
        <4> QED
          BY <2>8, <4>1, <4>2, <4>3 DEF DropOK, Got
      <3>2. c \in Fetches => c \notin Drops
        BY AcquisitionAssumption
      <3>3. c \in Fetches => IsPrefix(Got(c), Stream(c)) /\ Stream(c) = f
        BY <2>1, <3>2, StreamFacts DEF Stream
      <3> QED
        BY <2>8, <2>9, <3>1, <3>3 DEF CopyOK, Got
    <2>12. DoneOK(c)' /\ PartOK(c)'
      BY <2>1, <2>8 DEF AcqInv, CallOK, DoneOK, PartOK
    <2> QED
      BY <2>1, <2>7, <2>10, <2>11, <2>12, AloneStep DEF CallOK
  <1> QED
    BY <1>1, <1>2

\* The end of the copy, and the comparisons after it.
LEMMA ComparingSteps ==
    ASSUME AcqInv, NEW c \in Calls, CopyEnds(c) \/ Restat(c) \/ Reverify(c)
    PROVE  AcqInv'
  <1>1. CASE Refuse(c)
    BY <1>1, RefuseStep
  <1>2. ASSUME ~Refuse(c) PROVE AcqInv'
    <2> DEFINE f == local[c].reading
               place == IF pc[c] = "copy" /\ c \in Drops THEN "restat"
                        ELSE IF pc[c] = "restat" THEN "reverify" ELSE "parse"
    <2>1. /\ pc[c] \in {"copy", "restat", "reverify"}
          /\ Goto(c, place) /\ Alone /\ UNCHANGED <<local, part, outcome>>
      BY <1>2 DEF CopyEnds, Restat, Reverify, Unless
    <2>2. CallTypes' /\ Others(c)
      BY <2>1 DEF AcqInv, AcquisitionTypeOK, CallTypes, Others, Kept, Places, DropPcs, Goto
    <2>3. /\ pc'[c] = place /\ UNCHANGED <<disk, stamp, offered>>
          /\ Got(c)' = Got(c) /\ f' = f /\ local'[c].seen = local[c].seen
      BY <2>1 DEF AcqInv, AcquisitionTypeOK, Goto, Alone, driveVars, Got
    <2>4. c \in Drops => c \notin Fetches
      BY AcquisitionAssumption
    <2>5. ReadOK(c)'
      BY <2>1, <2>3, <2>4 DEF AcqInv, CallOK, ReadOK, Opened, DropPcs
    <2>6. CASE pc[c] = "copy" /\ c \in Drops
      <3>1. Stream(c) = disk[f] /\ Len(Got(c)) >= Len(Stream(c))
        BY <1>2, <2>6 DEF CopyEnds, Restat, Reverify, Stream
      <3>2. stamp[f] = local[c].seen => Got(c) = disk[f]
        BY <2>6, <3>1, StreamFacts, PrefixGrows
      <3>3. CopyOK(c)'
        BY <2>3, <2>4, <2>6, <3>2 DEF AcqInv, CallOK, CopyOK, DropOK
      <3> QED
        BY <2>1, <2>2, <2>5, <3>3, GotoStep DEF Places, DropPcs
    <2>7. CASE pc[c] = "copy" /\ c \in Fetches
      <3>1. PICK e \in Editions : f = Body(e)
        BY <2>7 DEF AcqInv, CallOK, ReadOK
      <3>2. IsPrefix(Got(c), Body(e)) /\ Body(e) \in Wholes'
        BY <2>7, <3>1 DEF AcqInv, CallOK, CopyOK, Wholes, Body
      <3>3. CopyOK(c)'
        BY <2>3, <2>4, <2>7, <3>2 DEF CopyOK
      <3> QED
        BY <2>1, <2>2, <2>5, <3>3, GotoStep DEF Places, DropPcs
    <2>8. CASE pc[c] = "restat"
      <3>1. c \in Drops /\ stamp[f] = local[c].seen
        BY <1>2, <2>8 DEF CopyEnds, Restat, Reverify, Unless, AcqInv, CallOK, ReadOK, DropPcs, Calls
      <3>2. Got(c) \in offered
        BY <2>8, <3>1 DEF AcqInv, CallOK, CopyOK, DropOK
      <3>3. CopyOK(c)'
        BY <2>3, <2>4, <2>8, <3>1, <3>2 DEF CopyOK, DropOK
      <3> QED
        BY <2>1, <2>2, <2>5, <3>3, GotoStep DEF Places, DropPcs
    <2>9. CASE pc[c] = "reverify"
      <3>1. c \in Drops /\ Got(c) \in offered /\ Got(c) \in Contents
        BY <2>9 DEF AcqInv, AcquisitionTypeOK, CallOK, CopyOK, DropOK, ReadOK, DropPcs, Calls, Got
      <3>2. IsPrefix(Got(c), Got(c)) /\ Got(c) \in Wholes'
        BY <2>3, <3>1, PrefixOfItself, ContentsFacts DEF Wholes
      <3>3. CopyOK(c)'
        BY <2>3, <2>4, <2>9, <3>1, <3>2 DEF CopyOK, DropOK
      <3> QED
        BY <2>1, <2>2, <2>5, <3>3, GotoStep DEF Places, DropPcs
    <2> QED
      BY <2>1, <2>6, <2>7, <2>8, <2>9 DEF Calls
  <1> QED
    BY <1>1, <1>2

LEMMA ParseStep ==
    ASSUME AcqInv, NEW c \in Calls, Parse(c)
    PROVE  AcqInv'
  <1>1. CASE Refuse(c)
    BY <1>1, RefuseStep
  <1>2. ASSUME ~Refuse(c) PROVE AcqInv'
    <2>1. /\ pc[c] = "parse" /\ Goto(c, "install") /\ Alone /\ UNCHANGED <<part, outcome>>
          /\ local' = [local EXCEPT ![c] = Locals(Got(c))] /\ Parses(Got(c))
      BY <1>2 DEF Parse
    <2>2. Got(c) \in Contents
      BY DEF AcqInv, AcquisitionTypeOK, Got
    <2>3. CallTypes' /\ Others(c)
      BY <2>1, <2>2
         DEF AcqInv, AcquisitionTypeOK, CallTypes, Others, Kept, Places, DropPcs, Goto, Locals
    <2>4. pc'[c] = "install" /\ Got(c)' = Got(c) /\ Wholes' = Wholes /\ offered' = offered
      BY <2>1 DEF AcqInv, AcquisitionTypeOK, Goto, Got, Locals, Wholes, Body, Alone, driveVars
    <2>5. ReadOK(c)'
      BY <2>4 DEF ReadOK, Opened, DropPcs
    <2>6. \E whole \in Wholes' : IsPrefix(Got(c), whole)
      BY <2>1, <2>4 DEF AcqInv, CallOK, CopyOK
    <2>7. CopyOK(c)'
      BY <2>1, <2>4, <2>6 DEF AcqInv, CallOK, CopyOK, DropOK, Parses
    <2> QED
      BY <2>1, <2>3, <2>5, <2>7, GotoStep DEF Places, DropPcs
  <1> QED
    BY <1>1, <1>2

\* The finally clause.
LEMMA CleanupSteps ==
    ASSUME AcqInv, NEW c \in Calls, Cleanup(c) \/ CleanupFails(c)
    PROVE  AcqInv'
  <1> USE DEF Goto, Forget
  <1>1. /\ pc[c] = "cleanup" /\ pc' = [pc EXCEPT ![c] = "ended"] /\ Alone
        /\ pc'[c] = "ended"
    BY DEF AcqInv, AcquisitionTypeOK, Cleanup, CleanupFails
  <1>2. CallTypes' /\ Others(c)
    <2>1. CASE Cleanup(c)
      BY <2>1 DEF Cleanup, AcqInv, AcquisitionTypeOK, CallTypes, Others, Kept, Places
    <2>2. CASE CleanupFails(c)
      BY <2>2, ContentsFacts
         DEF CleanupFails, AcqInv, AcquisitionTypeOK, CallTypes, Others, Kept, Places, Locals
    <2> QED
      BY <2>1, <2>2
  <1>3. ReadOK(c)' /\ CopyOK(c)'
    BY <1>1 DEF ReadOK, CopyOK, DropOK, Opened, DropPcs
  <1>4. DoneOK(c)' /\ PartOK(c)'
    <2>1. CASE Cleanup(c)
      <3>1. part'[c] = Absent /\ outcome'[c] = outcome[c] /\ Got(c)' = Got(c)
        BY <2>1 DEF Cleanup, AcqInv, AcquisitionTypeOK, Got
      <3> QED
        BY <1>1, <3>1 DEF AcqInv, CallOK, DoneOK, PartOK, Alone, driveVars, storeVars, Parses
    <2>2. CASE CleanupFails(c)
      <3>1. outcome'[c] = "unclean"
        BY <2>2 DEF CleanupFails, AcqInv, AcquisitionTypeOK
      <3> QED
        BY <3>1 DEF DoneOK, PartOK
    <2> QED
      BY <2>1, <2>2
  <1> QED
    BY <1>1, <1>2, <1>3, <1>4, AloneStep DEF CallOK

-----------------------------------------------------------------------------
\* Where a snapshot is installed or found.
LEMMA InstallStep ==
    ASSUME AcqInv, NEW c \in Calls, Install(c)
    PROVE  AcqInv'
  <1> DEFINE n == Got(c)
             ask == Ask(c, n, n)
  <1>1. /\ pc[c] = "install" /\ Parses(n) /\ n \in Feeds /\ n \in Contents
        /\ Shelf!Put(c, ask) \/ Shelf!Find(c, ask)
        /\ Finish(c, IF ask.strict /\ shelf'[ask.name].terms # ask.terms
                       THEN "failed" ELSE "done")
        /\ UNCHANGED <<local, part, driveVars, tampers, crashes>>
    BY DEF Install, AcqInv, AcquisitionTypeOK, CallOK, CopyOK, Feeds, Got
  <1>2. /\ ask.name = n /\ ask.payload = n /\ ask.strict = (c \in Drops)
        /\ c \in Drops => ask.terms = "dropped"
    BY DEF Ask
  <1> HIDE DEF ask
  <1>3. shelf \in [Feeds -> Snapshots \cup {Absent}]
    BY DEF AcqInv, ShelfInv
  <1>4. /\ shelf' \in [Feeds -> Snapshots \cup {Absent}]
        /\ shelf'[n] # Absent /\ shelf'[n].sha256 = n
        /\ \A m \in Feeds \ {n} : shelf'[m] = shelf[m]
        /\ shelf[n] # Absent => shelf'[n] = shelf[n]
    <2>1. CASE Shelf!Put(c, ask)
      <3>1. PICK t \in {"fetched", "dropped"} :
              shelf' = [shelf EXCEPT ![n] = [sha256 |-> n, terms |-> t]]
        BY <1>2, <2>1 DEF Shelf!Put
      <3>2. shelf[n] = Absent
        BY <1>2, <2>1 DEF Shelf!Put
      <3>3. [sha256 |-> n, terms |-> t] \in Snapshots /\ Absent \notin Snapshots
        BY <1>1, AcquisitionAssumption DEF Snapshots
      <3> QED
        BY <1>1, <1>3, <3>1, <3>2, <3>3
    <2>2. CASE Shelf!Find(c, ask)
      BY <1>2, <1>3, <2>2 DEF Shelf!Find
    <2> QED
      BY <1>1, <2>1, <2>2
  <1>5. Wholes' = Wholes
    BY <1>1 DEF driveVars, Wholes, Body
  <1>6. ShelfInv'
    <2>1. \E whole \in Wholes : IsUpToClosing(n, whole)
      <3>1. Len(n) >= Closing
        BY <1>1, ContentsFacts, LenProperties DEF Parses
      <3> QED
        BY <1>1, <3>1 DEF AcqInv, CallOK, CopyOK, IsUpToClosing
    <2>2. Feeds' = Feeds
      BY DEF Feeds, Parses
    <2>3. ASSUME NEW m \in Feeds, shelf'[m] # Absent
          PROVE  shelf'[m].sha256 = m /\ \E whole \in Wholes' : IsUpToClosing(m, whole)
      BY <1>4, <1>5, <2>1, <2>3 DEF AcqInv, ShelfInv
    <2> QED
      BY <1>4, <2>2, <2>3 DEF ShelfInv, IsUpToClosing
  <1>7. /\ pc'[c] = "cleanup" /\ outcome'[c] \in {"done", "failed"}
        /\ outcome'[c] = "done" => ~(c \in Drops /\ shelf'[n].terms # "dropped")
    BY <1>1, <1>2 DEF Finish, Goto, AcqInv, AcquisitionTypeOK
  <1>8. AcquisitionTypeOK' /\ Others(c)
    BY <1>1 DEF AcqInv, AcquisitionTypeOK, Finish, Goto, driveVars, Others, Kept, DropPcs
  <1>9. PathInv'
    BY <1>1 DEF AcqInv, PathInv, driveVars
  <1>10. CallOK(c)'
    <2>1. ReadOK(c)' /\ CopyOK(c)' /\ PartOK(c)'
      BY <1>7 DEF ReadOK, CopyOK, DropOK, PartOK, Opened, DropPcs
    <2>2. c \in Drops => n \in offered'
      BY <1>1 DEF AcqInv, CallOK, CopyOK, DropOK, driveVars
    <2>3. n' = n
      BY <1>1 DEF Got
    <2>4. DoneOK(c)'
      BY <1>1, <1>4, <1>7, <2>2, <2>3 DEF DoneOK, Parses
    <2> QED
      BY <2>1, <2>4 DEF CallOK
  <1>11. ASSUME NEW d \in Calls \ {c} PROVE CallOK(d)'
    <2>1. \A m \in Feeds : shelf[m] # Absent => shelf'[m] = shelf[m]
      BY <1>4
    <2> QED
      BY <1>1, <1>8, <1>11, <2>1, OthersStep DEF AcqInv, Others, driveVars
  <1> QED
    BY <1>6, <1>8, <1>9, <1>10, <1>11 DEF AcqInv

\* install_snapshot raises, or the process of the call dies.
LEMMA FailingSteps ==
    ASSUME AcqInv, NEW c \in Calls, InstallFails(c) \/ Die(c)
    PROVE  AcqInv'
  <1> DEFINE place == IF Die(c) THEN "dead" ELSE "cleanup"
             r == IF Die(c) THEN "none" ELSE "failed"
  <1>1. /\ pc' = [pc EXCEPT ![c] = place] /\ outcome' = [outcome EXCEPT ![c] = r]
        /\ local' = [local EXCEPT ![c] = Locals(<<>>)] /\ UNCHANGED part
        /\ UNCHANGED driveVars /\ shelf' = shelf
    BY DEF InstallFails, Die, Goto, Forget, Finish, Shelf!Fail, storeVars
  <1>2. tampers' \in 0..MaxTampers /\ crashes' \in 0..MaxCrashes
    BY AcquisitionAssumption DEF InstallFails, Die, AcqInv, AcquisitionTypeOK
  <1>3. CallTypes' /\ Others(c)
    BY <1>1, ContentsFacts
       DEF AcqInv, AcquisitionTypeOK, CallTypes, Others, Kept, Places, Locals
  <1>4. pc'[c] \in {"dead", "cleanup"} /\ outcome'[c] \in {"none", "failed"}
    BY <1>1 DEF AcqInv, AcquisitionTypeOK
  <1>5. CallOK(c)'
    BY <1>4 DEF CallOK, ReadOK, CopyOK, DropOK, DoneOK, PartOK, Opened, DropPcs
  <1>6. AcquisitionTypeOK' /\ PathInv' /\ ShelfInv'
    BY <1>1, <1>2, <1>3
       DEF AcqInv, AcquisitionTypeOK, CallTypes, Places, PathInv, ShelfInv, Wholes, Body,
           Feeds, Parses, IsUpToClosing, driveVars
  <1>7. ASSUME NEW d \in Calls \ {c} PROVE CallOK(d)'
    BY <1>1, <1>3, <1>7, OthersStep DEF AcqInv, Others, driveVars
  <1> QED
    BY <1>5, <1>6, <1>7 DEF AcqInv

LEMMA TamperStep ==
    ASSUME AcqInv, NEW c \in Calls, Tamper(c)
    PROVE  AcqInv'
  <1>1. PICK e \in Editions : part' = [part EXCEPT ![c] = Body(e)]
    BY DEF Tamper
  <1>2. /\ pc[c] \in {"parse", "install"} /\ UNCHANGED <<pc, local, outcome, driveVars, storeVars>>
        /\ tampers' \in 0..MaxTampers /\ crashes' \in 0..MaxCrashes
    BY AcquisitionAssumption DEF Tamper, AcqInv, AcquisitionTypeOK
  <1>3. CallTypes' /\ Others(c)
    BY <1>1, <1>2, ContentsFacts
       DEF AcqInv, AcquisitionTypeOK, CallTypes, Others, Kept, Places
  <1>4. CallOK(c)'
    BY <1>2 DEF AcqInv, CallOK, ReadOK, CopyOK, DropOK, DoneOK, PartOK, Got, Wholes, Body,
                Parses, driveVars, storeVars, DropPcs, Opened
  <1> QED
    BY <1>2, <1>3, <1>4, QuietStep

-----------------------------------------------------------------------------
\* What a source file holds after it was written.
LEMMA SavedTypes ==
    ASSUME AcqInv, NEW f \in Files, Save(f)
    PROVE  disk' \in [Files -> Contents] /\ \A g \in Files \ {f} : disk'[g] = disk[g]
  <1>1. PICK data \in {<<>>} \cup {Append(disk[f], e) : e \in Editions}
                      \cup {ReplaceAt(disk[f], k, e) : k \in DOMAIN disk[f], e \in Editions} :
          disk' = [disk EXCEPT ![f] = data]
    BY DEF Save
  <1>2. disk \in [Files -> Contents] /\ disk[f] \in Seq(Editions)
    BY ContentsFacts DEF AcqInv, AcquisitionTypeOK
  <1>3. data \in Seq(Editions)
    <2>1. CASE data = <<>>
      BY <2>1, EmptySeq
    <2>2. CASE \E e \in Editions : data = Append(disk[f], e)
      BY <1>2, <2>2, AppendProperties
    <2>3. ASSUME NEW k \in DOMAIN disk[f], NEW e \in Editions, data = ReplaceAt(disk[f], k, e)
          PROVE  data \in Seq(Editions)
      <3>1. k \in 1..Len(disk[f])
        BY <1>2, LenProperties
      <3>2. [disk[f] EXCEPT ![k] = e] \in Seq(Editions)
        BY <1>2, <3>1, ExceptSeq
      <3> QED
        BY <2>3, <3>2 DEF ReplaceAt
    <2> QED
      BY <1>1, <2>1, <2>2, <2>3
  <1>4. Len(data) <= MaxBlocks + 1
    BY <1>1, <1>2 DEF Save
  <1>5. data \in Contents
    BY <1>3, <1>4, ContentsFacts
  <1> QED
    BY <1>1, <1>2, <1>5

\* The supplier writes a file or changes the path: a file that a call had begun to
\* copy gets another modification time, and what the path names is on offer.
LEMMA EditStep ==
    ASSUME AcqInv, Edit
    PROVE  AcqInv'
  <1>1. /\ UNCHANGED <<callVars, storeVars, tampers, crashes>> /\ edits' \in 0..MaxEdits
        /\ Replace \/ \E f \in Files : Save(f)
        /\ offered' = IF path'.file = Absent \/ path'.link THEN offered
                                                      ELSE offered \cup {disk'[path'.file]}
    BY AcquisitionAssumption DEF Edit, AcqInv, AcquisitionTypeOK
  <1>2. /\ disk' \in [Files -> Contents] /\ stamp' \in [Files -> Nat] /\ path' \in Paths
        /\ \A f \in Files : \/ stamp'[f] = stamp[f] + 1
                            \/ stamp'[f] = stamp[f] /\ disk'[f] = disk[f]
    <2>1. CASE Replace
      BY <2>1 DEF Replace, AcqInv, AcquisitionTypeOK
    <2>2. ASSUME NEW f \in Files, Save(f)
          PROVE  /\ disk' \in [Files -> Contents] /\ stamp' \in [Files -> Nat] /\ path' \in Paths
                 /\ \A g \in Files : \/ stamp'[g] = stamp[g] + 1
                                     \/ stamp'[g] = stamp[g] /\ disk'[g] = disk[g]
      <3>1. stamp' = [stamp EXCEPT ![f] = @ + 1] /\ path' = path
        BY <2>2 DEF Save
      <3>2. disk' \in [Files -> Contents] /\ \A g \in Files \ {f} : disk'[g] = disk[g]
        BY <2>2, SavedTypes
      <3>3. stamp \in [Files -> Nat] /\ path \in Paths
        BY DEF AcqInv, AcquisitionTypeOK
      <3>4. /\ stamp' \in [Files -> Nat] /\ stamp'[f] = stamp[f] + 1
            /\ \A g \in Files \ {f} : stamp'[g] = stamp[g]
        BY <3>1, <3>3
      <3> QED
        BY <3>1, <3>2, <3>3, <3>4, Zenon
    <2> QED
      BY <1>1, <2>1, <2>2
  <1>3. path' \in Paths /\ (path'.file # Absent => path'.file \in Files)
    BY <1>2 DEF Paths
  <1>4. offered \subseteq offered' /\ offered' \subseteq Contents /\ PathInv'
    BY <1>1, <1>2, <1>3 DEF AcqInv, AcquisitionTypeOK, PathInv
  <1>5. AcquisitionTypeOK'
    BY <1>1, <1>2, <1>4 DEF AcqInv, AcquisitionTypeOK, callVars
  <1>6. Wholes \subseteq Wholes'
    BY <1>4 DEF Wholes, Body
  <1>7. ShelfInv'
    BY <1>1, <1>6 DEF AcqInv, ShelfInv, storeVars, Feeds, Parses, IsUpToClosing
  <1>8. ASSUME NEW c \in Calls PROVE CallOK(c)'
    <2>1. UNCHANGED <<pc, local, part, outcome, shelf>> /\ Got(c)' = Got(c)
      BY <1>1 DEF callVars, storeVars, Got
    <2>2. ReadOK(c) /\ CopyOK(c) /\ DoneOK(c) /\ PartOK(c)
      BY DEF AcqInv, CallOK
    <2>3. ReadOK(c)' /\ PartOK(c)'
      BY <2>1, <2>2 DEF ReadOK, PartOK, Body
    <2>4. DoneOK(c)'
      BY <1>4, <2>1, <2>2 DEF DoneOK, Parses
    <2>5. ASSUME c \in Drops PROVE DropOK(c)'
      <3> DEFINE f == local[c].reading
      <3>1. CASE pc[c] \in {"verify", "copy", "restat"}
        <4>1. f \in Files /\ local[c].seen \in Nat /\ stamp[f] \in Nat /\ local[c].seen <= stamp[f]
          BY <2>2, <2>5, <3>1
             DEF AcqInv, AcquisitionTypeOK, ReadOK, CopyOK, DropOK, Opened
        <4>2. CASE stamp'[f] = stamp[f] + 1
          BY <1>4, <2>1, <3>1, <4>1, <4>2 DEF DropOK
        <4>3. CASE stamp'[f] = stamp[f] /\ disk'[f] = disk[f]
          BY <1>4, <2>1, <2>2, <2>5, <3>1, <4>1, <4>3 DEF CopyOK, DropOK
        <4> QED
          BY <1>2, <4>1, <4>2, <4>3
      <3>2. CASE pc[c] \notin {"verify", "copy", "restat"}
        BY <1>4, <2>1, <2>2, <2>5, <3>2 DEF CopyOK, DropOK
      <3> QED
        BY <3>1, <3>2
    <2>6. CopyOK(c)'
      BY <1>6, <2>1, <2>2, <2>5 DEF CopyOK, Parses
    <2> QED
      BY <2>3, <2>4, <2>6 DEF CallOK
  <1> QED
    BY <1>4, <1>5, <1>7, <1>8 DEF AcqInv

LEMMA AcqStep == AcqInv /\ [Next]_vars => AcqInv'
  <1> SUFFICES ASSUME AcqInv, [Next]_vars PROVE AcqInv'
    OBVIOUS
  <1>1. ASSUME NEW c \in Calls, Fails(c) PROVE AcqInv'
    BY <1>1, RefuseStep DEF Fails
  <1>2. CASE UNCHANGED vars
    <2>1. UNCHANGED <<pc, local, part, outcome, disk, stamp, path, shelf, offered,
                      edits, tampers, crashes>>
      BY <1>2 DEF vars, callVars, driveVars, storeVars
    <2>2. AcquisitionTypeOK' /\ PathInv' /\ ShelfInv'
      BY <2>1 DEF AcqInv, AcquisitionTypeOK, PathInv, ShelfInv, Wholes, Body, Feeds, Parses,
                  IsUpToClosing
    <2>3. ASSUME NEW d \in Calls PROVE CallOK(d)'
      BY <2>1, OthersStep DEF AcqInv, Kept
    <2> QED
      BY <2>2, <2>3 DEF AcqInv
  <1> QED
    BY <1>1, <1>2, OpeningSteps, ConnectStep, CopyStep, ComparingSteps, ParseStep, InstallStep,
       FailingSteps, CleanupSteps, TamperStep, EditStep DEF Next

\* The invariant of both programs.
THEOREM AcquisitionInvariant == Spec => []AcqInv
  BY AcqInitInv, AcqStep, PTL DEF Spec

\* The variables keep their types: calls in fetch_electrozone_current.py and
\* import_manual_drop.py, the files they read and write.
THEOREM AcquisitionTypes == Spec => []AcquisitionTypeOK
  <1>1. AcqInv => AcquisitionTypeOK
    BY DEF AcqInv
  <1> QED
    BY <1>1, AcquisitionInvariant, PTL

\* Every snapshot is one feed up to the end of its root element, however downloads
\* break off and source files change while they are copied.
THEOREM AcquisitionShelf == Spec => []ShelfHoldsWholeFeeds
  <1>1. AcqInv => ShelfHoldsWholeFeeds
    BY DEF AcqInv, ShelfInv, ShelfHoldsWholeFeeds, Wholes
  <1> QED
    BY <1>1, AcquisitionInvariant, PTL

\* Who exits with 0 has installed what it copied, and an importer has installed, as a
\* drop, the whole of a file that its path named.
THEOREM AcquisitionSuccess == Spec => []SuccessIsOwnFeed
  <1>1. AcqInv => SuccessIsOwnFeed
    BY DEF AcqInv, CallOK, DoneOK, SuccessIsOwnFeed
  <1> QED
    BY <1>1, AcquisitionInvariant, PTL

\* A temporary file outlives its call only after a death or a reported failure.
THEOREM AcquisitionParts == Spec => []PartsHaveCause
  <1>1. AcqInv => PartsHaveCause
    BY DEF AcqInv, CallOK, PartOK, PartsHaveCause
  <1> QED
    BY <1>1, AcquisitionInvariant, PTL
=============================================================================
