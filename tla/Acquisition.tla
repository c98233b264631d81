---------------------------- MODULE Acquisition ----------------------------
(***************************************************************************)
(* How feeds get into the raw directory: the connector                     *)
(* (fetch_electrozone_current.py) downloads them, the importer             *)
(* (import_manual_drop.py) copies files dropped by hand, while somebody    *)
(* may still be writing or replacing them.  Both write a private temporary *)
(* file, validate it and hand it to install_snapshot, which is here what   *)
(* SnapshotShelf promises and SnapshotStore implements.                    *)
(*                                                                         *)
(* A content is a sequence of blocks of one read() each, told apart by the *)
(* edition they belong to.  Block Closing closes the root element; what    *)
(* follows is an epilogue, which the XML parser accepts.  The server sends *)
(* whole editions; a download may break off with or without an error.      *)
(* Every write changes the modification time of a file.                    *)
(***************************************************************************)
EXTENDS Integers, SequencesExt

CONSTANTS
    Fetches, Drops, \* calls of the two programs
    Editions,       \* editions of the feed
    LengthOf,       \* how many blocks each has
    Undated,        \* editions that begin without a usable catalog date
    Closing,        \* the block that closes the root element
    MaxBlocks,      \* the byte limit, in blocks
    Files,          \* files that the path given to the importer may name
    Absent,         \* no file
    MaxEdits,       \* bound on writes to source files and changes of the path
    MaxTampers,     \* bound on changes of temporary files by others
    MaxCrashes      \* bound on process deaths

Calls    == Fetches \cup Drops
Contents == UNION {[1..k -> Editions] : k \in 0..MaxBlocks + 1}
Snapshots == [sha256 : Contents, terms : {"fetched", "dropped"}]

ASSUME AcquisitionAssumption ==
    /\ Fetches \cap Drops = {}
    /\ LengthOf \in [Editions -> 1..MaxBlocks + 1]
    /\ Closing \in 1..MaxBlocks /\ MaxBlocks \in Nat
    /\ Absent \notin Files \cup Contents \cup Snapshots
    /\ {MaxEdits, MaxTampers, MaxCrashes} \subseteq Nat

VARIABLES
    pc,       \* where each call is
    local,    \* its variables: what it reads (the body of the response, or the
              \* open file), the modification time seen, what it has copied
    part,     \* its temporary file
    outcome,  \* its exit status
    disk,     \* the source files
    stamp,    \* their modification times
    path,     \* what the importer's path names: a file, a link to one, nothing
    shelf,    \* installed snapshots
    report,   \* what install_snapshot told each call
    offered,  \* contents that the path has named
    edits, tampers, crashes

callVars  == <<pc, local, part, outcome>>
driveVars == <<disk, stamp, path, offered, edits>>
storeVars == <<shelf, report>>
vars == <<callVars, driveVars, storeVars, tampers, crashes>>

Body(e) == [k \in 1..LengthOf[e] |-> e]

\* parse_yml accepts the content, and it has the date that its target needs.
Parses(data) == Len(data) \in Closing..MaxBlocks /\ data[1] \notin Undated
Feeds        == {n \in Contents : Parses(n)}

\* What a call asks of install_snapshot: target, bytes, metadata and contract.
Ask(c, name, payload) ==
    [name |-> name, payload |-> payload, strict |-> c \in Drops,
     terms |-> IF c \in Drops THEN "dropped" ELSE "fetched"]

Shelf == INSTANCE SnapshotShelf WITH
    Workers <- Calls, Names <- Feeds, Terms <- {"fetched", "dropped"}, Empty <- Absent,
    AsksOf <- [c \in Calls |-> {Ask(c, n, n) : n \in Feeds}]

DropPcs == {"start", "open", "stat", "verify", "copy", "restat", "reverify"}
Paths   == [file : Files, link : BOOLEAN] \cup {[file |-> Absent, link |-> FALSE]}

AcquisitionTypeOK ==
    /\ pc \in [Calls -> DropPcs \cup {"parse", "install", "cleanup", "ended", "dead"}]
    /\ local \in [Calls -> [reading : Contents \cup Files \cup {Absent},
                            seen : Nat, got : Contents]]
    /\ part \in [Calls -> Contents \cup {Absent}]
    /\ outcome \in [Calls -> {"none", "done", "failed", "unclean"}]
    /\ disk \in [Files -> Contents] /\ stamp \in [Files -> Nat] /\ path \in Paths
    /\ offered \subseteq Contents
    /\ edits \in 0..MaxEdits /\ tampers \in 0..MaxTampers /\ crashes \in 0..MaxCrashes

\* Nothing is open.
Locals(data) == [reading |-> Absent, seen |-> 0, got |-> data]

Init ==
    /\ pc = [c \in Calls |-> "start"]
    /\ local = [c \in Calls |-> Locals(<<>>)]
    /\ part = [c \in Calls |-> Absent]
    /\ outcome = [c \in Calls |-> "none"]
    /\ disk \in [Files -> {Body(e) : e \in Editions}]
    /\ stamp = [f \in Files |-> 0]
    /\ \E f \in Files : path = [file |-> f, link |-> FALSE] /\ offered = {disk[f]}
    /\ Shelf!Init
    /\ edits = 0 /\ tampers = 0 /\ crashes = 0

-----------------------------------------------------------------------------
Goto(c, place)  == pc' = [pc EXCEPT ![c] = place]
Alone          == UNCHANGED <<driveVars, storeVars, tampers, crashes>>
Got(c)         == local[c].got
Finish(c, r)   == Goto(c, "cleanup") /\ outcome' = [outcome EXCEPT ![c] = r]
Forget(c)      == local' = [local EXCEPT ![c] = Locals(<<>>)]

\* An exception: nothing is installed, the finally clause is next.
Refuse(c) == Finish(c, "failed") /\ Forget(c) /\ UNCHANGED part /\ Alone

\* The statement fails: no such file (the temporary one included), a setting or a
\* header is refused, a disk or network error, an interrupt.
Fails(c) == pc[c] \notin {"cleanup", "ended", "dead"} /\ Refuse(c)

\* The next statement, unless a test before it raises.
Unless(raises, c, place) ==
    IF raises THEN Refuse(c)
              ELSE Goto(c, place) /\ UNCHANGED <<local, part, outcome>> /\ Alone

\* part.open("xb")
Create(c) == part' = [part EXCEPT ![c] = <<>>] /\ Goto(c, "copy")

\* The settings are in order and the server answers with some edition.
Connect(c) ==
    /\ c \in Fetches /\ pc[c] = "start"
    /\ \E e \in Editions : local' = [local EXCEPT ![c].reading = Body(e)]
    /\ Create(c)
    /\ UNCHANGED outcome /\ Alone

\* source.lstat() before the file is opened.
Look(c) ==
    /\ c \in Drops /\ pc[c] = "start"
    /\ Unless(path.file = Absent \/ path.link, c, "open")

\* os.open follows a link where there is no O_NOFOLLOW.
Open(c) ==
    /\ pc[c] = "open" /\ path.file # Absent
    /\ local' = [local EXCEPT ![c].reading = path.file]
    /\ Goto(c, "stat")
    /\ UNCHANGED <<part, outcome>> /\ Alone

\* os.fstat(descriptor)
Stat(c) ==
    /\ pc[c] = "stat"
    /\ local' = [local EXCEPT ![c].seen = stamp[local[c].reading]]
    /\ Goto(c, "verify")
    /\ UNCHANGED <<part, outcome>> /\ Alone

\* source.lstat(): the path names the open file itself.
NamesOpenFile(c) == path = [file |-> local[c].reading, link |-> FALSE]

Verify(c) ==
    /\ pc[c] = "verify"
    /\ IF NamesOpenFile(c) THEN Create(c) /\ UNCHANGED <<local, outcome>> /\ Alone
                           ELSE Refuse(c)

Stream(c) == IF c \in Drops THEN disk[local[c].reading] ELSE local[c].reading

\* One turn of the copying loop.
Copy(c) ==
    LET next == Len(Got(c)) + 1
    IN  /\ pc[c] = "copy" /\ next <= Len(Stream(c))
        /\ IF next > MaxBlocks THEN Refuse(c)
             ELSE /\ local' = [local EXCEPT ![c].got = Append(@, Stream(c)[next])]
                  /\ part' = [part EXCEPT ![c] = Append(@, Stream(c)[next])]
                  /\ UNCHANGED <<pc, outcome>> /\ Alone

\* read() returns b"": the end, or a connection that was closed early.
CopyEnds(c) ==
    /\ pc[c] = "copy"
    /\ c \in Drops => Len(Got(c)) >= Len(Stream(c))
    /\ Unless(FALSE, c, IF c \in Drops THEN "restat" ELSE "parse")

\* Mutant of Restat: it compares identities only.
RestatNothing(c) == pc[c] = "restat" /\ Unless(FALSE, c, "reverify")

\* os.fstat(descriptor) again: the file was not written since.
Restat(c) ==
    pc[c] = "restat" /\ Unless(stamp[local[c].reading] # local[c].seen, c, "reverify")

Reverify(c) == pc[c] = "reverify" /\ Unless(~NamesOpenFile(c), c, "parse")

\* Mutant of Parse: a refused file is kept for inspection.
ParseKeeps(c) ==
    /\ pc[c] = "parse"
    /\ IF part[c] = Got(c) /\ Parses(part[c]) THEN Unless(FALSE, c, "install")
         ELSE /\ Goto(c, "ended") /\ outcome' = [outcome EXCEPT ![c] = "failed"]
              /\ UNCHANGED <<local, part>> /\ Alone

\* The descriptor is closed.  The temporary file is read back and parsed; it
\* must hash to what was copied.
Parse(c) ==
    /\ pc[c] = "parse"
    /\ IF part[c] # Got(c) \/ ~Parses(part[c]) THEN Refuse(c)
         ELSE /\ Goto(c, "install")
              /\ local' = [local EXCEPT ![c] = Locals(Got(c))]
              /\ UNCHANGED <<part, outcome>> /\ Alone

\* Mutant of Install: the bytes are not hashed again.
InstallUnchecked(c) ==
    /\ pc[c] = "install" /\ part[c] # Absent
    /\ LET ask == Ask(c, Got(c), part[c])
       IN  Shelf!Put(c, ask) \/ Shelf!Find(c, ask)
    /\ Finish(c, "done")
    /\ UNCHANGED <<local, part, driveVars, tampers, crashes>>

\* install_snapshot reads the temporary file once more; the importer compares
\* the metadata it is handed with its contract.
Install(c) ==
    /\ pc[c] = "install" /\ part[c] = Got(c)
    /\ LET ask == Ask(c, Got(c), part[c])
       IN  /\ Shelf!Put(c, ask) \/ Shelf!Find(c, ask)
           /\ Finish(c, IF ask.strict /\ shelf'[ask.name].terms # ask.terms
                          THEN "failed" ELSE "done")
    /\ UNCHANGED <<local, part, driveVars, tampers, crashes>>

InstallFails(c) ==
    /\ pc[c] = "install" /\ Shelf!Fail(c)
    /\ Finish(c, "failed") /\ Forget(c)
    /\ UNCHANGED <<part, driveVars, tampers, crashes>>

\* part.unlink(missing_ok=True)
Cleanup(c) ==
    /\ pc[c] = "cleanup"
    /\ part' = [part EXCEPT ![c] = Absent]
    /\ Goto(c, "ended")
    /\ UNCHANGED <<local, outcome>> /\ Alone

\* The removal fails: that is the error the operator sees.
CleanupFails(c) ==
    /\ pc[c] = "cleanup" /\ part[c] # Absent
    /\ Goto(c, "ended")
    /\ outcome' = [outcome EXCEPT ![c] = "unclean"]
    /\ Forget(c)
    /\ UNCHANGED part /\ Alone

Die(c) ==
    /\ crashes < MaxCrashes /\ pc[c] \notin {"start", "ended", "dead"}
    /\ crashes' = crashes + 1
    /\ Goto(c, "dead") /\ Forget(c)
    /\ outcome' = [outcome EXCEPT ![c] = "none"]
    /\ UNCHANGED <<part, driveVars, storeVars, tampers>>

-----------------------------------------------------------------------------
\* Whoever supplies the file goes on writing it ...
Save(f) ==
    /\ disk' \in {[disk EXCEPT ![f] = data] : data \in
                    {<<>>} \cup {Append(disk[f], e) : e \in Editions}
                    \cup {ReplaceAt(disk[f], k, e) : k \in DOMAIN disk[f], e \in Editions}}
    /\ Len(disk'[f]) <= MaxBlocks + 1
    /\ stamp' = [stamp EXCEPT ![f] = @ + 1]
    /\ UNCHANGED path

\* ... or puts another file, a link or nothing in its place.
Replace == path' \in Paths /\ UNCHANGED <<disk, stamp>>

\* Edits that no importer can see any more are left out.
Edit ==
    /\ edits < MaxEdits /\ edits' = edits + 1
    /\ \E c \in Drops : pc[c] \in DropPcs
    /\ Replace \/ \E f \in Files : Save(f)
    /\ offered' = IF path'.file = Absent \/ path'.link THEN offered
                                                      ELSE offered \cup {disk'[path'.file]}
    /\ UNCHANGED <<callVars, storeVars, tampers, crashes>>

\* Somebody changes a temporary file after it was written.
Tamper(c) ==
    /\ tampers < MaxTampers /\ tampers' = tampers + 1
    /\ pc[c] \in {"parse", "install"}
    /\ \E e \in Editions : part' = [part EXCEPT ![c] = Body(e)]
    /\ UNCHANGED <<pc, local, outcome, driveVars, storeVars, crashes>>

AllEnded == \A c \in Calls : pc[c] \in {"ended", "dead"}

Next ==
    \/ \E c \in Calls :
         \/ Connect(c) \/ Look(c) \/ Open(c) \/ Stat(c) \/ Verify(c) \/ Copy(c) \/ CopyEnds(c)
         \/ Restat(c) \/ Reverify(c) \/ Parse(c) \/ Install(c) \/ InstallFails(c) \/ Fails(c)
         \/ Cleanup(c) \/ CleanupFails(c)
         \/ Die(c) \/ Tamper(c)
    \/ Edit
    \/ AllEnded /\ UNCHANGED vars

Spec == Init /\ [][Next]_vars

-----------------------------------------------------------------------------
IsUpToClosing(data, whole) == Len(data) >= Closing /\ IsPrefix(data, whole)

\* However downloads break off and source files are written or replaced under
\* the importer, a snapshot is one feed: an edition of the server, or what the
\* source file held at one moment, complete up to the end of its root element.
ShelfHoldsWholeFeeds ==
    \A n \in Feeds : shelf[n] # Absent =>
        \E whole \in offered \cup {Body(e) : e \in Editions} :
            IsUpToClosing(shelf[n].sha256, whole)

\* A call that reports success has installed the bytes it copied and checked; an
\* importer has installed the whole of a file that its path named, as a drop.
SuccessIsOwnFeed ==
    \A c \in Calls : outcome[c] = "done" =>
        /\ shelf[Got(c)] # Absent /\ shelf[Got(c)].sha256 = Got(c)
        /\ c \in Drops => Got(c) \in offered /\ shelf[Got(c)].terms = "dropped"

\* Temporary files are private to a call at work: who leaves one behind has died
\* or says so.
PartsHaveCause ==
    \A c \in Calls : part[c] # Absent => pc[c] # "ended" \/ outcome[c] = "unclean"
=============================================================================
