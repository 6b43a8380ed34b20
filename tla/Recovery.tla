------------------------------ MODULE Recovery ------------------------------
(***************************************************************************)
(* The recovery of a mailbox from its permissioned repository: the read of *)
(* a source under one credential (internal/providers/officialspaces,       *)
(* snapshot.go and blob_stream.go), its reduction (mailboxstate,           *)
(* officialspaces_recovery.go), the content-verified source that is handed *)
(* out (officialspaces_content.go) and the projections built from it       *)
(* (projection/officialspaces.go).                                         *)
(*                                                                         *)
(* Commits of other clients fall between any two requests of the read.  A  *)
(* commit is its position in the history; its hash stands for the records, *)
(* so the hash of an index is the set of records it lists.  The V3         *)
(* authority reads its snapshots this way: AuthorityV3 takes the read as   *)
(* one step, which is what ImplementsSnapshotRead below justifies.         *)
(***************************************************************************)
EXTENDS FolderRevisions, Sequences

CONSTANTS
    Lower,          \* [Names -> ...]: a name as strings.ToLower makes it
    Prior,          \* the states committed before, oldest first
    Builders,       \* rebuilds, all of one destination
    FreshOps,       \* operations of other clients
    maxCommits,     \* bound: commits in the history
    None,           \* nobody has made the file
    maxFaults       \* bound: failed requests, lagging exports and crashes

\* The records of one committed state
Contents ==
    [versions: SUBSET Versions, revisions: SUBSET Revision,
     claims: SUBSET Claim, folders: SUBSET FolderRevision, folderClaims: SUBSET FolderClaim]

ASSUME RecoveryAssumption ==
    /\ Messages \subseteq Int /\ DOMAIN Lower = Names
    /\ Prior \in Seq(Contents) /\ Prior # <<>>
    /\ \A i \in DOMAIN Prior : IsFiniteSet(Prior[i].revisions) /\ IsFiniteSet(Prior[i].folders)
    /\ FreshOps \subseteq Ops \cap Keys
    /\ None \notin Builders
    /\ maxCommits \in Nat /\ maxFaults \in Nat

VARIABLES
    history,        \* the committed states of the repository
    reader,         \* the read underway
    source,         \* the ContentVerifiedSource handed out
    builder,        \* each rebuild
    file,           \* what is at the destination
    faults          \* faults so far

vars == <<history, reader, source, builder, file, faults>>

-----------------------------------------------------------------------------
(* The records of one committed state and their reduction.                  *)

Empty == [versions |-> {}, revisions |-> {}, claims |-> {}, folders |-> {}, folderClaims |-> {}]

\* No source is handed out; there is no file
NoSource ==
    [at |-> 0, contents |-> Empty, blobs |-> {}, closed |-> FALSE, closePending |-> FALSE, active |-> 0]
NoFile == [by |-> None, at |-> 0, committed |-> FALSE, folders |-> {}, rows |-> {}]

FoldersIn(s) == {r.folder : r \in s.folders}
MessagesIn(s) == {r.lm : r \in s.revisions}
ClaimsIn(s, m) == {c \in s.claims : c.lm = m}
FolderClaimsIn(s, f) == {c \in s.folderClaims : c.folder = f}
VersionsIn(s, m) == {v \in s.versions : Owner[v] = m}

FolderStates(s) == [f \in FoldersIn(s) |-> ReduceFolder(FolderRevisionsOf(s.folders, f))]
MessageStates(s) == [m \in MessagesIn(s) |-> Reduced(RevisionsOf(s.revisions, m))]

LiveFolders(s) == {f \in FoldersIn(s) : ~FolderStates(s)[f].tombstone}

reduceOfficialFolders(s) ==
    /\ {c.folder : c \in s.folderClaims} = FoldersIn(s)
    /\ \A f \in FoldersIn(s) :
        FolderValid(FolderRevisionsOf(s.folders, f), FolderClaimsIn(s, f))
    /\ ValidateFolderSet(FolderStates(s))

\* A live message is only in live folders; earlier places need only be known
PlacesKnown(s, m) ==
    LET R == RevisionsOf(s.revisions, m)
    IN  /\ UNION {r.mailboxes : r \in R} \subseteq FoldersIn(s)
        /\ ~Tombstoned(R) => SelectedMailboxes(R) \subseteq LiveFolders(s)

reduceOfficialMessages(s) ==
    /\ {Owner[v] : v \in s.versions} = MessagesIn(s)
    /\ {c.lm : c \in s.claims} = MessagesIn(s)
    /\ \A m \in MessagesIn(s) :
        /\ CausallyValid(RevisionsOf(s.revisions, m), ClaimsIn(s, m), VersionsIn(s, m))
        /\ PlacesKnown(s, m)

\* reduceOfficialSpacesInventory: the whole mailbox is accepted or refused
Reducible(s) == reduceOfficialFolders(s) /\ reduceOfficialMessages(s)

-----------------------------------------------------------------------------
(* The commits of other clients.  A client read some committed state, built *)
(* a revision that is acceptable on top of it and commits it, with its      *)
(* claim, to whatever the repository holds by then.                         *)

Current == history[Len(history)]
UsedOps(s) == {r.op : r \in s.revisions} \cup {r.op : r \in s.folders}

WithFolderRevision(s, r) ==
    [s EXCEPT !.folders = @ \cup {r}, !.folderClaims = @ \cup {FolderClaimOf(r)}]

WithRevision(s, r) ==
    [s EXCEPT !.revisions = @ \cup {r}, !.claims = @ \cup {ClaimOf(r)},
              !.versions = @ \cup ({r.version} \ {NoVersion})]

Above(S) == IF S = {} THEN 1 ELSE Height(S) + 1

\* Revisions of folder f that a client may build on the state s
FolderChanges(s, f, op) ==
    LET S == FolderRevisionsOf(s.folders, f)
        Base == [key |-> op, folder |-> f, op |-> op, parents |-> Heads(S), rev |-> Above(S),
                 name |-> NoName, role |-> NoRole, tombstone |-> FALSE, merge |-> FALSE]
    IN  {[Base EXCEPT !.name = n] : n \in Names}
          \cup {[Base EXCEPT !.tombstone = TRUE], [Base EXCEPT !.merge = TRUE]}

\* Revisions of message m: a move, a new version or a tombstone
MessageChanges(s, m, op) ==
    LET S == RevisionsOf(s.revisions, m)
        Base == [key |-> op, lm |-> m, op |-> op, parents |-> Heads(S), rev |-> Above(S),
                 version |-> NoVersion, mailboxes |-> {}, on |-> {}, off |-> {},
                 nilKeywords |-> TRUE, deletePending |-> "unset", tombstone |-> FALSE]
    IN  {[Base EXCEPT !.mailboxes = {f}] : f \in Folders}
          \cup {[Base EXCEPT !.version = v, !.mailboxes = {f}] : v \in Versions, f \in Standard}
          \cup {[Base EXCEPT !.tombstone = TRUE]}

CommitFolder ==
    \E i \in DOMAIN history, f \in Folders, op \in FreshOps \ UsedOps(Current) :
        \E r \in {q \in FolderChanges(history[i], f, op) :
                    Reducible(WithFolderRevision(history[i], q))} :
            history' = Append(history, WithFolderRevision(Current, r))

\* A version is stored once, and a message has one operation "initial"
CommitMessage ==
    \E i \in DOMAIN history, m \in Messages, op \in FreshOps \ UsedOps(Current) :
        \E r \in {q \in MessageChanges(history[i], m, op) :
                    Reducible(WithRevision(history[i], q))} :
            /\ r.version \notin Current.versions
            /\ r.parents = {} => m \notin MessagesIn(Current)
            /\ history' = Append(history, WithRevision(Current, r))

Commit ==
    /\ Len(history) < maxCommits
    /\ CommitFolder \/ CommitMessage
    /\ UNCHANGED <<reader, source, builder, file, faults>>

-----------------------------------------------------------------------------
(* The read.  before and at are commits; contents is what the CAR held.     *)

Idle == [pc |-> "idle", at |-> 0, contents |-> Empty, got |-> {}]
Latest == Len(history)
RawBlobs(s) == s.versions

Request(from) == reader.pc = from /\ UNCHANGED <<history, builder, file>>

\* validateRepoSourceOrigin, the credential of withReader, the first commit
ReadBefore ==
    /\ Request("idle") /\ source = NoSource
    /\ reader' = [Idle EXCEPT !.pc = "car", !.at = Latest]
    /\ UNCHANGED <<source, faults>>

\* verifyFullSourceCAR: the set hash of the index is the one of the commit
VerifyFullSourceCAR(commit, index) == history[index] = history[commit]

\* The export: its commit and its index may lag behind the repository
ReadCAR ==
    /\ Request("car")
    /\ \E commit, index \in DOMAIN history :
        /\ faults' = IF commit = Latest /\ index = Latest THEN faults ELSE faults + 1
        /\ faults' <= maxFaults
        /\ reader' = IF VerifyFullSourceCAR(commit, index) /\ commit = reader.at
                       THEN [reader EXCEPT !.pc = "after", !.contents = history[index]]
                       ELSE Idle
    /\ UNCHANGED source

\* Mutant: whole signed commits are compared, and no two are alike
ReadAfterSigned ==
    /\ Request("after")
    /\ reader' = Idle
    /\ UNCHANGED <<source, faults>>

\* sameRepoState: the commit after the export is still the one before it
ReadAfter ==
    /\ Request("after")
    /\ reader' = IF reader.at = Latest THEN [reader EXCEPT !.pc = "reduce"] ELSE Idle
    /\ UNCHANGED <<source, faults>>

\* ReduceOfficialSpacesSource and prepareOfficialContent
Reduce ==
    /\ Request("reduce")
    /\ reader' = IF Reducible(reader.contents) THEN [reader EXCEPT !.pc = "start"] ELSE Idle
    /\ UNCHANGED <<source, faults>>

\* streamSourceMessageBlobs: a new credential, and the commit once more
StartBlobs ==
    /\ Request("start")
    /\ reader' = IF reader.at = Latest THEN [reader EXCEPT !.pc = "blobs"] ELSE Idle
    /\ UNCHANGED <<source, faults>>

\* readMessageBlob: one blob per request, in the order of the CIDs
ReadBlob ==
    /\ Request("blobs")
    /\ \E v \in RawBlobs(reader.contents) \ reader.got :
        reader' = [reader EXCEPT !.got = @ \cup {v}]
    /\ UNCHANGED <<source, faults>>

Handed ==
    [at |-> reader.at, contents |-> reader.contents, blobs |-> reader.got,
     closed |-> FALSE, closePending |-> FALSE, active |-> 0]

\* Mutant: the commit is not compared after the last blob
FinishUncompared ==
    /\ Request("blobs") /\ reader.got = RawBlobs(reader.contents)
    /\ source' = Handed
    /\ reader' = Idle
    /\ UNCHANGED faults

\* The closing commit, and the source is sealed and handed out
Finish ==
    /\ Request("blobs") /\ reader.got = RawBlobs(reader.contents)
    /\ source' = IF reader.at = Latest THEN Handed ELSE NoSource
    /\ reader' = Idle
    /\ UNCHANGED faults

\* An answer that fails, or does not decode, verify or fit a bound
RequestFails ==
    /\ reader.pc # "idle" /\ faults < maxFaults
    /\ faults' = faults + 1
    /\ reader' = Idle
    /\ UNCHANGED <<history, source, builder, file>>

Read ==
    ReadBefore \/ ReadCAR \/ ReadAfter \/ Reduce \/ StartBlobs \/ ReadBlob \/ Finish

-----------------------------------------------------------------------------
(* The source that was handed out.                                          *)

\* validLocked
Valid == source # NoSource /\ ~source.closed

clearLocked(s) == [s EXCEPT !.contents = Empty, !.blobs = {}, !.closePending = FALSE]

\* Mutant: Close does not look at the visits underway
CloseAtOnce ==
    /\ Valid
    /\ source' = clearLocked([source EXCEPT !.closed = TRUE])
    /\ UNCHANGED <<history, reader, builder, file, faults>>

\* Close: with a visit underway the content is cleared when the last one ends
Close ==
    /\ Valid
    /\ source' = IF source.active > 0
                   THEN [source EXCEPT !.closed = TRUE, !.closePending = TRUE]
                   ELSE clearLocked([source EXCEPT !.closed = TRUE])
    /\ UNCHANGED <<history, reader, builder, file, faults>>

\* Mutant: the end of a visit leaves the content to Close
finishVisitOnly(s) == [s EXCEPT !.active = @ - 1]

finishVisit(s) ==
    LET left == [s EXCEPT !.active = @ - 1]
    IN  IF left.active = 0 /\ left.closePending THEN clearLocked(left) ELSE left

-----------------------------------------------------------------------------
(* rebuildOfficialSpaces.                                                   *)

NoBuild == [pc |-> "idle", count |-> 0, folders |-> {}, revisions |-> {}, seen |-> {}, rows |-> {}]

\* The part of a state a rebuild has seen through Folders and MessageStates
Seen(b) == [Empty EXCEPT !.folders = builder[b].folders, !.revisions = builder[b].revisions]

LiveMessages(s) == {m \in MessagesIn(s) : ~MessageStates(s)[m].tombstone}
Selected(s) == {MessageStates(s)[m].version : m \in LiveMessages(s)}
Within(s, f) == {m \in LiveMessages(s) : f \in MessageStates(s)[m].mailboxes}

\* buildOfficialProjectionGraph: UIDs count the messages of a folder in order
GraphFits(s) ==
    /\ \A m \in LiveMessages(s) : MessageStates(s)[m].mailboxes \subseteq LiveFolders(s)
    /\ \A m, n \in LiveMessages(s) :
          MessageStates(s)[m].version = MessageStates(s)[n].version => m = n
    /\ \A f, g \in LiveFolders(s) :
          Lower[FolderStates(s)[f].name] = Lower[FolderStates(s)[g].name] => f = g

UID(s, m, f) == Cardinality({n \in Within(s, f) : n <= m})
FolderTable(s) == {[folder |-> f, name |-> FolderStates(s)[f].name] : f \in LiveFolders(s)}

\* insertOfficialMessage: a row for each folder of the message, if v is selected
RowsOf(s, v) ==
    {[version |-> v, folder |-> f, uid |-> UID(s, Owner[v], f)] :
        f \in {g \in LiveFolders(s) : v \in Selected(s) /\ Owner[v] \in Within(s, g)}}

Step(b, from) == builder[b].pc = from /\ UNCHANGED <<history, reader>>
Goto(b, label) == builder' = [builder EXCEPT ![b].pc = label]

\* refuseExistingOfficialProjectionArtifacts
StartBuild(b) ==
    /\ Step(b, "idle") /\ source # NoSource
    /\ Goto(b, IF file = NoFile THEN "open" ELSE "failed")
    /\ UNCHANGED <<source, file, faults>>

\* ValidateSeal and Summary
Open(b) ==
    /\ Step(b, "open")
    /\ IF Valid
         THEN builder' = [builder EXCEPT ![b].pc = "folders",
                                         ![b].count = Cardinality(source.contents.versions)]
         ELSE Goto(b, "failed")
    /\ UNCHANGED <<source, file, faults>>

\* Folders, then MessageStates: nothing once the source is closed
ReadFolders(b) ==
    /\ Step(b, "folders")
    /\ builder' = [builder EXCEPT ![b].pc = "states",
                                  ![b].folders = IF Valid THEN source.contents.folders ELSE {}]
    /\ UNCHANGED <<source, file, faults>>

ReadStates(b) ==
    /\ Step(b, "states")
    /\ builder' = [builder EXCEPT ![b].pc = "create",
                                  ![b].revisions = IF Valid THEN source.contents.revisions ELSE {}]
    /\ UNCHANGED <<source, file, faults>>

\* Mutant: a rebuild that did not create the file cleans it up all the same
CreateCleansUp(b) ==
    /\ Step(b, "create")
    /\ IF GraphFits(Seen(b)) /\ file = NoFile
         THEN /\ file' = [NoFile EXCEPT !.by = b, !.at = source.at]
              /\ Goto(b, "opened")
         ELSE Goto(b, "remove") /\ UNCHANGED file
    /\ UNCHANGED <<source, faults>>

\* The destination is refused again, then created exclusively
Create(b) ==
    /\ Step(b, "create")
    /\ IF GraphFits(Seen(b)) /\ file = NoFile
         THEN /\ file' = [NoFile EXCEPT !.by = b, !.at = source.at]
              /\ Goto(b, "opened")
         ELSE Goto(b, "failed") /\ UNCHANGED file
    /\ UNCHANGED <<source, faults>>

\* VisitMessages: a visit of a valid source pins its content
BeginVisit(b) ==
    /\ Step(b, "opened")
    /\ IF Valid
         THEN source' = [source EXCEPT !.active = @ + 1] /\ Goto(b, "visit")
         ELSE UNCHANGED source /\ Goto(b, "remove")
    /\ UNCHANGED <<file, faults>>

\* One version and its bytes; without them the message does not validate
VisitMessage(b) ==
    /\ Step(b, "visit")
    /\ \E v \in source.contents.versions \ builder[b].seen :
        IF v \in source.blobs
          THEN /\ builder' = [builder EXCEPT ![b].seen = @ \cup {v},
                                             ![b].rows = @ \cup RowsOf(Seen(b), v)]
               /\ UNCHANGED source
          ELSE source' = finishVisit(source) /\ Goto(b, "remove")
    /\ UNCHANGED <<file, faults>>

EndVisit(b) ==
    /\ Step(b, "visit") /\ source.contents.versions \subseteq builder[b].seen
    /\ source' = finishVisit(source)
    /\ Goto(b, "complete")
    /\ UNCHANGED <<file, faults>>

\* Every version and every selected one was seen, the source is still open
Complete(b) ==
    /\ Step(b, "complete")
    /\ IF /\ Cardinality(builder[b].seen) = builder[b].count
          /\ Selected(Seen(b)) \subseteq builder[b].seen
          /\ Valid
         THEN /\ file' = [file EXCEPT !.committed = TRUE, !.folders = FolderTable(Seen(b)),
                                      !.rows = builder[b].rows]
              /\ Goto(b, "committed")
         ELSE Goto(b, "remove") /\ UNCHANGED file
    /\ UNCHANGED <<source, faults>>

\* The database is closed and its mode set
Report(b) ==
    /\ Step(b, "committed")
    /\ Goto(b, "done")
    /\ UNCHANGED <<source, file, faults>>

\* removeProjectionArtifacts, by the rebuild that created the file
Remove(b) ==
    /\ Step(b, "remove")
    /\ file' = NoFile
    /\ Goto(b, "failed")
    /\ UNCHANGED <<source, faults>>

\* A cancelled context or an error of the database, during or after the visit
BuildFails(b) ==
    /\ builder[b].pc \in {"opened", "visit", "complete", "committed"}
    /\ faults < maxFaults
    /\ faults' = faults + 1
    /\ source' = IF builder[b].pc = "visit" THEN finishVisit(source) ELSE source
    /\ Goto(b, "remove")
    /\ UNCHANGED <<history, reader, file>>

Build(b) ==
    \/ StartBuild(b) \/ Open(b) \/ ReadFolders(b) \/ ReadStates(b) \/ Create(b)
    \/ BeginVisit(b) \/ VisitMessage(b) \/ EndVisit(b) \/ Complete(b) \/ Report(b) \/ Remove(b)

\* The process dies: the source was in its memory, the file stays
Crash ==
    /\ faults < maxFaults
    /\ faults' = faults + 1
    /\ reader' = Idle /\ source' = NoSource
    /\ builder' = [b \in Builders |->
            IF builder[b].pc \in {"done", "failed"} THEN builder[b] ELSE NoBuild]
    /\ UNCHANGED <<history, file>>

-----------------------------------------------------------------------------

Init ==
    /\ history = Prior
    /\ reader = Idle /\ source = NoSource
    /\ builder = [b \in Builders |-> NoBuild]
    /\ file = NoFile /\ faults = 0

Next ==
    \/ Commit \/ Read \/ RequestFails \/ Close \/ Crash
    \/ \E b \in Builders : Build(b) \/ BuildFails(b)

Spec == Init /\ [][Next]_vars

\* A failed read is repeated by its caller; rebuilds and requests go on
Fairness == WF_vars(Read) /\ \A b \in Builders : WF_vars(Build(b))

FairSpec == Spec /\ Fairness

-----------------------------------------------------------------------------
(* Properties *)

(***************************************************************************)
(* Types; activeVisits of the source is the number of visits underway      *)
(* (officialspaces_content.go:238-317).                                    *)
(***************************************************************************)
TypeOK ==
    /\ \A i \in DOMAIN history : /\ history[i].revisions \subseteq Revision
                                 /\ history[i].folders \subseteq FolderRevision
    /\ reader.at \in 0..Latest /\ reader.got \subseteq Versions
    /\ source # NoSource =>
        source.active = Cardinality({b \in Builders : builder[b].pc = "visit"})
    /\ faults \in 0..maxFaults

(***************************************************************************)
(* The multi-request read is atomic: whatever is committed between its     *)
(* requests and however far the export lags, the source handed out is one  *)
(* committed state with all its blobs, the latest one when the last        *)
(* request was answered (snapshot.go:234-290, blob_stream.go:33-104).      *)
(***************************************************************************)
Promise == INSTANCE SnapshotRead
    WITH log <- history, BlobsOf <- RawBlobs,
         handed <- IF Valid THEN [at |-> source.at, contents |-> source.contents,
                                  blobs |-> source.blobs]
                   ELSE NoSource
ImplementsSnapshotRead == Promise!Spec

(***************************************************************************)
(* A visit works on the whole content of the source to its end, although   *)
(* it runs outside the lock and the source may be closed under it          *)
(* (officialspaces_content.go:250-253, 293-317).                           *)
(***************************************************************************)
VisitSeesContent ==
    \A b \in Builders : builder[b].pc = "visit" =>
        source.contents = history[source.at] /\ source.blobs = RawBlobs(history[source.at])

\* What the records of a state say, read off the revisions one by one
Undeleted(S) == \A r \in S : ~r.tombstone
Reachable(S, k) ==
    {j \in KeysOf(S) : \A T \in SUBSET KeysOf(S) :
        k \in T /\ (\A r \in S : r.key \in T => r.parents \subseteq T) => j \in T}

(***************************************************************************)
(* A reported projection stays and is exact, and so is any content another *)
(* process can see at the destination: every live folder, every live       *)
(* message once in each of its folders with the UIDs 1, 2, ... of that     *)
(* folder.  A rebuild that loses the race for the destination, fails or    *)
(* dies never harms it (projection/officialspaces.go:155-170, 258-264).    *)
(***************************************************************************)
ProjectionExact ==
    /\ \A b \in Builders : builder[b].pc = "done" =>
        file.by = b /\ file.committed
    /\ file.committed =>
        /\ file.by # None
        /\ LET s == history[file.at]
               Live == {m \in MessagesIn(s) : Undeleted(RevisionsOf(s.revisions, m))}
               In(f) == {row \in file.rows : row.folder = f}
           IN  /\ {t.folder : t \in file.folders} =
                    {f \in FoldersIn(s) : Undeleted(FolderRevisionsOf(s.folders, f))}
               /\ {Owner[row.version] : row \in file.rows} = Live
               /\ \A f \in FoldersIn(s) :
                    /\ {row.uid : row \in In(f)} = 1..Cardinality(In(f))
                    /\ \A row, other \in In(f) : Owner[row.version] = Owner[other.version] => row = other

\* Some writer of W has the value the reducer chose, and no other had seen it
LatestWriter(S, W, Chosen(_)) ==
    \E r \in W : Chosen(r) /\ \A q \in W \ {r} : r.key \notin Reachable(S, q.key)

(***************************************************************************)
(* The replay order (Revision, then operation id) respects causality: in   *)
(* an accepted state the name of a folder, and the version and the place   *)
(* of a message, come from a writer no other writer of that field had      *)
(* seen (folder_revision.go:327-357, revision.go:419-464).                 *)
(***************************************************************************)
WinnersAreLatest ==
    Reducible(Current) =>
        /\ \A f \in FoldersIn(Current) :
            LET S == FolderRevisionsOf(Current.folders, f)
                Named(r) == r.name = FolderStates(Current)[f].name
            IN  LatestWriter(S, NameWriters(S), Named)
        /\ \A m \in MessagesIn(Current) :
            LET S == RevisionsOf(Current.revisions, m)
                Placed(r) == r.mailboxes = MessageStates(Current)[m].mailboxes
                Versioned(r) == r.version = MessageStates(Current)[m].version
            IN  /\ LatestWriter(S, {r \in S : r.mailboxes # {}}, Placed)
                /\ LatestWriter(S, {r \in S : r.version # NoVersion}, Versioned)

(***************************************************************************)
(* Recovery gets through: once the repository stays reducible, a read that *)
(* is repeated hands out a source, after lagging exports, failed requests, *)
(* commits in the middle of a read and crashes (docs/promotion-gates.md).  *)
(***************************************************************************)
Recovers == <>[]Reducible(Current) => (source = NoSource ~> source # NoSource)

(***************************************************************************)
(* A closed source does not keep message bytes in memory: they are cleared *)
(* at once or when the last visit ends (officialspaces_content.go:293).    *)
(***************************************************************************)
ClosedIsCleared == (source # NoSource /\ source.closed) ~> (source = NoSource \/ source.blobs = {})

=============================================================================
