------------------------------ MODULE Migration ------------------------------
(***************************************************************************)
(* Migration of a mailbox snapshot into a permissioned space               *)
(* (internal/migrate over internal/providers/happyview) and the rebuild of *)
(* a disposable projection from it (internal/projection).                  *)
(*                                                                         *)
(* Importers of one snapshot may run side by side and are run again when   *)
(* they fail.  Each request to the provider is one step; it may fail, its  *)
(* answer may be lost, and a process may die between any two of them.      *)
(* Meanwhile other clients use the mailbox: the viewer changes the state   *)
(* of messages and the agent makes folders.  A rebuild reads the three     *)
(* collections one after the other, checks that they fit and writes a      *)
(* create-only file.                                                       *)
(***************************************************************************)
EXTENDS HappyView

CONSTANTS
    Importers,      \* runs of the migration
    Builders,       \* rebuilds, each to a destination of its own
    Folders,        \* the folders of the source, in order
    Messages,       \* its live messages, in order
    Source,         \* body, mailboxes, UID and keywords of each message
    Validity,       \* the source's UIDVALIDITY of each folder
    StableValidity, \* the agent's UIDVALIDITY of each folder
    UserOps,        \* changes other clients make
    maxUID,         \* largest UID, 2^32 - 1 in the code
    maxRevision,    \* bound: changes of one state
    maxFaults       \* bound: crashes, failed requests and lost answers

SourceFolders == {Folders[i] : i \in DOMAIN Folders}
SourceMessages == {Messages[i] : i \in DOMAIN Messages}

ASSUME MigrationAssumption ==
    /\ Importers \cap Builders = {}
    /\ Folders \in Seq(SourceFolders) /\ Messages \in Seq(SourceMessages)
    /\ \A m \in SourceMessages : Source[m].body \in Bodies
    /\ Rank \in [SourceFolders \cup SourceMessages -> Nat \ {0}]
    /\ \A m, other \in SourceMessages : Rank[m] = Rank[other] => m = other
    /\ maxUID \in Nat /\ maxRevision \in Nat /\ maxFaults \in Nat

VARIABLES
    proc,           \* where each process is, with its scratch
    file,           \* the projection at the destination of each rebuild
    faults,         \* faults so far
    touched         \* history: another client wrote to the mailbox

vars == <<space, stored, proc, file, faults, touched>>

Processes == Importers \cup Builders

NoIdentity == [uid |-> 0, validity |-> 0]

\* NewFolder, and the immutable record of a message
Folder(f) == [name |-> f, validity |-> Validity[f]]
Message(m) == [raw |-> Source[m].body]

\* NewMessagePair: a message in one mailbox keeps its UID
State(m) ==
    [mailboxes |-> Source[m].mailboxes, keywords |-> Source[m].keywords, revision |-> 1,
     tombstone |-> FALSE,
     projection |->
        IF \E f \in Source[m].mailboxes : Source[m].mailboxes = {f}
          THEN [uid |-> Source[m].uid,
                validity |-> Validity[CHOOSE f \in Source[m].mailboxes : TRUE]]
          ELSE NoIdentity]

\* The batch that stores a message
Pair(m) == [a \in {<<"message", m>>, <<"state", m>>} |-> IF a[1] = "message" THEN Message(m) ELSE State(m)]

-----------------------------------------------------------------------------

NoProc == [pc |-> "idle", n |-> 1, k |-> 1, list |-> NoList, bad |-> FALSE, views |-> <<>>]

Ended == {"passed", "failed", "refused", "absent"}
Running(p) == proc[p].pc \notin Ended \cup {"idle"}
Goto(p, label) == proc' = [proc EXCEPT ![p].pc = label]
End(p, label) == proc' = [proc EXCEPT ![p] = [NoProc EXCEPT !.pc = label]]
GoList(p, c) == proc' = [proc EXCEPT ![p].pc = "page", ![p].list = ListOf(c)]

Provider == UNCHANGED providerVars
Rest == UNCHANGED <<file, faults, touched>>
ReadOnly == Provider /\ Rest

\* A run that failed is started again, from the beginning
Begin(p) ==
    /\ p \in Importers /\ proc[p].pc \in {"idle", "failed"}
    /\ proc' = [proc EXCEPT ![p] = [NoProc EXCEPT !.pc = "spaces"]]
    /\ ReadOnly

\* A failed rebuild removes what it wrote; a crash leaves it
Cleaned(p) == IF p \in Builders /\ file[p] = "partial" THEN [file EXCEPT ![p] = "none"] ELSE file

\* A request fails without effect, or the process dies
Fault(p) ==
    /\ Running(p) /\ faults < maxFaults
    /\ End(p, "failed") /\ file' \in {file, Cleaned(p)}
    /\ faults' = faults + 1
    /\ Provider /\ UNCHANGED touched

\* The provider committed but its answer, or latestCommit after it, is lost
Lost(p) == End(p, "failed") /\ faults < maxFaults /\ faults' = faults + 1

Written(p) == UNCHANGED <<space, file, touched>>

\* The importer j at folder n, past the last one at the messages ...
AtMessage(j, n) ==
    IF n <= Len(Messages) THEN [j EXCEPT !.pc = "message", !.n = n, !.k = 1]
    ELSE [j EXCEPT !.pc = "page", !.n = 1, !.k = 1, !.list = ListOf("message")]
AtFolder(j, n) ==
    IF n <= Len(Folders) THEN [j EXCEPT !.pc = "folder", !.n = n] ELSE AtMessage(j, 1)

\* ... and at the verification of message n
AtVerify(j, n) ==
    IF n <= Len(Messages) THEN [j EXCEPT !.pc = "verify", !.n = n]
    ELSE [j EXCEPT !.pc = "page", !.n = 1, !.list = ListOf("folder")]

-----------------------------------------------------------------------------
(* EnsureMailbox                                                           *)

ListSpaces(p) ==
    /\ proc[p].pc = "spaces"
    /\ Goto(p, IF space = "absent" THEN "createSpace" ELSE "verifySpace")
    /\ ReadOnly

\* A space another importer created in between is listed again and taken
CreateSpace(p) ==
    /\ proc[p].pc = "createSpace"
    /\ space' = IF space = "absent" THEN "private" ELSE space
    /\ \/ Goto(p, "verifySpace") /\ UNCHANGED faults
       \/ space = "absent" /\ Lost(p)
    /\ UNCHANGED <<stored, file, touched>>

\* Mutant: the space's policy is not looked at
VerifySpaceSkipped(p) ==
    /\ proc[p].pc = "verifySpace"
    /\ proc' = [proc EXCEPT ![p] = AtFolder(@, 1)]
    /\ ReadOnly

\* verifyMailboxSpace: only a private space with the exact policy is used
VerifySpace(p) ==
    /\ proc[p].pc = "verifySpace"
    /\ IF space = "private" THEN proc' = [proc EXCEPT ![p] = AtFolder(@, 1)] ELSE End(p, "failed")
    /\ ReadOnly

-----------------------------------------------------------------------------
(* Folders                                                                 *)

NextFolder(p) == proc' = [proc EXCEPT ![p] = AtFolder(@, @.n + 1)]

\* verifyFolderRecord: the record that is there must be the source's
FolderHeld(p) ==
    LET f == Folders[proc[p].n] IN
    IF stored[<<"folder", f>>] = Folder(f) THEN NextFolder(p) ELSE End(p, "failed")

GetFolder(p) ==
    /\ proc[p].pc = "folder"
    /\ IF Has(<<"folder", Folders[proc[p].n]>>) THEN FolderHeld(p) ELSE Goto(p, "newFolder")
    /\ ReadOnly

\* The provider calls an existing record "exists" or a plain conflict
CreateFolder(p) ==
    LET f == Folders[proc[p].n]
        writes == [a \in {<<"folder", f>>} |-> Folder(f)]
    IN
    /\ proc[p].pc = "newFolder"
    /\ \/ /\ CanCreate(writes) /\ Create(writes)
          /\ (NextFolder(p) /\ UNCHANGED faults) \/ Lost(p)
       \/ /\ ~CanCreate(writes)
          /\ FolderHeld(p) \/ End(p, "failed")
          /\ UNCHANGED <<stored, faults>>
    /\ Written(p)

-----------------------------------------------------------------------------
(* Messages                                                                *)

Now(p) == Messages[proc[p].n]

NextMessage(p) == proc' = [proc EXCEPT ![p] = AtMessage(@, @.n + 1)]

GetMessage(p) ==
    /\ proc[p].pc = "message"
    /\ Goto(p, IF Has(<<"message", Now(p)>>) THEN "check" ELSE "orphan")
    /\ ReadOnly

\* A state without its message is refused
GetOrphan(p) ==
    /\ proc[p].pc = "orphan"
    /\ IF Has(<<"state", Now(p)>>) THEN End(p, "failed") ELSE Goto(p, "get")
    /\ ReadOnly

Plan(p) == UploadPlan(Message(Now(p)).raw)

\* On to the next record of the blob, or to the pair
NextPart(p) ==
    proc' = [proc EXCEPT ![p].k = @ + 1,
                         ![p].pc = IF proc[p].k < Len(Plan(p)) THEN "get" ELSE "pair"]

\* Mutant: a part that is there already is an error
GetPartRefused(p) ==
    LET a == Plan(p)[proc[p].k] IN
    /\ proc[p].pc = "get"
    /\ IF ~Has(a) THEN Goto(p, "put") ELSE End(p, "failed")
    /\ ReadOnly

\* ensureRecord: what is there must be equal
GetPart(p) ==
    LET a == Plan(p)[proc[p].k] IN
    /\ proc[p].pc = "get"
    /\ IF ~Has(a) THEN Goto(p, "put")
       ELSE IF stored[a] = Part(a) THEN NextPart(p) ELSE End(p, "failed")
    /\ ReadOnly

\* An existing or conflicting record is read again and must be equal
PutPart(p) ==
    LET a == Plan(p)[proc[p].k]
        writes == [x \in {a} |-> Part(a)]
    IN
    /\ proc[p].pc = "put"
    /\ \/ /\ CanCreate(writes) /\ Create(writes)
          /\ (NextPart(p) /\ UNCHANGED faults) \/ Lost(p)
       \/ /\ ~CanCreate(writes)
          /\ IF stored[a] = Part(a) THEN NextPart(p) ELSE End(p, "failed")
          /\ UNCHANGED <<stored, faults>>
    /\ Written(p)

\* The message and its state in one batch.  An existing message is checked,
\* a plain conflict ends the run.
PutPair(p) ==
    LET writes == Pair(Now(p)) IN
    /\ proc[p].pc = "pair"
    /\ \/ /\ CanCreate(writes) /\ Create(writes)
          /\ (NextMessage(p) /\ UNCHANGED faults) \/ Lost(p)
       \/ /\ ~CanCreate(writes)
          /\ Goto(p, "check") \/ End(p, "failed")
          /\ UNCHANGED <<stored, faults>>
    /\ Written(p)

\* verifyExistingMessage: the blob and the immutable record ...
MessageHeld(m) ==
    /\ Has(<<"message", m>>)
    /\ Readable(stored[<<"message", m>>].raw)
    /\ stored[<<"message", m>>] = Message(m)

CheckMessage(p) ==
    /\ proc[p].pc = "check"
    /\ IF MessageHeld(Now(p)) THEN Goto(p, "checkState") ELSE End(p, "failed")
    /\ ReadOnly

\* ... and the state, which must be as it was imported
StateHeld(m) == Has(<<"state", m>>) /\ stored[<<"state", m>>] = State(m)

CheckState(p) ==
    /\ proc[p].pc = "checkState"
    /\ IF StateHeld(Now(p)) THEN NextMessage(p) ELSE End(p, "failed")
    /\ ReadOnly

-----------------------------------------------------------------------------
(* ListRecords, for the verification and the rebuild                       *)

ListPage(p) ==
    /\ proc[p].pc = "page"
    /\ proc' = [proc EXCEPT ![p].list = NextPage(@), ![p].pc = "items"]
    /\ ReadOnly

ListItems(p) ==
    /\ proc[p].pc = "items"
    /\ IF Unchanged(proc[p].list)
         THEN proc' = [proc EXCEPT ![p].list = WithPage(@),
                                   ![p].pc = IF proc[p].list.last THEN "listed" ELSE "page"]
         ELSE End(p, "failed")
    /\ ReadOnly

Listed(p, c) == proc[p].pc = "listed" /\ proc[p].list.of = c
Got(p) == proc[p].list.got

-----------------------------------------------------------------------------
(* Verify                                                                  *)

\* Every listed message is a source message, and none is missing
VerifyMessages(p) ==
    /\ p \in Importers /\ Listed(p, "message")
    /\ proc' = [proc EXCEPT ![p] = AtVerify([@ EXCEPT !.bad = DOMAIN Got(p) # SourceMessages], 1)]
    /\ ReadOnly

AfterVerified(p, good) ==
    proc' = [proc EXCEPT ![p] = AtVerify([@ EXCEPT !.bad = proc[p].bad \/ ~good], @.n + 1)]

VerifyMessage(p) ==
    /\ proc[p].pc = "verify"
    /\ IF Now(p) \in DOMAIN Got(p) /\ MessageHeld(Now(p)) THEN Goto(p, "verifyState")
       ELSE AfterVerified(p, FALSE)
    /\ ReadOnly

VerifyState(p) ==
    /\ proc[p].pc = "verifyState"
    /\ AfterVerified(p, StateHeld(Now(p)))
    /\ ReadOnly

VerifyFolders(p) ==
    /\ p \in Importers /\ Listed(p, "folder")
    /\ LET good == Got(p) = [f \in SourceFolders |-> Folder(f)] IN
       proc' = [proc EXCEPT ![p].pc = "page", ![p].bad = @ \/ ~good, ![p].list = ListOf("state")]
    /\ ReadOnly

Passed(p) == ~proc[p].bad /\ DOMAIN Got(p) = SourceMessages

VerifyStates(p) ==
    /\ p \in Importers /\ Listed(p, "state")
    /\ End(p, IF Passed(p) THEN "passed" ELSE "failed")
    /\ ReadOnly

-----------------------------------------------------------------------------
(* Rebuild                                                                 *)

\* An existing destination is refused.  views[1] remembers what was stored.
BeginBuild(p) ==
    /\ p \in Builders /\ proc[p].pc \in {"idle", "failed"}
    /\ IF file[p] # "none" THEN End(p, "refused")
       ELSE proc' = [proc EXCEPT ![p] = [NoProc EXCEPT !.pc = "page", !.list = ListOf("folder"),
                                                       !.views = <<RecordsOf("state")>>]]
    /\ ReadOnly

\* Folders, then states, then messages
BuildList(p, c, next) ==
    /\ p \in Builders /\ Listed(p, c)
    /\ proc' = [proc EXCEPT ![p].views = Append(@, Got(p)), ![p].pc = "page", ![p].list = ListOf(next)]
    /\ ReadOnly

FolderView(p) == proc[p].views[2]
StateView(p) == proc[p].views[3]

\* A preserved UID belongs to the UIDVALIDITY of the one mailbox
IdentityFits(state, folders) ==
    \A f \in state.mailboxes :
        state.mailboxes = {f} /\ state.projection.uid > 0 =>
            state.projection.validity = folders[f].validity

\* The record graph is consistent: no dangling folder, state or message
GraphFits(folders, states, messages) ==
    /\ \A m \in DOMAIN states :
        states[m].mailboxes \subseteq DOMAIN folders /\ IdentityFits(states[m], folders)
    /\ DOMAIN messages = DOMAIN states

LiveIn(states, f) == {m \in DOMAIN states : ~states[m].tombstone /\ f \in states[m].mailboxes}
Preserves(state) == state.projection.uid > 0 /\ Cardinality(state.mailboxes) = 1
Kept(states, f) == {m \in LiveIn(states, f) : Preserves(states[m])}

\* allocateProjectionIdentities: the UIDs of one folder.  A preserved UID is
\* kept; the others take the free numbers from 1 on, in the order of keys.
PreservedUIDs(states, f) == {states[m].projection.uid : m \in Kept(states, f)}

\* Mutant: fresh UIDs do not skip the preserved ones
FreshUIDUnskipped(states, f, m) ==
    1 + Cardinality({x \in LiveIn(states, f) \ Kept(states, f) : Rank[x] < Rank[m]})

FreshUID(states, f, m) ==
    LET before == Cardinality({x \in LiveIn(states, f) \ Kept(states, f) : Rank[x] < Rank[m]})
        free == 1 .. (maxUID + Cardinality(DOMAIN states)) \ PreservedUIDs(states, f)
    IN  CHOOSE u \in free : Cardinality({v \in free : v < u}) = before

UID(states, f, m) ==
    IF m \in Kept(states, f) THEN states[m].projection.uid ELSE FreshUID(states, f, m)

\* Duplicate preserved UIDs, or no UID left, end the rebuild
Allocatable(states, f) ==
    /\ Cardinality(PreservedUIDs(states, f)) = Cardinality(Kept(states, f))
    /\ \A m \in LiveIn(states, f) : UID(states, f, m) <= maxUID

\* Mutant: a deleted message comes back
RowsResurrected(states) ==
    [m \in DOMAIN states |->
        [revision |-> states[m].revision, uid |-> [f \in states[m].mailboxes |-> 0]]]

\* The message rows of the projection
Rows(states) ==
    [m \in {x \in DOMAIN states : ~states[x].tombstone} |->
        [revision |-> states[m].revision, uid |-> [f \in states[m].mailboxes |-> UID(states, f, m)]]]

\* The graph is checked before the file is made
CheckGraph(p) ==
    /\ p \in Builders /\ Listed(p, "message")
    /\ IF GraphFits(FolderView(p), StateView(p), Got(p))
         THEN Goto(p, "build") /\ file' = [file EXCEPT ![p] = "partial"]
         ELSE End(p, "failed") /\ UNCHANGED file
    /\ Provider /\ UNCHANGED <<faults, touched>>

\* The schema's UNIQUE(mailbox, uid)
DistinctUIDs(rows) ==
    \A m, x \in DOMAIN rows : \A f \in DOMAIN rows[m].uid \cap DOMAIN rows[x].uid :
        m # x => rows[m].uid[f] # rows[x].uid[f]

Allocated(p) == \A f \in DOMAIN FolderView(p) : Allocatable(StateView(p), f)

\* Identities, blobs, rows, and the commit of the transaction
WriteRows(p) ==
    /\ proc[p].pc = "build"
    /\ IF /\ Allocated(p) /\ DistinctUIDs(Rows(StateView(p)))
          /\ \A m \in DOMAIN Got(p) : Readable(Got(p)[m].raw)
         THEN proc' = [proc EXCEPT ![p].pc = "passed"]
              /\ file' = [file EXCEPT ![p] = Rows(StateView(p))]
         ELSE End(p, "failed") /\ file' = Cleaned(p)
    /\ Provider /\ UNCHANGED <<faults, touched>>

-----------------------------------------------------------------------------
(* Other clients of the mailbox                                            *)

\* Apply keeps the projection identity, Replace drops it
Changed(state, op) ==
    [state EXCEPT !.revision = @ + 1,
        !.mailboxes = IF op.mailbox # "same" THEN {op.mailbox} ELSE @,
        !.tombstone = op.operation = "tombstone",
        !.keywords = IF op.operation = "flag" THEN @ \cup {"$flagged"} ELSE @,
        !.projection = IF op.operation = "replace" THEN NoIdentity ELSE @]

\* A change of state by the viewer or the relay, through compare-and-swap
Change(m, op) ==
    /\ Has(<<"state", m>>) /\ ~stored[<<"state", m>>].tombstone
    /\ stored[<<"state", m>>].revision < maxRevision
    /\ op.mailbox # "same" => Has(<<"folder", op.mailbox>>)
    /\ Put(<<"state", m>>, Changed(stored[<<"state", m>>], op))
    /\ touched' = TRUE /\ UNCHANGED <<space, proc, file, faults>>

\* ensureFolder of the agent
AgentFolder(f) ==
    /\ space = "private" /\ ~Has(<<"folder", f>>)
    /\ Create([a \in {<<"folder", f>>} |-> [name |-> f, validity |-> StableValidity[f]]])
    /\ touched' = TRUE /\ UNCHANGED <<space, proc, file, faults>>

-----------------------------------------------------------------------------

Init ==
    /\ space \in {"absent", "public"} /\ stored = [a \in {} |-> 0]
    /\ proc \in [Processes -> {NoProc, [NoProc EXCEPT !.pc = "absent"]}]
    /\ file = [p \in Builders |-> "none"] /\ faults = 0 /\ touched = FALSE

Import(p) ==
    \/ Begin(p) \/ ListSpaces(p) \/ CreateSpace(p) \/ VerifySpace(p)
    \/ GetFolder(p) \/ CreateFolder(p)
    \/ GetMessage(p) \/ GetOrphan(p) \/ GetPart(p) \/ PutPart(p) \/ PutPair(p)
    \/ CheckMessage(p) \/ CheckState(p)
    \/ ListPage(p) \/ ListItems(p)
    \/ VerifyMessages(p) \/ VerifyMessage(p) \/ VerifyState(p) \/ VerifyFolders(p) \/ VerifyStates(p)

Build(p) ==
    \/ BeginBuild(p) \/ ListPage(p) \/ ListItems(p)
    \/ BuildList(p, "folder", "state") \/ BuildList(p, "state", "message")
    \/ CheckGraph(p) \/ WriteRows(p)

Next ==
    \/ \E p \in Importers : Import(p)
    \/ \E p \in Builders : Build(p)
    \/ \E p \in Processes : Fault(p)
    \/ \E m \in SourceMessages, op \in UserOps : Change(m, op)
    \/ \E f \in SourceFolders : AgentFolder(f)

\* An importer keeps going, and its operator runs it again when it failed
Fairness == \A p \in Importers : WF_vars(Import(p))

Spec == Init /\ [][Next]_vars

-----------------------------------------------------------------------------
(* Properties                                                              *)

Collections == {"folder", "message", "state", "chunk", "manifest", "index"}

\* Every variable keeps its shape; the records are those the code writes.
TypeOK ==
    /\ space \in {"absent", "private", "public"}
    /\ \A a \in DOMAIN stored : a[1] \in Collections
    /\ \A f \in Keys("folder") : stored[<<"folder", f>>].validity \in Nat \ {0}
    /\ \A m \in Keys("state") : stored[<<"state", m>>].revision \in 1 .. maxRevision
    /\ \A p \in Processes : proc[p].k \in 1 .. Len(Plan(p)) + 1
    /\ faults \in 0 .. maxFaults

\* At every moment, and so wherever an importer dies, a message that can be
\* seen has its state and a body that can be read back, and a blob that is
\* indexed is whole: the order of UploadBlob's records and the atomic pair
\* leave no half message behind.
AlwaysRecoverable ==
    /\ Keys("message") = Keys("state")
    /\ \A m \in Keys("message") : Readable(stored[<<"message", m>>].raw)
    /\ \A b \in Keys("index") : Readable(b)

\* A run that passed leaves every folder and message of the source in a
\* private space; a state differs from the source only when another client
\* wrote to the mailbox.
PassedMeansComplete ==
    \A p \in Importers : proc[p].pc = "passed" =>
        /\ space = "private"
        /\ \A f \in SourceFolders : Has(<<"folder", f>>) /\ stored[<<"folder", f>>] = Folder(f)
        /\ \A m \in SourceMessages : MessageHeld(m) /\ Has(<<"state", m>>)
        /\ ~touched => \A m \in SourceMessages : StateHeld(m)

\* A rebuilt projection holds every message that was live when the rebuild
\* began unless it was tombstoned since, in its state of then or a later one,
\* and no message that was deleted before: the collections are read one after
\* the other while others write.
ProjectionFaithful ==
    \A p \in Builders : proc[p].pc = "passed" =>
        LET before == proc[p].views[1] IN
        \A m \in DOMAIN before :
            IF before[m].tombstone THEN m \notin DOMAIN file[p]
            ELSE IF m \in DOMAIN file[p] THEN file[p][m].revision >= before[m].revision
            ELSE stored[<<"state", m>>].tombstone

\* allocateProjectionIdentities gives no UID of a folder twice, preserved or
\* fresh: no rebuild fails on the database's UNIQUE constraint.
UIDsDistinct ==
    \A p \in Builders : proc[p].pc = "build" /\ Allocated(p) => DistinctUIDs(Rows(StateView(p)))

\* What the mailbox holds, for VersionedStore; every import is a source
Held == [m \in Keys("state") |->
    [revision |-> stored[<<"state", m>>].revision, live |-> ~stored[<<"state", m>>].tombstone]]
SourceOf(m) == m
Promise == INSTANCE VersionedStore WITH Source <- SourceOf, held <- Held

\* The migration keeps the mailbox's promise while others use it: an import,
\* run again or raced, never takes back a change of state or a tombstone.
ImplementsVersionedStore == Promise!Spec

\* An interrupted migration resumes: however the runs are interrupted, and
\* whatever they get in each other's way, each of them ends in a pass,
\* unless another client wrote to the mailbox or the space is not private.
Resumes == <>(touched \/ space = "public" \/ \A p \in Importers : proc[p].pc \in {"passed", "absent"})

\* What "move state survives a clean rebuild" says: a rebuild whose listings
\* show one moment of the mailbox is not refused.
MovedSurvivesRebuild ==
    \A p \in Builders :
        Listed(p, "message") /\ FolderView(p) = RecordsOf("folder") /\ StateView(p) = RecordsOf("state")
            => GraphFits(FolderView(p), StateView(p), Got(p))

==============================================================================
