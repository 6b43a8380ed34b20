---------------------------- MODULE AuthorityV3 ----------------------------
(***************************************************************************)
(* The v3 mailbox authority: internal/authorityv3's OfficialEngine and the *)
(* checks its HTTP handler puts around it, over the official Spaces        *)
(* provider.  Any number of Store and AppendState requests run at once;    *)
(* each provider call is a step of its own, may fail, and may take effect  *)
(* although its response is lost.  The engine keeps no state between       *)
(* requests and takes no lock: the provider's create-only atomic batch and *)
(* the operation claims are all that orders two writers.                   *)
(*                                                                         *)
(* A snapshot is one atomic read of the repository (latest commit, CAR,    *)
(* latest commit again; a drift fails the read).  SnapshotID is a digest   *)
(* of the commit, modelled by the number of batches committed so far.      *)
(***************************************************************************)
EXTENDS CausalLog

CONSTANTS
    Requests,           \* one Store or AppendState request each
    None,               \* a request that has built no revision
    VersionOp,          \* [Versions -> Ops]: "version-<fingerprint>"
    ClientOps,          \* operation ids the relay uses for its mutations
    MailboxChoices,     \* the non-empty folder sets a request may name
    KeywordChoices      \* the keyword sets a request may name

ASSUME AuthorityAssumption ==
    /\ Requests \subseteq Keys
    /\ VersionOp \in [Versions -> Ops \ {Initial}]
    /\ ClientOps \subseteq Ops
    /\ MailboxChoices \subseteq (SUBSET Folders) \ {{}}
    /\ KeywordChoices \subseteq SUBSET Keywords

VARIABLES
    blobs,              \* message bytes uploaded so far, by fingerprint
    folders,            \* the standard folders have been initialised
    commit,             \* number of batches committed
    pc,                 \* where each request is
    input,              \* what each request asked for
    built               \* the revision record each request built

\* The repository itself is CausalLog's revs, claims and msgs
repo == logVars
vars == <<revs, claims, msgs, blobs, folders, commit, pc, input, built>>

\* ErrConflict has two sources: "collision" is the one from stateAppendExists
Answered == {"ok", "conflict", "collision", "invalid", "limit", "failed"}
Running == {"ensure", "lookup", "upload", "check", "commit", "inspect", "verify"}

NoState ==
    [version |-> NoVersion, mailboxes |-> {}, keywords |-> {},
     deletePending |-> FALSE, tombstone |-> FALSE, heads |-> {},
     height |-> 0, count |-> 0]

NoInput ==
    [kind |-> "none", lm |-> None, version |-> NoVersion, mailboxes |-> {},
     keywords |-> {}, deletePending |-> FALSE, tombstone |-> FALSE,
     op |-> Initial, snapshot |-> 0, expected |-> NoState]

Of(m) == RevisionsOf(revs, m)
Current(m) == Reduced(Of(m))

(***************************************************************************)
(* readOfficialSnapshot succeeds: the folder set is complete and every     *)
(* message that has records reduces.  One that does not fails the read of  *)
(* the whole source.                                                       *)
(***************************************************************************)
Readable ==
    /\ folders
    /\ \A m \in Messages : Of(m) # {} =>
        /\ CausallyValid(Of(m), ClaimsOf(claims, m), VersionsOf(msgs, m))
        /\ Cardinality(Of(m)) <= maxRevisionCount

\* validSnapshot: the handler serves only states within the contract's limits
Served ==
    /\ Readable
    /\ \A m \in Messages : Of(m) # {} =>
        /\ Cardinality(Heads(Of(m))) <= maxParents
        /\ Cardinality(PresentKeywords(Of(m))) <= maxKeywords

\* CanonicalRevisionBytes refuses to encode a record above these limits
Encodable(rec) ==
    /\ Cardinality(rec.parents) <= maxParents
    /\ Cardinality(rec.on \cup rec.off) <= maxKeywords

Goto(r, label) == pc' = [pc EXCEPT ![r] = label]

-----------------------------------------------------------------------------
(* Store *)

StoreBegin(r) ==
    /\ pc[r] = "idle"
    /\ \E v \in Versions, box \in MailboxChoices, kw \in KeywordChoices :
        input' = [input EXCEPT ![r] =
            [NoInput EXCEPT !.kind = "store", !.lm = Owner[v], !.version = v,
                            !.mailboxes = box, !.keywords = kw]]
    /\ Goto(r, "ensure")
    /\ UNCHANGED <<repo, blobs, folders, commit, built>>

(***************************************************************************)
(* ensureFolders, as one step: after it the standard folders exist.  Its   *)
(* own race (inspect, create the missing ones, one retry) is FolderInit.   *)
(***************************************************************************)
EnsureFolders(r) ==
    /\ pc[r] = "ensure"
    /\ folders' = TRUE
    /\ commit' = IF folders THEN commit ELSE commit + 1
    /\ Goto(r, "lookup")
    /\ UNCHANGED <<repo, blobs, input, built>>

\* Mutant: the first revision is named after its version, like later ones
InitialRevisionPerVersion(r) ==
    [key |-> r, lm |-> input[r].lm, op |-> VersionOp[input[r].version],
     parents |-> {}, rev |-> 1,
     version |-> input[r].version, mailboxes |-> input[r].mailboxes,
     on |-> input[r].keywords, off |-> {}, nilKeywords |-> FALSE,
     deletePending |-> "unset", tombstone |-> FALSE]

\* The first revision of a message, and a later version on top of its heads
InitialRevision(r) ==
    [key |-> r, lm |-> input[r].lm, op |-> Initial, parents |-> {}, rev |-> 1,
     version |-> input[r].version, mailboxes |-> input[r].mailboxes,
     on |-> input[r].keywords, off |-> {}, nilKeywords |-> FALSE,
     deletePending |-> "unset", tombstone |-> FALSE]

VersionRevision(r, prior) ==
    [InitialRevision(r) EXCEPT
        !.op = VersionOp[input[r].version], !.parents = prior.heads,
        !.rev = prior.height + 1, !.off = prior.keywords \ input[r].keywords]

\* The snapshot already has the version: the receipt is given at once
StoreFound(r) ==
    /\ input[r].version \in msgs
    /\ Goto(r, "ok")
    /\ UNCHANGED built

\* A tombstoned message takes no new version; rejected before any write
StoreTombstoned(r) ==
    /\ input[r].version \notin msgs
    /\ Tombstoned(Of(input[r].lm))
    /\ Goto(r, "conflict")
    /\ UNCHANGED built

\* Mutant: a version is built without looking at the tombstone
StoreNewUnchecked(r) ==
    /\ input[r].version \notin msgs
    /\ built' = [built EXCEPT ![r] =
            IF Of(input[r].lm) = {} THEN InitialRevision(r)
            ELSE VersionRevision(r, Current(input[r].lm))]
    /\ Goto(r, "upload")

StoreNew(r) ==
    /\ input[r].version \notin msgs
    /\ ~Tombstoned(Of(input[r].lm))
    /\ built' = [built EXCEPT ![r] =
            IF Of(input[r].lm) = {} THEN InitialRevision(r)
            ELSE VersionRevision(r, Current(input[r].lm))]
    /\ Goto(r, "upload")

StoreLookup(r) ==
    /\ pc[r] = "lookup"
    /\ Readable
    /\ StoreFound(r) \/ StoreTombstoned(r) \/ StoreNew(r)
    /\ UNCHANGED <<repo, blobs, folders, commit, input>>

\* UploadMessageBlob, then buildStateCreates, which may refuse the record
Upload(r) ==
    /\ pc[r] = "upload"
    /\ blobs' = blobs \cup {input[r].version}
    /\ Goto(r, IF Encodable(built[r]) THEN "commit" ELSE "limit")
    /\ UNCHANGED <<repo, folders, commit, input, built>>

-----------------------------------------------------------------------------
(* AppendState *)

(***************************************************************************)
(* The relay reads a served snapshot and composes a mutation of one of its *)
(* messages; validMutation refuses one whose message is already full.      *)
(***************************************************************************)
AppendBegin(r) ==
    /\ pc[r] = "idle"
    /\ Served
    /\ \E m \in Messages, op \in ClientOps, kw \in KeywordChoices,
          box \in MailboxChoices, v \in Versions, del, tomb \in BOOLEAN :
        /\ Of(m) # {}
        /\ Current(m).count < maxRevisionCount
        /\ Owner[v] = m
        /\ input' = [input EXCEPT ![r] =
            [kind |-> "append", lm |-> m, version |-> v, mailboxes |-> box,
             keywords |-> kw, deletePending |-> del, tombstone |-> tomb,
             op |-> op, snapshot |-> commit, expected |-> Current(m)]]
    /\ Goto(r, "check")
    /\ UNCHANGED <<repo, blobs, folders, commit, built>>

\* The relay sends the same mutation again, for a response it did not get
AppendResend(r) ==
    /\ pc[r] = "idle"
    /\ \E q \in Requests :
        /\ input[q].kind = "append"
        /\ input' = [input EXCEPT ![r] = input[q]]
    /\ Goto(r, "check")
    /\ UNCHANGED <<repo, blobs, folders, commit, built>>

MutationRevision(r) ==
    LET in == input[r]
    IN  [key |-> r, lm |-> in.lm, op |-> in.op, parents |-> in.expected.heads,
         rev |-> in.expected.height + 1, version |-> in.version,
         mailboxes |-> in.mailboxes, on |-> in.keywords,
         off |-> in.expected.keywords \ in.keywords, nilKeywords |-> FALSE,
         deletePending |-> IF in.deletePending THEN "yes" ELSE "no",
         tombstone |-> FALSE]

TombstoneRevision(r) ==
    [MutationRevision(r) EXCEPT
        !.version = NoVersion, !.mailboxes = {}, !.on = {}, !.off = {},
        !.nilKeywords = TRUE, !.deletePending = "unset", !.tombstone = TRUE]

\* The snapshot and the message are still the ones the mutation names
Unmoved(r) ==
    /\ commit = input[r].snapshot
    /\ Of(input[r].lm) # {}
    /\ Current(input[r].lm) = input[r].expected

\* A tombstone must carry exactly the state it will leave behind
TombstoneExact(in) ==
    /\ in.version = in.expected.version /\ in.mailboxes = in.expected.mailboxes
    /\ in.keywords = in.expected.keywords /\ ~in.deletePending

AppendConflict(r) ==
    /\ \/ ~Unmoved(r)
       \/ Tombstoned(Of(input[r].lm))
       \/ input[r].tombstone /\ ~TombstoneExact(input[r])
    /\ Goto(r, "conflict")
    /\ UNCHANGED built

AppendInvalid(r) ==
    /\ Unmoved(r) /\ ~Tombstoned(Of(input[r].lm))
    /\ ~input[r].tombstone /\ input[r].version \notin msgs
    /\ Goto(r, "invalid")
    /\ UNCHANGED built

AppendBuild(r) ==
    LET rec == IF input[r].tombstone THEN TombstoneRevision(r) ELSE MutationRevision(r)
    IN  /\ Unmoved(r) /\ ~Tombstoned(Of(input[r].lm))
        /\ IF input[r].tombstone THEN TombstoneExact(input[r]) ELSE input[r].version \in msgs
        /\ built' = [built EXCEPT ![r] = rec]
        /\ Goto(r, IF Encodable(rec) THEN "commit" ELSE "limit")

AppendCheck(r) ==
    /\ pc[r] = "check"
    /\ Readable
    /\ AppendConflict(r) \/ AppendInvalid(r) \/ AppendBuild(r)
    /\ UNCHANGED <<repo, blobs, folders, commit, input>>

-----------------------------------------------------------------------------
(* The provider batch and its aftermath, common to both operations.         *)

\* Mutant: every batch writes a message record, a tombstone's too
NewVersionAlways(r) == {built[r].version}

\* The message record a Store's batch creates besides revision and claim
NewVersion(r) == IF input[r].kind = "store" THEN {input[r].version} ELSE {}

ClaimsFor(rec) == {c \in claims : c.lm = rec.lm /\ c.op = rec.op}

SomeRecordExists(r) ==
    \/ built[r].key \in KeysOf(revs)
    \/ ClaimsFor(built[r]) # {}
    \/ NewVersion(r) \cap msgs # {}

\* CreateBatch commits all records or none; the response may still be lost
CreateBatch(r) ==
    /\ pc[r] = "commit"
    /\ ~SomeRecordExists(r)
    /\ revs' = revs \cup {Decoded(built[r])}
    /\ claims' = claims \cup {ClaimOf(built[r])}
    /\ msgs' = msgs \cup NewVersion(r)
    /\ commit' = commit + 1
    /\ Goto(r, "verify") \/ Goto(r, "failed")
    /\ UNCHANGED <<blobs, folders, input, built>>

\* Mutant: an existing record is taken for the answer to this request
BatchExistsIsDone(r) ==
    /\ pc[r] = "commit"
    /\ SomeRecordExists(r)
    /\ Goto(r, "ok")
    /\ UNCHANGED <<repo, blobs, folders, commit, input, built>>

\* repository.ErrExists: a record of the batch is already there
BatchExists(r) ==
    /\ pc[r] = "commit"
    /\ SomeRecordExists(r)
    /\ Goto(r, "inspect")
    /\ UNCHANGED <<repo, blobs, folders, commit, input, built>>

\* stateAppendExists: the claim's revision must be this request's, replayed
Inspect(r) ==
    /\ pc[r] = "inspect"
    /\ LET replayed == \E c \in ClaimsFor(built[r]), s \in revs :
                           s.key = c.key /\ VerifyRevisionRetry(built[r], s)
       IN  Goto(r, IF replayed THEN "verify" ELSE "collision")
    /\ UNCHANGED <<repo, blobs, folders, commit, input, built>>

\* Store's closing snapshot: the version must be there and be what is selected
StoreVerify(r) ==
    LET in == input[r]
        now == Current(in.lm)
        selected == /\ now.version = in.version
                    /\ now.mailboxes = in.mailboxes /\ now.keywords = in.keywords
    IN  /\ pc[r] = "verify" /\ in.kind = "store"
        /\ Readable
        /\ Goto(r, IF in.version \notin msgs THEN "failed"
                   ELSE IF selected THEN "ok" ELSE "conflict")
        /\ UNCHANGED <<repo, blobs, folders, commit, input, built>>

\* The state AppendState accepts as the mutation's result
AppendResult(r) ==
    LET in == input[r]
        now == Current(in.lm)
    IN  /\ commit # in.snapshot
        /\ now.version = in.version /\ now.mailboxes = in.mailboxes
        /\ now.keywords = in.keywords
        /\ now.deletePending = in.deletePending /\ now.tombstone = in.tombstone
        /\ now.height = in.expected.height + 1
        /\ now.count = in.expected.count + 1

\* Mutant: only the values are compared, not the position in the log
AppendVerifyValues(r) ==
    LET now == Current(input[r].lm)
        same == /\ now.version = input[r].version /\ now.mailboxes = input[r].mailboxes
                /\ now.keywords = input[r].keywords
                /\ now.deletePending = input[r].deletePending
                /\ now.tombstone = input[r].tombstone
    IN  /\ pc[r] = "verify" /\ input[r].kind = "append"
        /\ Readable
        /\ Goto(r, IF same THEN "ok" ELSE "conflict")
        /\ UNCHANGED <<repo, blobs, folders, commit, input, built>>

AppendVerify(r) ==
    /\ pc[r] = "verify" /\ input[r].kind = "append"
    /\ Readable
    /\ Goto(r, IF ~AppendResult(r) THEN "conflict"
               ELSE IF Cardinality(Heads(Of(input[r].lm))) = 1 THEN "ok"
               ELSE "failed")             \* validMutationResult
    /\ UNCHANGED <<repo, blobs, folders, commit, input, built>>

-----------------------------------------------------------------------------

\* A provider error, an unreadable source, a cancelled context or a crash
Fail(r) ==
    /\ pc[r] \in Running
    /\ Goto(r, "failed")
    /\ UNCHANGED <<repo, blobs, folders, commit, input, built>>

Init ==
    /\ revs = {} /\ claims = {} /\ msgs = {}
    /\ blobs = {} /\ folders = FALSE /\ commit = 0
    /\ pc = [r \in Requests |-> "idle"]
    /\ input = [r \in Requests |-> NoInput]
    /\ built = [r \in Requests |-> None]

Next == \E r \in Requests :
    \/ StoreBegin(r) \/ EnsureFolders(r) \/ StoreLookup(r) \/ Upload(r)
    \/ AppendBegin(r) \/ AppendResend(r) \/ AppendCheck(r)
    \/ CreateBatch(r) \/ BatchExists(r) \/ Inspect(r)
    \/ StoreVerify(r) \/ AppendVerify(r) \/ Fail(r)

Spec == Init /\ [][Next]_vars

-----------------------------------------------------------------------------
(* Properties *)

StateType ==
    [version: Versions \cup {NoVersion}, mailboxes: SUBSET Folders,
     keywords: SUBSET Keywords, deletePending: BOOLEAN, tombstone: BOOLEAN,
     heads: SUBSET Keys, height: Nat, count: Nat]

InputType ==
    [kind: {"none", "store", "append"}, lm: Messages \cup {None},
     version: Versions \cup {NoVersion}, mailboxes: SUBSET Folders,
     keywords: SUBSET Keywords, deletePending: BOOLEAN, tombstone: BOOLEAN,
     op: Ops, snapshot: Nat, expected: StateType]

\* The type of the authority's state: repository, requests and their records
TypeOK ==
    /\ revs \subseteq Revision /\ claims \subseteq Claim /\ msgs \subseteq Versions
    /\ blobs \subseteq Versions /\ folders \in BOOLEAN /\ commit \in Nat
    /\ pc \in [Requests -> {"idle"} \cup Running \cup Answered]
    /\ input \in [Requests -> InputType]
    /\ built \in [Requests -> Revision \cup {None}]

(***************************************************************************)
(* No interleaving of Store and AppendState, no lost response and no retry *)
(* leaves a source the reducer rejects: the claim of official_engine.go's  *)
(* tombstone checks and of the operation claims of revision.go.            *)
(***************************************************************************)
NeverPoisoned == SourceReducible

(***************************************************************************)
(* Optimistic concurrency: of all the AppendState requests composed from   *)
(* the same state of a message, at most one mutation is acknowledged.  The *)
(* same mutation may be composed again from a later snapshot, after only   *)
(* other messages changed, and is then acknowledged as a replay.           *)
(***************************************************************************)
SingleWinner ==
    \A r, q \in Requests :
        /\ pc[r] = "ok" /\ input[r].kind = "append"
        /\ pc[q] = "ok" /\ input[q].kind = "append"
        /\ input[r].lm = input[q].lm /\ input[r].expected = input[q].expected
        => [input[r] EXCEPT !.snapshot = input[q].snapshot] = input[q]

(***************************************************************************)
(* What was acknowledged is in the repository for good: a verified Store's *)
(* message record, bytes and a revision selecting it; an AppendState's     *)
(* operation, on the parents it named and with the payload it carried.     *)
(***************************************************************************)
AcknowledgedDurable ==
    \A r \in Requests : pc[r] = "ok" =>
        LET in == input[r] IN
        IF in.kind = "store"
        THEN /\ in.version \in msgs \cap blobs
             /\ \E s \in Of(in.lm) : s.version = in.version
        ELSE \E s \in Of(in.lm) :
                /\ s.op = in.op /\ s.parents = in.expected.heads
                /\ s.tombstone = in.tombstone
                /\ ~s.tombstone => s.version = in.version /\ s.mailboxes = in.mailboxes

(***************************************************************************)
(* A message that reduces to a tombstone never comes back to life, however *)
(* many writers appended to it concurrently.                               *)
(***************************************************************************)
TombstoneFinal ==
    [][\A m \in Messages : Tombstoned(Of(m)) => Tombstoned(Of(m)')]_vars

\* The engine and the provider implement the abstract append-only log
ImplementsCausalLog == LogSpec

(***************************************************************************)
(* revision.go on VerifyRevisionRetry: "reconstructing an otherwise        *)
(* identical retry with a new timestamp returns the stored result".        *)
(***************************************************************************)
ReplayAccepted ==
    \A r \in Requests : pc[r] = "collision" =>
        ~ \E s \in revs : SameEvent(built[r], s)

(***************************************************************************)
(* limits_test.go: a "mutation whose result would exceed the reducer       *)
(* revision limit" must not be accepted.                                   *)
(***************************************************************************)
WithinRevisionLimit ==
    \A m \in Messages : Cardinality(Of(m)) <= maxRevisionCount

=============================================================================
