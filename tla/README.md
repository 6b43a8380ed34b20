# comail-space-host: TLA+ verification project

This directory specifies and checks the parts of comail-space-host in which
several requests, processes or failures meet: the append-only mailbox authority
(protocol v3) and the recovery read it rests on, the v2 mailbox with its agent,
migration and projections, the onboarding broker that provisions the mailbox
space and holds the OAuth sessions, and the encrypted vault. `PROJECT.json` lists
the components, the runs, the mutants, the source lines each definition models,
the findings, the hazards and the theorems.

Contents: [inventory](#inventory), [modules](#modules),
[runs and bounds](#runs-and-bounds), [proofs](#proofs), [findings](#findings),
[what is left out](#what-is-left-out), [plan](#plan).

## Inventory

| Component (under `src/internal`) | State | Operations | Hard behaviour |
|---|---|---|---|
| `mailboxstate/revision.go` | immutable revisions and operation claims of a message | `Reduce`, `VerifyRevisionRetry`, key derivation | concurrent heads, tombstones, last writer wins; one bad record fails the whole source |
| `authorityv3` | none between requests; the provider's repository | `Store`, `AppendState`, `Snapshot` | unlocked read-check-create, lost responses, replays |
| `authorityv3` folder initialisation | initial folder revisions and claims | `ensureInitialFolderRecords` | first requests racing, a single retry |
| `mailboxstate/folder_revision.go` | folder revisions | `ReduceFolder`, `ValidateFolderSet` | the same as for messages, and unique names |
| `mailboxstate/officialspaces_*.go` | a decoded, verified source, its blobs in memory | reduction of all records, visit, close | completeness of an inventory; closing under a visit |
| `providers/officialspaces` | a client; target and credentials | `CreateBatch`, `InspectRecord`, repository and blob read | commits and lag during a read of many requests |
| `onboardingbroker` | three records per account, flow records | start, entry, two callbacks, revoke | stale compare-and-swap, unreachable provider, crashes, bounds |
| `oauthclient` | sessions in the vault | start, finish, resume, revoke | revocation that is not confirmed |
| `authvault` | one encrypted file | get, create, set, compare-and-swap, compare-and-delete, consume, delete | several processes, crash, power loss |
| `shadowagent`, `mailboxstate/state.go`, `repository`, `memory` | mutable records (v2) | capture, mirror, state, inventory | compare-and-swap by CID, captures of one source racing, pages of a growing list |
| `providers/happyview`, `providers/rsky` | clients of the v2 contract | space, batches, blobs made of records | interruption between the parts of a blob |
| `migrate`, `sqliteimport`, `vandelayimport` | nothing but what is already stored | copy, verify | resumption, two runs at once, other clients |
| `projection` | a SQLite file | rebuild from v2 records, rebuild from a v3 source | torn listings, UIDs, two rebuilds of one file |
| `spaceprovision`, `spaceproof` | the mailbox space at the provider | `Ensure`, `ProveRead` | a space somebody else made |
| `spacecredential`, `serviceauth`, `authoritycert` | tokens and certificates | exchange, verify | expiry |
| `mailboxviewer`, `securefile`, `synthetic`, `mailbox`, `cmd/*` | | rendering, files, data types, wiring | |

How they interact. The relay calls the authority's HTTP handler, which calls
`OfficialEngine`; the engine reads the repository through the Spaces client and
`mailboxstate`, and writes with one create-only batch. No two requests share
anything but the provider's repository. The relay also calls the broker's start
and revoke; browsers call its entry and callback pages. The broker's handlers
share only the vault, and reach the provider through `oauthclient`. Several
processes open the same vault file. The v2 agent, the viewer, the migration and
the v2 rebuild share one HappyView space and nothing else.

What makes each part correct:

* a source that the writers produced can always be reduced, because one message
  that cannot be makes every later read and write of the mailbox fail;
* an acknowledged write stays, and of the mutations composed from one state at
  most one is acknowledged;
* a tombstone is final;
* the first initialisation of the folders leaves all of them or none, whoever
  races;
* no record forgets a session that the provider still honours, and "revoked"
  means revoked;
* OAuth states are single use, also after a power loss;
* the mailbox space is the exact one, and the powerful grant is gone, before the
  steady stage of the onboarding begins;
* a source that is handed out is one committed state, whatever was committed
  during the read, and a visitor of it never sees it half cleared;
* a v2 message, its state and its bytes appear together; its state moves through
  consecutive revisions and stops at a tombstone; an operation is written once;
* an interrupted migration resumes, a migration that passed is complete, and a
  projection is what the mailbox was;
* every handler, every vault call and every inventory walk ends.

## Modules

| Module | Models | Remarks |
|---|---|---|
| `Revisions` | `revision.go` | records, acceptance by `Reduce`, the reduced state |
| `CausalLog` | abstract | what the writers promise: a log that grows by causally valid revisions |
| `AuthorityV3` | `official_engine.go`, `handler.go` | extends `CausalLog`; implements `LogSpec` |
| `FolderInit` | `ensureInitialFolderRecords` | justifies the one step `EnsureFolders` of `AuthorityV3` |
| `RecordStore` | abstract and `store.go`'s operations | atomic named records; what the broker assumes of the vault |
| `AuthVault` | `store.go` | locks, file replacement and failures; implements `StoreSpec` |
| `Broker` | `onboardingbroker`, `oauthclient`, `spaceprovision`, `spaceproof` | the vault's operations are atomic here, as `AuthVault` shows |
| `FolderRevisions` | `folder_revision.go` | extends `Revisions`; `ReduceFolder`, `ValidateFolderSet` |
| `SnapshotRead` | abstract | an atomic read of the latest committed state |
| `Recovery` | `snapshot.go`, `blob_stream.go`, `officialspaces_recovery.go`, `officialspaces_content.go`, `projection/officialspaces.go` | implements `SnapshotRead`, which is the snapshot `AuthorityV3` takes in one step |
| `Repository` | `repository`, `memory` | the v2 contract: batches, compare-and-swap, blobs |
| `VersionedStore` | abstract | what the v2 mailbox promises about a message |
| `ShadowAgent` | `shadowagent`, `mailboxstate/state.go` | over `Repository`; implements `VersionedStore` |
| `HappyView` | `providers/happyview` | records, pages and blobs made of records |
| `Migration` | `migrate`, `projection/projection.go` | over `HappyView`; implements `VersionedStore` |
| `MC*` | | small instances for TLC |
| `*Proofs` | | theorems about `CausalLog`, `AuthorityV3`, `FolderInit`, `AuthVault`, `Broker`, `Recovery`, `ShadowAgent`, `Migration` |

Four abstract specifications are implemented: `CausalLog` by `AuthorityV3`,
`RecordStore` by `AuthVault`, `SnapshotRead` by `Recovery`, and `VersionedStore`
twice, by `ShadowAgent` and by `Migration`, the two ways into one v2 mailbox.

`TypeOK` of a module gives the shape of its state. The runs spend their checks on
the other properties; only `AuthorityStore` checks types, which are proved as well.

Definitions named `Mutant: ...` in their comments are single plausible bugs; TLC
must refute the property that guards against each of them when it replaces the
definition it mutates.

### Revisions and CausalLog

A revision is a record of the fields `RevisionRecord` has. Its rkey is a hash of
its content and is an opaque member of `Keys`; the claim's key is a function of
message and operation, so a claim is the triple it names. Operation ids are
integers because `Reduce` orders by them. `Before` is the replay order, `Last`
its greatest member, and each field of the reduced state is what the last
revision that assigns the field says, which is what the loop of `Reduce`
computes. `nilKeywords` tells a nil slice from an empty one, which matters to
`reflect.DeepEqual` and nowhere else. The `causalTombstone` loop is stated by a
closed set of revisions instead of a recursion. Operators are not recursive, so
that the modules can be proved about.

`CausalLog` is the abstract specification: each step adds one revision with its
claim, and at most one version, and the revision is the message's complete
root, named "initial", or follows from stored revisions that carry no tombstone.

### AuthorityV3

`revs`, `claims`, `msgs` and `blobs` are the repository, `folders` says that the
standard folders exist, `commit` counts batches and stands for `SnapshotID`. A
request goes through the states of `pc`; each provider call is one step. A
snapshot is one atomic read. `CreateBatch` commits and then the response arrives
(`verify`) or is lost (`failed`); `BatchExists` is `repository.ErrExists`.
`Fail` is any error, cancellation or crash. `AppendResend` is the relay sending
a mutation again, in another request, at any time. A request's identity is the
key of the revision it may write: two requests never build the same bytes
because `CreatedAt` differs.

Operation ids of the relay and the engine's own "version-..." ids live in one
space of claims: `ClientOps` may overlap with the range of `VersionOp`, and the
theorems do not assume that it does not.

The only admissible folders are the standard ones, which are never tombstoned by
this engine (new custom folders are refused), so the folder checks of a mutation
reduce to `MailboxChoices`.

### FolderInit

One request inspects the folders one at a time (claim, then revision), collects
the missing ones, creates them in one batch, and inspects everything once more
when the batch collides. The order of the folders is left open. A collision after
the retry, or a claim without its revision, is an answer of its own
(`collision`, `broken`), which `RetrySuffices` excludes.

### AuthVault and RecordStore

`records` is the file a reader finds and `safe` the contents its directory entry
names on stable storage. A call takes the mutex of its process, the lock file,
loads and changes the contents, renames, synchronises. `Crash(p)` kills a
process: its mutex and its lock are gone. `PowerLoss` kills all of them and may
undo a rename that was not synchronised. Reads and early errors return without
writing. `by` marks a stored record with the call that wrote it, so that two
records with equal bytes can be told apart in `TakenOnce`; it is not part of the
vault. Each mutating operation prunes expired records where the code does, and
only there.

`RecordStore!StoreSpec` performs each operation in one step. `Perform` reads the
clock at some earlier time, because the call looks at it before it renames.

### Broker

One account. `live` are the sessions the provider honours, `local` those whose
tokens the vault has. A session is named after the callback that obtained it.
`vault` holds the account's three records: `ready` (active and retired
sessions), `steady` and `provisioning` (discarded sessions). `job` is the local
state of a handler: where it is, the record it works on, the value it read, the
sessions it has yet to retire, and those it could not. Each store call and each
revocation is one step. A list of session ids is a set: an id enters a list once
and lists only lose members afterwards, so equal sets are equal bytes.

`Retire` covers success, failure before, and failure after the provider's
revocation. Errors of the store are in `RevokeError` (revoke goes on with the
next record), in `PutError` (the swap is effective and yet reported as failed),
in the alternatives of `CleanRead` and `CleanSwap` (cleanups ignore errors), and
in `Fail`.

A provisioning callback runs `Ensure` as its three requests: `CreateSpace` (made,
or the provider says it exists), `VerifyConfig`, `VerifyMembers`; then the grant
is revoked and deleted (`CleanupSession`), whatever came out. `space` is what the
provider has. `OwnerChanges` is another client of the owner: it may make the
space, in any configuration, or repair it; it does not spoil an exact space,
because no check of the broker could outlive that. `ProveSteady` is the live
proof of a new steady session; `CheckResume` and `CheckAnswer` are start's check
of the active session, with the answers the code tells apart (good, reauthorise,
unavailable). A session request saves the provider's new nonce, which can put a
session back into `local` that a revocation has just deleted: only the tokens
come back, never the grant. A session that fails its validation on resume would be
revoked by `CheckSteady` itself; with one configuration the check gives the same
result as when the session was accepted, so it does not occur here.

### FolderRevisions and Recovery

Folder revisions have the shape of message revisions, with a name, a role and a
merge marker instead of versions and keywords. `Fold` is the case folding of
`ValidateFolderSet` and `Lower` the one of the rebuild.

`history` is the sequence of committed states; a commit is its position. `Commit`
appends any valid change of another client that saw any earlier part of the
folder or message it changes, so that heads diverge as they do at the provider.
Custom folders are made by other clients only and are marked external in the map.

The read is `ReadBefore`, `ReadCAR`, `ReadAfter`, `Reduce`, `StartBlobs`,
`ReadBlob` for each blob, `Finish`. The commit endpoint answers from the present
state; the export may lag, and commit and index inside it may come from different
moments, which `VerifyFullSourceCAR` catches. `source` is the
`ContentVerifiedSource`: visits run outside its lock and are counted, `Close`
clears it at once or leaves that to the last visit (`finishVisit`). A rebuild goes
through the calls of `rebuildOfficialSpaces` in their order; `file` is the
destination, which all rebuilds of the instance share. `Crash` ends the process
and leaves the file as it is.

### Repository and ShadowAgent

`records` is a function on pairs of collection and key. A CID is a hash of the
value, so comparing CIDs is comparing values. The fingerprint of a message is the
pair of source key and bytes; inbound mail has no source key. A request is
`capture`, `mirror` or a state change; each call of the repository is one step,
`Fail` is an error, cancellation or crash before the call, and a writing call may
take effect and yet be reported as failed. State changes are the relay's
(`Replace`) and the viewer's (`Apply`); both go through `ReadState` and
`PutState`. `applied` counts writes per operation id and is not part of the
program. `walk` is a relay that asks for page after page; a page reads folders and
states anew and is cut by number and by size.

### HappyView and Migration

A body is stored as its chunks, a manifest and an index record, in the order of
`UploadBlob`. `stored` holds all records. A listing takes pages in the order of
keys and then reads each listed record, which must not have changed.

An importer (`migrate.Run`) ensures the space, stores folders, then messages with
their states, then verifies everything by listing. It keeps no progress of its
own: `Fault` ends it at any step, and it starts again from the beginning.
`Change` is a state change of the viewer or the agent and `AgentFolder` the
agent's `ensureFolder`, each in one step because `ShadowAgent` already splits them;
`touched` records that one happened. A rebuild lists folders, states and messages,
checks that they fit, allocates UIDs and writes its file in one transaction.

## Runs and bounds

| Run | Shows | Instance |
|---|---|---|
| `AuthorityStore` | the source stays reducible, acknowledged writes stay, one winner per expected state, tombstones are final, `AuthorityV3` implements `CausalLog` | empty mailbox, 3 requests, 1 message, 2 versions, 3 keyword sets, `maxKeywords` 1, operations before and after the version's |
| `AuthorityReplay`, `AuthorityLimit` | findings | |
| `FolderRace` | one retry suffices; folders appear at once; initialisations end | 3 folders, 3 requests |
| `BrokerSessions` | no record forgets a live session, revoke is complete, records stay valid, provisioning is exact | an account with an active, a retired and a discarded session, or a new one with any space; 2 further requests at any endpoint, 2 flows |
| `BrokerBrowser` | the browser flow from nothing: single use, handlers end | 3 requests, 1 flow in any early stage |
| `BrokerOrphan` | finding | |
| `Vault` | the vault implements the record store; consumed once; calls return | 3 calls in 2 processes, which between them are every operation (`SomeKinds`), 2 names, 1 tick |
| `Agent` | the agent and the viewer implement `VersionedStore`; messages are complete; operations are written once; inventories are complete and end | a draft captured, changed or deleted; 2 requests out of 3 captures, 1 mirror and 3 changes; 1 walk with 2 messages per page, one of them too large for a page with another |
| `Migration` | nothing half-written; a pass is complete; interrupted runs resume; rebuilds are faithful; `VersionedStore` again | 2 folders, 2 messages sharing a chunk, one with a preserved UID; 2 importers from nothing, or 1 importer and 1 rebuild; 4 kinds of change; 1 fault |
| `MoveRebuild` | finding | |
| `Recovery` | the read implements `SnapshotRead` and gets through; visits, closing, rebuilds; the reducers' winners | a folder with two heads and one more commit of any client, or 4 commits and 2 rebuilds of one destination; 2 faults |

Why the bounds are enough to meet the interesting cases:

* three requests are two that race and one that observes, resends or
  tombstones; races of the code are between a check and a batch, and a batch is
  atomic, so a further request repeats one of these roles. The theorems below
  need no bound;
* `maxParents`, `maxKeywords` and `maxRevisionCount` are 64, 128 and 4096 in the
  code and small here; each run that is about one of them sets it so that it is
  reached;
* `maxAttempts` is 8 in the code and 2 here: the loop's first, later and last
  iterations are all there. `maxRetired` is 16 in the code and 2 here, which two
  callbacks on an account with a retired session exceed;
* `maxTime` bounds the vault's clock: one tick lets a record expire before,
  during and after a call; `maxRecords` 1 with two names
  makes the vault full;
* a start request beyond the number of flows hands out an entry that nobody
  follows;
* in `Agent` two requests race on a mailbox that a third has already used: the
  start is one of three states earlier requests leave (captured; then moved, with
  the answer lost; or deleted), so retries, edits of a draft being deleted and
  late operations all meet;
* in `Migration` `maxUID` 2 is reached by two messages, one of which keeps UID 1;
  `maxRevision` 2 admits one change of each state; one fault interrupts a run at
  every step, also after a write whose answer is lost;
* in `Recovery` `maxFaults` counts lagging exports, failed requests, build errors
  and crashes; two make one of them follow another. The start `Watched` is about
  commits that fall into a read and about reducing divergent heads: its rebuilds
  are absent until a crash starts the program again. The start `Rebuilt` is about
  visits and rebuilds: its history is full (`maxCommits` 4). `Ops` that are fresh
  sort before and after all others;
* `SeededSpec`, `InUseSpec` and the starts above are states that earlier
  operations produce; they save the requests that produce them.

Requests, flows and, in `AuthorityStore`, keywords are symmetric; runs with a
liveness property use no symmetry. Deadlock checking is off everywhere because an
instance has finitely many requests and stops when all are answered.

Fairness. Each liveness property assumes weak fairness of the steps of the actors
it is about, never of failures, crashes, expiry, commits or other clients:

* `Ends`, `Answered`, `Returns`: a handler's or call's own steps. A call to the
  provider or the file system returns; the code gives its HTTP calls timeouts, and
  the kernel hands a free lock to a waiting process. Weak fairness is enough
  because an instance has finitely many calls, so a lock is not taken from a
  waiting call for ever;
* `WalkEnds`: the agent answers a page and the relay asks for the next one;
* `Resumes`: an importer goes on and its operator runs it again after a failure,
  which is what `docs/promotion-gates.md` ("Interrupted migration resumes safely")
  is about. The number of faults is finite; a mailbox that another client has
  written to is excluded, because the code then refuses on purpose;
* `Recovers`, `ClosedIsCleared`: a caller repeats a failed read, and the visits in
  the same process run on. `Recovers` is about repositories that stay reducible:
  two clients can make one that is not (see the hazards).

## Proofs

`tlapm` proves, for every value of the constants that satisfies the assumptions below:

* `CausalLogProofs` — `LogReducible`: the abstract log keeps the source
  reducible. `SourceReducible` itself is not inductive: that no live revision
  stands below a tombstone needs the stronger fact that no tombstone is ever a
  parent, and that claims match revisions needs rkeys to be unique across
  messages. `LogInv` adds both, and that each revision is its message's root or
  follows from stored ones. A new revision cannot break this for an old one
  because the store only grows (`FollowsStable`).
* `AuthorityV3Proofs` — type correctness, `NeverPoisoned`,
  `AcknowledgedDurable`, `TombstoneFinal` and the refinement of `CausalLog`. The
  invariant says what each request knows of the revision it has built: its
  parents were heads of an untombstoned state when it was built, so they are
  stored and none is a tombstone, and this remains true while other requests
  append. Only then may it be committed by a later step without looking again.
  It also says that replay order has a last record (operations are unique), which
  makes the reduced state well defined.
* `FolderInitProofs` — `RetrySuffices`, `FoldersComplete` and `FolderStep`. The
  invariant: until a batch commits, every folder a request has inspected is one
  it found missing, hence the batch that wins creates all of them; a request
  retries only afterwards and then finds nothing missing.
* `AuthorityV3Proofs` also has `SingleWinner`. It depends on how the repository
  looked when each request read it, which no variable remembers, so its invariant
  (`WinnerInv`) says that there is a chain of earlier repositories which contains, for
  every append that passed its check, the one it was composed from and, once it is
  acknowledged, the one its result was read from. Of two appends composed from one
  state both read repositories with one revision more than that state; in a chain that
  is the same revision, so it is the same mutation. The property allows the one case
  the code does: a mutation composed again from a later snapshot, after only other
  messages changed, is acknowledged again as a replay of itself.
* `AuthVaultProofs` — `TakenOnce` and the refinement of `RecordStore`. Whoever is
  between load and sync holds the lock (`LockHeld`), so what it is about to rename is
  still the change of what the file holds (`Prepared`, for the clock value it read).
  A process that dies before its rename wrote nothing; a power loss may put back the
  contents from before a rename, but only of a call that was not answered yet. For `TakenOnce` a record is the work of one call
  (`RecordsOnce`), is not stored before that call's rename (`NotYetWritten`), and is
  gone from the file and from stable storage once a taker was answered (`TakenAway`).
* `BrokerProofs` — all eight safety properties of the broker. A handler holds no
  lock, so the invariant is about values read long ago: a session in such a value was
  recorded once, in that record, so it is never recorded again, and what the handler
  retired stays dead (`SeenOK`, `RetireOK`); a swap that compares equal therefore
  drops only what is dead. `RevokeOK` says which records a revocation has still to
  go through for the sessions that were there when it began.
* `RecoveryProofs` — `VisitSeesContent`, `ProjectionExact`, `WinnersAreLatest` and the
  refinement of `SnapshotRead`. The records a reader holds are those of its commit
  once both ends agree (`ReaderOK`); a source has its content as long as it is not
  closed or its clearing is pending, and `active` counts exactly the visits that run
  (`SourceOK`), so the last one of them clears it and no other; a rebuild that owns
  the destination finds its own file there (`RebuildOK`). `WinnersAreLatest` and
  the exactness of a projection are facts about any finite committed state that the
  reducers accept: in such a state a revision is above its parents, so the last one in
  replay order is no other's ancestor, and the UIDs of a folder are ranks, hence 1 to n.
* `ShadowAgentProofs` — `Complete`, `ExactlyOnce`, `InventoryComplete`,
  `EditKeepsOneLive` and the refinement of `VersionedStore`. An operation that was
  written has moved the revision past the one it expects (`CountOK`), hence no retry
  writes it again, however late. A walk has seen whatever was there at its beginning
  and lies before its offset (`WalkOK`): the list only grows, so an offset never moves
  past a message that was not shown, although messages move to higher places.
* `MigrationProofs` — `AlwaysRecoverable`, `PassedMeansComplete`, `ProjectionFaithful`,
  `UIDsDistinct` and the refinement of `VersionedStore`. What an importer has passed is
  there (`ImporterOK`), part by part of a body, folder by folder, message by message;
  a listing shows what was there at the rebuild's beginning up to its cursor, as it was
  then or later (`ListingOK`). All of it is kept by one fact, that records are only
  added and states only move on (`Grows`). `UIDsDistinct` is a property of the
  allocation: the n-th free number exists, is unique and is not preserved by another
  message (`BelowCounts` and what follows it).

The theorems about the later five modules also state type correctness or the
inductive invariant, so that further properties can be derived from them. Where an
induction would be the textbook argument (a finite set has a maximum, ranks are an
interval, the n-th free number), the proofs use well-foundedness (`WFMin`) and the
cardinality theorems for injections instead.

The inductive invariants of these modules hold, by TLC, from `Init` in instances of
the size of the runs. The theorems are about `Spec`, that is about the empty space, vault or account
(and, in `Recovery`, about any finite prior history); the runs check some of the
same properties from states that earlier operations leave, to save the steps.

Assumptions: the named `ASSUME`s of the modules. Most give types, or say that a
placeholder for "absent" is no value. The others:

* every request has its own revision key (`AuthorityV3`): keys are hashes of records
  that contain the time of creation;
* `Ops \cap AgentOps = {}` (`ShadowAgent`): the relay's and the viewer's operation ids
  are not those the agent makes up ("comail-jmap-capture-" or "comail-jmap-version-"
  and a hash). The handlers do not enforce it; `ExactlyOnce` counts by id and would say
  nothing of an id that two parties use;
* `Rank` is positive and injective on messages (`Migration`): it is the order of record
  keys in a listing, and the cursor before the first page is below all of them;
* `Prior` is a finite, typed history and `FreshOps` are ids (`Recovery`);
* the provider's batch is atomic and create-only, its compare-and-swap is atomic, and
  a rename replaces the vault's file as a whole.

Only model-checked: liveness (`Ends`, `Answered`, `Returns`, `WalkEnds`, `Resumes`,
`Recovers`, `ClosedIsCleared`), which is out of the prover's reach, as is `ENABLED`.
Every other property of a passing run is stated by a theorem. What the operators of
`Revisions`, `FolderRevisions` and `Migration` leave to a closed form instead of the
code's loops (`Last`, the tombstone closure, UID allocation) is a modelling step, not a
theorem: proving the loops equal to it takes induction over data.

## Findings

1. `AuthorityReplay`: an identical replay without keyword changes is taken for a
   collision, because an empty and a nil `Keywords` are compared by
   `reflect.DeepEqual`. It takes a duplicate that runs beside the first request:
   a later one is stopped earlier, by the snapshot id or by the stored version.
2. `AuthorityLimit`: a message can be given more revisions than `Reduce` accepts.
   `Store` has no check, and `AppendState`'s is made on what the caller expects.
3. `BrokerOrphan`: `FinishSteady` drops the id of a rejected steady session whose
   revocation was not confirmed.
4. `MoveRebuild`: `Apply`'s move keeps the projection identity of the folder the
   message left, and the next rebuild refuses the whole mailbox. `Replace`, the
   relay's way to move a message, resets it.

## Behaviour without a property

Besides the hazards of `PROJECT.json`, the models reach behaviour that the code
accepts or that no document decides, so no property speaks of it:

* `authorityv3/official_engine.go:286`: an append that committed is answered
  `ErrConflict` when another writer got in before the closing snapshot; a conflict
  does not mean "not applied". `mailboxstate/state.go:82` is the same for a v2 retry
  that comes after another operation;
* `onboardingbroker/handler.go:364`: a crash between the issue of a session and the
  write of its record leaves a session that nothing remembers; `handler.go:698`: at
  the bound, or after eight lost comparisons, a new session is refused and lives
  until it expires (`unretained`);
* `onboardingbroker/handler.go:380`: a callback that consumed its state before a
  revoke request installs its session after the request answered "revoked";
* `onboardingbroker/handler.go:277`: with sixteen retired sessions and an active
  session to reauthorise, start answers 503 before it reaches the cleanup, so only a
  revoke empties the list;
* `authvault/store.go:256`: a stale compare-and-swap writes the file, without its
  expired records, although the comment at 240-241 says that no write is performed;
* `shadowagent/handler.go:464`: a draft edited back to earlier bytes has the
  fingerprint of a tombstoned version and is refused for good;
* `migrate/migrate.go:222`, `258`: a folder the agent made first, or a state another
  client changed, makes every later run of the migration fail (`touched`);
* `projection/officialspaces.go:302`: live names are compared by `strings.ToLower`
  here and by simple folding in `ValidateFolderSet` (`Lower` and `Fold`; the instance
  takes them equal), so a reducible mailbox may have no projection.

## What is left out

* Encodings: JSON, DAG-CBOR, CAR, hashes, signatures, encryption. Keys and
  digests are modelled by what they distinguish. Byte limits of records and
  inventories are not counted.
* Authentication of HTTP requests and validation of their syntax; certificates and
  tokens (`serviceauth`, `authoritycert`, `spacecredential`), which keep no state.
* The vault's creation, its key file and file permissions; its sessions and OAuth
  requests, which pass through the same `read` and `mutate` as records. The rewrite
  of the file by a stale compare-and-swap is in the model (it prunes); the comment
  that denies it is listed with the hazards.
* A provisioning session that belongs to another account than the configured one:
  the broker has no record for that account.
* Token refresh inside the OAuth library, except for the saved nonce.
* `rsky`, an HTTP adapter of the contract `Repository` models; deletes and grants
  of that contract, which nothing in the system uses.
* Two v2 rebuilds of one destination: their outcome is decided inside SQLite.
* The importers' parsing, the viewer's pages, the commands and the laboratory
  programs under `cmd/comail-pds-lab` and `scripts`: I/O, wiring and tests.

## Plan

Modelling follows the inventory above and is done except for what the section before
names, and every safety property of the runs is proved. What can still be added:

1. `FolderInit`: its invariant and type correctness as theorems of their own, as in the
   other proof modules.
2. Lemmas on the reducers: `Last` and the reduced state do not depend on the order in
   which records are read; a revision below a head never changes a field that a head
   assigns.
3. The starts of the runs (`SeededSpec`, `InUseSpec` and those of `Agent`, `Migration`
   and `Recovery`) satisfy the inductive invariants, which carries the theorems over to
   them. In `Broker` the seeds' own flows have to be part of the instance first, and in
   `Recovery` the absent rebuilds have to be a state of the rebuild.
