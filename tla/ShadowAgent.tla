---------------------------- MODULE ShadowAgent ----------------------------
(***************************************************************************)
(* The adapter of the v2 mailbox (internal/shadowagent) and the mutable    *)
(* message state it shares with the mailbox viewer (internal/mailboxstate, *)
(* Replace and Apply) over one permissioned space.                         *)
(*                                                                         *)
(* Any number of requests run at once; each call of the repository is one  *)
(* step, may fail, and, when it writes, may lose its answer.  A message's  *)
(* key is the hash of its source key and its bytes: the pair of the two.   *)
(* An inventory walk asks for page after page; every page reads the        *)
(* repository anew.                                                        *)
(***************************************************************************)
EXTENDS Repository, FiniteSetsExt

CONSTANTS
    Requests,       \* requests of the relay and the viewer
    SourceKeys,     \* stable identities of drafts and sent copies
    NoKey,          \* inbound mail has no source key
    Bodies,         \* RFC 5322 contents
    Mailboxes,      \* folder names
    Captures,       \* inputs of /v2/capture
    Mirrors,        \* inputs of /v1/mirror
    Ops,            \* operation ids of state changes
    Mutation,       \* the change each operation id stands for
    Rank,           \* the order of message keys
    Size,           \* the bytes of a message on an inventory page
    pageLimit,      \* messages per page, at most 100 in the code
    maxPageSize     \* maxInventoryPageJSON

Fingerprints == (SourceKeys \cup {NoKey}) \X Bodies
Keywords == {"$seen", "$flagged"}
Operations == {"replace", "markRead", "markUnread", "flag", "unflag", "move", "tombstone"}
CaptureOp(mailbox, keywords) == <<"capture", mailbox, keywords>>
VersionOp(fp) == <<"version", fp>>

\* The operation ids the agent makes up, and the absent one of a new state
AgentOps ==
    {<<"none">>} \cup {VersionOp(fp) : fp \in Fingerprints}
        \cup {CaptureOp(mailbox, keywords) : mailbox \in Mailboxes, keywords \in SUBSET Keywords}

\* MessageStateRecord and Mutation
StateType ==
    [mailbox: Mailboxes, keywords: SUBSET Keywords, revision: Nat \ {0},
     tombstone: BOOLEAN, last: Ops \cup AgentOps]
MutationType(ids) ==
    [operation: Operations, fp: Fingerprints, expected: Nat, op: ids,
     mailbox: Mailboxes, keywords: SUBSET Keywords, tombstone: BOOLEAN]

\* The entries of Mutation are completed with the operation id they stand for
ASSUME AgentAssumption ==
    /\ NoKey \notin SourceKeys
    /\ Captures \subseteq [fp: Fingerprints, mailbox: Mailboxes, keywords: SUBSET Keywords]
    /\ Mirrors \subseteq [raw: Bodies, mailbox: Mailboxes]
    /\ Mutation \in [Ops -> MutationType({0})]
    /\ Ops \cap AgentOps = {}
    /\ NoCID \notin StateType
    /\ Rank \in [Fingerprints -> Nat]
    /\ pageLimit \in Nat \ {0} /\ maxPageSize \in Nat

VARIABLES
    job,            \* where each request is, with its input and its scratch
    walk,           \* an inventory walk of the relay
    applied         \* history: how often each operation id was written

vars == <<records, blobs, job, walk, applied>>

Message(fp) == [key |-> fp[1], raw |-> fp[2]]

\* NewMessagePair: the state of a new message
NewState(mailbox, keywords) ==
    [mailbox |-> mailbox, keywords |-> keywords, revision |-> 1,
     tombstone |-> FALSE, last |-> <<"none">>]

State(fp) == Value("state", fp)
Messages == ListRecords("message")
OfSource(k) == {fp \in Messages : Value("message", fp).key = k}
Live(k) == {fp \in OfSource(k) : Exists("state", fp) /\ ~State(fp).tombstone}

-----------------------------------------------------------------------------

NoJob ==
    [pc |-> "idle", kind |-> "none", fp |-> <<>>, mailbox |-> <<>>, keywords |-> {},
     mut |-> <<>>, seen |-> <<>>, todo |-> {}, prior |-> {}, live |-> 0, fresh |-> FALSE]

Ended == {"ok", "conflict", "failed"}
Running(r) == job[r].pc \notin Ended \cup {"idle"}
Goto(r, label) == job' = [job EXCEPT ![r].pc = label]

\* The response: the request keeps what it was about, its scratch is gone
Answer(r, answer) ==
    job' = [job EXCEPT ![r] = [NoJob EXCEPT !.pc = answer, !.kind = job[r].kind,
                                            !.fp = job[r].fp, !.mut = job[r].mut]]

Rest == UNCHANGED <<walk, applied>>
ReadOnly == UNCHANGED <<records, blobs>> /\ Rest

BeginCapture(r) ==
    /\ job[r].pc = "idle"
    /\ \E in \in Captures :
        job' = [job EXCEPT ![r] = [NoJob EXCEPT !.pc = "folder", !.kind = "capture",
            !.fp = in.fp, !.mailbox = in.mailbox, !.keywords = in.keywords]]
    /\ ReadOnly

BeginMirror(r) ==
    /\ job[r].pc = "idle"
    /\ \E in \in Mirrors :
        job' = [job EXCEPT ![r] = [NoJob EXCEPT !.pc = "folder", !.kind = "mirror",
            !.fp = <<NoKey, in.raw>>, !.mailbox = in.mailbox]]
    /\ ReadOnly

\* /v2/state makes sure of the folder first; the viewer calls Apply directly
BeginChange(r) ==
    /\ job[r].pc = "idle"
    /\ \E o \in Ops :
        LET replace == Mutation[o].operation = "replace" IN
        job' = [job EXCEPT ![r] = [NoJob EXCEPT !.kind = "change", !.fp = Mutation[o].fp,
            !.pc = IF replace THEN "folder" ELSE "replace",
            !.mailbox = Mutation[o].mailbox, !.mut = [Mutation[o] EXCEPT !.op = o]]]
    /\ ReadOnly

\* Any call may fail: the provider, the network, or a revoked session
Fail(r) == Running(r) /\ Answer(r, "failed") /\ ReadOnly

-----------------------------------------------------------------------------
(* ensureFolder                                                            *)

AfterFolder(r) == IF job[r].kind = "change" THEN "replace" ELSE "message"

GetFolder(r) ==
    /\ job[r].pc = "folder"
    /\ Goto(r, IF Exists("folder", job[r].mailbox) THEN AfterFolder(r) ELSE "newFolder")
    /\ ReadOnly

\* A folder some other request created in between is as good
CreateFolder(r) ==
    /\ job[r].pc = "newFolder"
    /\ ApplyWrites(<<Create("folder", job[r].mailbox, [name |-> job[r].mailbox])>>)
    /\ Goto(r, AfterFolder(r)) \/ Answer(r, "failed")
    /\ Rest

-----------------------------------------------------------------------------
(* capture and mirror                                                      *)

\* captureAndVerify, storeAndVerify: is the message there already?
GetMessage(r) ==
    /\ job[r].pc = "message"
    /\ Goto(r, IF ~Exists("message", job[r].fp) THEN "state"
               ELSE IF job[r].kind = "capture" THEN "list" ELSE "verify")
    /\ ReadOnly

\* A state without its message is refused
GetOrphan(r) ==
    /\ job[r].pc = "state"
    /\ IF Exists("state", job[r].fp) THEN Answer(r, "failed")
       ELSE Goto(r, IF job[r].kind = "capture" THEN "versions" ELSE "upload")
    /\ ReadOnly

\* The other versions of the source; their states are read one by one
ListVersions(r) ==
    /\ job[r].pc = "versions"
    /\ job' = [job EXCEPT ![r].todo = OfSource(job[r].fp[1]) \ {job[r].fp},
                          ![r].pc = "prior"]
    /\ ReadOnly

First(set) == CHOOSE fp \in set : \A other \in set : Rank[fp] <= Rank[other]

\* At most one of them is live: it is the prior version
GetPrior(r) ==
    /\ job[r].pc = "prior" /\ job[r].todo # {}
    /\ LET fp == First(job[r].todo)
           next == [job EXCEPT ![r].todo = @ \ {fp}]
       IN  IF ~Exists("state", fp) THEN Answer(r, "failed")
           ELSE IF State(fp).tombstone THEN job' = next
           ELSE IF job[r].prior # {} THEN Answer(r, "failed")
           ELSE job' = [next EXCEPT ![r].prior = {[fp |-> fp, state |-> State(fp)]}]
    /\ ReadOnly

PriorKnown(r) ==
    /\ job[r].pc = "prior" /\ job[r].todo = {}
    /\ Goto(r, "upload")
    /\ ReadOnly

Upload(r) ==
    /\ job[r].pc = "upload"
    /\ UploadBlob(job[r].fp[2])
    /\ Goto(r, "apply") \/ Answer(r, "failed")
    /\ Rest

\* Mutant: the message is created without its state
PairMessageOnly(r) == <<Create("message", job[r].fp, Message(job[r].fp))>>

Pair(r) ==
    <<Create("message", job[r].fp, Message(job[r].fp)),
      Create("state", job[r].fp, NewState(job[r].mailbox, job[r].keywords))>>

\* The prior version becomes a tombstone, if it is still what was read
Supersede(r, p) ==
    Update("state", p.fp, [p.state EXCEPT !.tombstone = TRUE, !.revision = @ + 1,
                                          !.last = VersionOp(job[r].fp)], p.state)
\* Mutant: a prior version that has changed since is left alone
BatchLenient(r) == Pair(r) \o
    LET same == {p \in job[r].prior : State(p.fp) = p.state} IN
    IF same = {} THEN <<>> ELSE <<Supersede(r, CHOOSE p \in same : TRUE)>>

Batch(r) == Pair(r) \o
    (IF job[r].prior = {} THEN <<>>
     ELSE <<Supersede(r, CHOOSE p \in job[r].prior : TRUE)>>)

(***************************************************************************)
(* One atomic batch.  A message that exists by now was stored by another   *)
(* request: mirror reads it back, capture treats it as one it had found.   *)
(***************************************************************************)
ApplyBatch(r) ==
    /\ job[r].pc = "apply"
    /\ ApplyWrites(Batch(r))
    /\ LET error == BatchError(Batch(r))
           there == error \in {"none", "exists"}
       IN  \/ Answer(r, "failed")
           \/ there /\ job[r].kind = "mirror" /\ Goto(r, "verify")
           \/ /\ there /\ job[r].kind = "capture"
              /\ job' = [job EXCEPT ![r].pc = "list", ![r].fresh = error = "none"]
           \/ error = "conflict" /\ Answer(r, "conflict")
    /\ Rest

-----------------------------------------------------------------------------
(* requireSingleLiveSource, reconcileCapturedState, verifyExisting         *)

ListSource(r) ==
    /\ job[r].pc = "list"
    /\ job' = [job EXCEPT ![r].todo = OfSource(job[r].fp[1]), ![r].live = 0, ![r].pc = "single"]
    /\ ReadOnly

CheckVersion(r) ==
    /\ job[r].pc = "single" /\ job[r].todo # {}
    /\ LET fp == First(job[r].todo) IN
        IF ~Exists("state", fp) \/ (~State(fp).tombstone /\ fp # job[r].fp)
        THEN Answer(r, "failed")
        ELSE job' = [job EXCEPT ![r].todo = @ \ {fp},
                                ![r].live = @ + IF State(fp).tombstone THEN 0 ELSE 1]
    /\ ReadOnly

\* Only a message that was there before has a state to reconcile
SingleLive(r) ==
    /\ job[r].pc = "single" /\ job[r].todo = {}
    /\ IF job[r].live # 1 THEN Answer(r, "failed")
       ELSE Goto(r, IF job[r].fresh THEN "verify" ELSE "reconcile")
    /\ ReadOnly

Reconcile(r) ==
    /\ job[r].pc = "reconcile"
    /\ IF ~Exists("state", job[r].fp) THEN Answer(r, "failed")
       ELSE LET s == State(job[r].fp) IN
        IF s.tombstone THEN Answer(r, "failed")
        ELSE IF s.mailbox = job[r].mailbox /\ s.keywords = job[r].keywords THEN Goto(r, "verify")
        ELSE job' = [job EXCEPT ![r].pc = "replace", ![r].mut =
                [operation |-> "replace", fp |-> job[r].fp, expected |-> s.revision,
                 op |-> CaptureOp(job[r].mailbox, job[r].keywords), mailbox |-> job[r].mailbox,
                 keywords |-> job[r].keywords, tombstone |-> FALSE]]
    /\ ReadOnly

\* The receipt: the record and its bytes are there, and so is its state
Verify(r) ==
    /\ job[r].pc = "verify"
    /\ Answer(r, IF Exists("message", job[r].fp) /\ GetBlob(Value("message", job[r].fp).raw)
                    /\ Exists("state", job[r].fp) THEN "ok" ELSE "failed")
    /\ ReadOnly

-----------------------------------------------------------------------------
(* mailboxstate.Replace and Apply                                          *)

ReplaceMessage(r) ==
    /\ job[r].pc = "replace"
    /\ IF Exists("message", job[r].mut.fp) THEN Goto(r, "current") ELSE Answer(r, "failed")
    /\ ReadOnly

\* A change of a capture is followed by the receipt, any other one is answered
Changed(r) == IF job[r].kind = "capture" THEN Goto(r, "verify") ELSE Answer(r, "ok")
Refused(r) == Answer(r, IF job[r].kind = "capture" THEN "failed" ELSE "conflict")

\* Mutant: the expected revision is not compared
ReadStateAnyRevision(r) ==
    /\ job[r].pc = "current"
    /\ IF ~Exists("state", job[r].mut.fp) THEN Answer(r, "failed")
       ELSE LET s == State(job[r].mut.fp) IN
        IF s.last = job[r].mut.op THEN Changed(r)
        ELSE IF s.tombstone THEN Answer(r, "failed")
        ELSE job' = [job EXCEPT ![r].seen = s, ![r].pc =
                IF job[r].mut.operation \in {"replace", "move"} THEN "destination" ELSE "put"]
    /\ ReadOnly

\* Mutant: a tombstone can be changed
ReadStateOfTombstone(r) ==
    /\ job[r].pc = "current"
    /\ IF ~Exists("state", job[r].mut.fp) THEN Answer(r, "failed")
       ELSE LET s == State(job[r].mut.fp) IN
        IF s.last = job[r].mut.op THEN Changed(r)
        ELSE IF s.revision # job[r].mut.expected THEN Refused(r)
        ELSE job' = [job EXCEPT ![r].seen = s, ![r].pc =
                IF job[r].mut.operation \in {"replace", "move"} THEN "destination" ELSE "put"]
    /\ ReadOnly

(***************************************************************************)
(* The operation that was written last is a retry: done.  Otherwise the    *)
(* state must be at the expected revision and not a tombstone.             *)
(***************************************************************************)
ReadState(r) ==
    /\ job[r].pc = "current"
    /\ IF ~Exists("state", job[r].mut.fp) THEN Answer(r, "failed")
       ELSE LET s == State(job[r].mut.fp) IN
        IF s.last = job[r].mut.op THEN Changed(r)
        ELSE IF s.revision # job[r].mut.expected THEN Refused(r)
        ELSE IF s.tombstone THEN Answer(r, "failed")
        ELSE job' = [job EXCEPT ![r].seen = s, ![r].pc =
                IF job[r].mut.operation \in {"replace", "move"} THEN "destination" ELSE "put"]
    /\ ReadOnly

Destination(r) ==
    /\ job[r].pc = "destination"
    /\ IF Exists("folder", job[r].mut.mailbox) THEN Goto(r, "put") ELSE Answer(r, "failed")
    /\ ReadOnly

\* The state an operation makes of the one it read
Edited(s, m) ==
    CASE m.operation = "replace" ->
            [s EXCEPT !.mailbox = m.mailbox, !.keywords = m.keywords, !.tombstone = m.tombstone]
      [] m.operation = "move" -> [s EXCEPT !.mailbox = m.mailbox]
      [] m.operation = "tombstone" -> [s EXCEPT !.tombstone = TRUE]
      [] m.operation = "markRead" -> [s EXCEPT !.keywords = @ \cup {"$seen"}]
      [] m.operation = "markUnread" -> [s EXCEPT !.keywords = @ \ {"$seen"}]
      [] m.operation = "flag" -> [s EXCEPT !.keywords = @ \cup {"$flagged"}]
      [] m.operation = "unflag" -> [s EXCEPT !.keywords = @ \ {"$flagged"}]
NextState(s, m) == [Edited(s, m) EXCEPT !.revision = @ + 1, !.last = m.op]

\* Written if the state is still the one that was read
PutState(r) ==
    /\ job[r].pc = "put"
    /\ LET m == job[r].mut
           error == CASError("state", m.fp, job[r].seen)
       IN  /\ PutRecordCAS("state", m.fp, NextState(job[r].seen, m), job[r].seen)
           /\ Answer(r, "failed") \/ (IF error = "none" THEN Changed(r) ELSE Refused(r))
           /\ applied' = IF error = "none" /\ m.op \in Ops
                         THEN [applied EXCEPT ![m.op] = @ + 1] ELSE applied
    /\ UNCHANGED walk

-----------------------------------------------------------------------------
(* inventory: the pages are offsets into the list sorted by key            *)

NoWalk == [pc |-> "idle", offset |-> 0, folders |-> {}, start |-> {}, seen |-> {}]

WalkBegin ==
    /\ walk.pc = "idle"
    /\ walk' = [walk EXCEPT !.pc = "folders", !.start = Messages]
    /\ UNCHANGED <<records, blobs, job, applied>>

WalkFolders ==
    /\ walk.pc = "folders"
    /\ walk' = [walk EXCEPT !.pc = "page", !.folders = ListRecords("folder")]
    /\ UNCHANGED <<records, blobs, job, applied>>

States == ListRecords("state")
Position(fp) == Cardinality({g \in States : Rank[g] < Rank[fp]})
At(i) == CHOOSE fp \in States : Position(fp) = i
ItemSize(i) == Size[At(i)[2]]

\* Mutant: the size limit holds for the first message too
PageEndStrict(offset) ==
    LET limit == Min({offset + pageLimit, Cardinality(States)})
        over == {i \in offset .. limit - 1 :
                    MapThenSumSet(ItemSize, offset .. i) > maxPageSize}
    IN  IF over = {} THEN limit ELSE Min(over)

\* Limited in number, and in size from the second message on
PageEnd(offset) ==
    LET limit == Min({offset + pageLimit, Cardinality(States)})
        over == {i \in offset + 1 .. limit - 1 :
                    MapThenSumSet(ItemSize, offset .. i) > maxPageSize}
    IN  IF over = {} THEN limit ELSE Min(over)

\* Mutant: the cursor skips what the size limit left out
NextCursorByLimit(offset) == Min({offset + pageLimit, Cardinality(States)})

NextCursor(offset) == PageEnd(offset)

\* inventoryMessages: every state has its folder and message, live ones bytes
Consistent ==
    \A fp \in States :
        /\ State(fp).mailbox \in walk.folders
        /\ Exists("message", fp)
        /\ ~State(fp).tombstone => GetBlob(Value("message", fp).raw)

\* The messages are read after the states; they never change
WalkPage ==
    /\ walk.pc = "page"
    /\ LET next == NextCursor(walk.offset)
           page == {fp \in States : Position(fp) \in walk.offset .. PageEnd(walk.offset) - 1}
       IN  walk' =
            IF ~Consistent THEN [walk EXCEPT !.pc = "torn"]
            ELSE IF walk.offset > Cardinality(States) THEN [walk EXCEPT !.pc = "invalid"]
            ELSE [walk EXCEPT !.seen = @ \cup page, !.offset = next, !.folders = {},
                    !.pc = IF next < Cardinality(States) THEN "folders" ELSE "done"]
    /\ UNCHANGED <<records, blobs, job, applied>>

WalkFail ==
    /\ walk.pc \in {"folders", "page"}
    /\ walk' = [walk EXCEPT !.pc = "failed"]
    /\ UNCHANGED <<records, blobs, job, applied>>

-----------------------------------------------------------------------------

Init ==
    /\ EmptySpace
    /\ job = [r \in Requests |-> NoJob]
    /\ walk = NoWalk
    /\ applied = [o \in Ops |-> 0]

Begin(r) == BeginCapture(r) \/ BeginMirror(r) \/ BeginChange(r)

Step(r) ==
    \/ GetFolder(r) \/ CreateFolder(r) \/ GetMessage(r) \/ GetOrphan(r)
    \/ ListVersions(r) \/ GetPrior(r) \/ PriorKnown(r) \/ Upload(r) \/ ApplyBatch(r)
    \/ ListSource(r) \/ CheckVersion(r) \/ SingleLive(r) \/ Reconcile(r) \/ Verify(r)
    \/ ReplaceMessage(r) \/ ReadState(r) \/ Destination(r) \/ PutState(r)

Walk == WalkBegin \/ WalkFolders \/ WalkPage

Next == (\E r \in Requests : Begin(r) \/ Step(r) \/ Fail(r)) \/ Walk \/ WalkFail

Spec == Init /\ [][Next]_vars

-----------------------------------------------------------------------------
(* Properties                                                              *)

SourceOf(fp) == fp[1]
Held == [fp \in Messages |->
            [revision |-> State(fp).revision, live |-> ~State(fp).tombstone]]
Promise == INSTANCE VersionedStore WITH Source <- SourceOf, held <- Held

(***************************************************************************)
(* The agent and the viewer together implement VersionedStore, whatever    *)
(* their requests interleave: no message is lost, no revision is skipped   *)
(* or written twice, and nothing changes a tombstone.                      *)
(***************************************************************************)
ImplementsVersionedStore == Promise!Spec

\* Records, requests and the walk stay in their domains; an applied count is a number
TypeOK ==
    /\ DOMAIN records \subseteq ({"folder"} \X Mailboxes) \cup ({"message", "state"} \X Fingerprints)
    /\ \A fp \in States : State(fp).mailbox \in Mailboxes /\ State(fp).keywords \subseteq Keywords
                         /\ State(fp).revision \in Nat \ {0} /\ State(fp).tombstone \in BOOLEAN
    /\ blobs \subseteq Bodies
    /\ \A r \in Requests : job[r].kind \in {"none", "capture", "mirror", "change"}
                         /\ job[r].todo \subseteq Fingerprints
                         /\ (job[r].kind \in {"capture", "mirror"} => job[r].fp \in Fingerprints)
    /\ walk.offset \in Nat /\ walk.folders \subseteq Mailboxes /\ walk.seen \subseteq Fingerprints
    /\ applied \in [Ops -> Nat]

(***************************************************************************)
(* A message, its state and its bytes appear together, and the folder its  *)
(* state names exists before it is named: what inventory and rebuilding    *)
(* take for granted, at every moment and after every failure.              *)
(***************************************************************************)
Complete ==
    /\ Messages = States
    /\ \A fp \in Messages : GetBlob(Value("message", fp).raw)
    /\ \A fp \in States : Exists("folder", State(fp).mailbox)

(***************************************************************************)
(* An operation id is written at most once, however often and however late *)
(* it is retried, and a request answered ok stands for exactly one write.  *)
(***************************************************************************)
ExactlyOnce ==
    /\ \A o \in Ops : applied[o] <= 1
    /\ \A r \in Requests : job[r].kind = "change" /\ job[r].pc = "ok" => applied[job[r].mut.op] = 1

(***************************************************************************)
(* A capture that found a live version replaces it: its batch leaves no    *)
(* more live versions of any source than there were, also when two edits   *)
(* of one draft, or an edit and a deletion, race.                          *)
(***************************************************************************)
EditKeepsOneLive ==
    [][\A r \in Requests : job[r].pc = "apply" /\ job'[r].pc # "apply" /\ job[r].prior # {} =>
        \A k \in SourceKeys : Cardinality(Live(k)') <= Cardinality(Live(k))]_vars

(***************************************************************************)
(* A finished walk has seen every message that was there when it began,    *)
(* although each page is an offset into a list that captures make longer.  *)
(***************************************************************************)
InventoryComplete == walk.pc = "done" => walk.start \subseteq walk.seen

(***************************************************************************)
(* Every walk ends, whatever the sizes of the messages: each page moves it *)
(* on, and captures do not outrun it.                                      *)
(***************************************************************************)
WalkEnds == <>(walk.pc \in {"done", "torn", "invalid", "failed"})

\* The agent answers a page request, and the relay asks for the next page
Fairness == WF_vars(Walk)

=============================================================================
