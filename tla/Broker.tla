------------------------------- MODULE Broker -------------------------------
(***************************************************************************)
(* The onboarding broker of internal/onboardingbroker for one account: the *)
(* OAuth sessions it obtains, the encrypted records that remember them and *)
(* the requests that install, retire and revoke them.  A handler holds no  *)
(* lock: between two store calls any other handler may run, and only the   *)
(* vault's compare-and-swap orders them.                                   *)
(*                                                                         *)
(* The three records of an account have one shape here.  "ready" names the *)
(* active session and the retired ones; "steady" and "provisioning" are    *)
(* the queues of discarded sessions, without an active one.  A list of     *)
(* session ids is a set: an id enters a record once, so the order of two   *)
(* ids never changes and equal sets are equal bytes.                       *)
(***************************************************************************)
EXTENDS Naturals, FiniteSets

CONSTANTS
    Requests,       \* HTTP requests; a callback's session has the callback's name
    Flows,          \* browser flows: one token, then one OAuth state per stage
    None,           \* no session, no flow, no record
    Roles,          \* the endpoints the requests of an instance may hit
    maxAttempts,    \* compare-and-swap attempts: 8 in the code
    maxRetired      \* maxRetiredSessions: 16 in the code

Endpoints == {"start", "entry", "provision", "steady", "revoke"}
Queues == {"steady", "provisioning"}
RecordNames == {"ready"} \cup Queues

ASSUME BrokerAssumption ==
    /\ None \notin Requests \cup Flows \cup Endpoints \cup RecordNames
    /\ Roles \subseteq Endpoints
    /\ maxAttempts \in Nat \ {0} /\ maxRetired \in Nat \ {0}

VARIABLES
    live,           \* sessions the provider still honours
    local,          \* sessions whose tokens the vault holds
    vault,          \* the account's records
    flow,           \* the stage each browser flow waits in
    space,          \* the mailbox space at the provider
    job             \* what each request is doing

vars == <<live, local, vault, flow, space, job>>

Drifted == {"otherPolicy", "otherMembers"}
Spaces == {"absent", "exact"} \cup Drifted
Stages == {"fresh", "entry", "provision", "steady", "gone"}

\* A record that was deleted or never written, against one that is empty
Absent == [exists |-> FALSE, active |-> None, others |-> {}]
Record(active, others) == [exists |-> TRUE, active |-> active, others |-> others]
Sessions(rec) == ({rec.active} \ {None}) \cup rec.others

\* Every session some record still remembers
Handles == UNION {Sessions(vault[n]) : n \in RecordNames}

NoJob ==
    [pc |-> "idle", role |-> None, flow |-> None, on |-> None, seen |-> Absent,
     todo |-> {}, kept |-> {}, tries |-> 0, bad |-> FALSE, begun |-> {}]

Working == {"finish", "create", "config", "members", "cleanup", "save", "put", "swap",
            "clean", "retire", "check", "resume", "prove", "revoke"}
Answers == {"ready", "unavailable", "full", "authorize", "redirected", "rejected",
            "installed", "unretained", "revoked", "incomplete", "failed"}

\* A handler that has answered leaves nothing behind but what it was
Ended(j) ==
    [NoJob EXCEPT !.pc = j.pc, !.role = j.role, !.flow = j.flow, !.on = j.on, !.begun = j.begun]

Set(r, new) == job' = [job EXCEPT ![r] = IF new.pc \in Answers THEN Ended(new) ELSE new]
Goto(r, label) == Set(r, [job[r] EXCEPT !.pc = label])
At(r, label) == job[r].pc = label

-----------------------------------------------------------------------------
(* Retiring sessions: cleanupDiscarded, cleanupRetired and the revocations.  *)

\* Where a handler continues when its cleanup of a record is over
AfterClean(role, on) ==
    CASE on = "ready" -> IF role = "start" THEN "ready" ELSE "installed"
      [] role = "start" /\ on = "steady" -> "clean"
      [] role = "start" /\ on = "provisioning" -> "check"
      [] OTHER -> "rejected"

\* handleStart cleans the steady queue first, then the provisioning one
CleanDone(j) ==
    [j EXCEPT !.pc = AfterClean(j.role, j.on), !.seen = Absent, !.kept = {},
              !.on = IF j.role = "start" /\ j.on = "steady" THEN "provisioning" ELSE j.on]

\* Start retiring the sessions of the record value rec
Retiring(j, rec, sessions) ==
    [j EXCEPT !.pc = "retire", !.seen = rec, !.todo = sessions, !.kept = {}]

\* cleanupDiscarded and cleanupDiscardedProvisioning: read the queue, if it can
\* be read
CleanRead(r) ==
    LET rec == vault[job[r].on] IN
    /\ At(r, "clean")
    /\ \/ Set(r, CleanDone(job[r]))
       \/ rec.others # {} /\ Set(r, Retiring(job[r], rec, rec.others))
    /\ UNCHANGED <<live, local, vault, flow, space>>

(***************************************************************************)
(* RetireSteady and RetireProvisioning of one session: the remote          *)
(* revocation, then the local deletion.  A session the vault no longer has *)
(* counts as retired.  A failure may be one of reading the session, of the *)
(* revocation, confirmed or not, or of the deletion, effective or not.     *)
(***************************************************************************)
Retire(r) ==
    /\ At(r, "retire")
    /\ \E s \in job[r].todo :
        LET rest == [job[r] EXCEPT !.todo = @ \ {s}]
            Revoked == live' = IF s \in local THEN live \ {s} ELSE live
        IN  \/ Set(r, rest) /\ Revoked /\ local' = local \ {s}
            \/ /\ Set(r, [rest EXCEPT !.kept = @ \cup {s}])
               /\ UNCHANGED <<live, local>> \/ (Revoked /\ local' \in {local, local \ {s}})
    /\ UNCHANGED <<vault, flow, space>>

\* Mutant: the record is rewritten whatever it holds by now
CleanSwapBlind(r) ==
    LET j == job[r] IN
    /\ At(r, "retire") /\ j.role # "revoke" /\ j.todo = {}
    /\ vault' = [vault EXCEPT ![j.on] = Record(j.seen.active, j.kept)]
    /\ Set(r, CleanDone(j))
    /\ UNCHANGED <<live, local, flow, space>>

\* The cleanup's single compare-and-swap; it is skipped when nothing was
\* retired, and its outcome, an error too, is ignored
CleanSwap(r) ==
    LET j == job[r] IN
    /\ At(r, "retire") /\ j.role # "revoke" /\ j.todo = {}
    /\ \/ UNCHANGED vault
       \/ /\ j.kept # j.seen.others /\ vault[j.on] = j.seen
          /\ vault' = [vault EXCEPT ![j.on] = Record(j.seen.active, j.kept)]
    /\ Set(r, CleanDone(j))
    /\ UNCHANGED <<live, local, flow, space>>

\* Mutant: the outcome of the last record is the answer
NextRecordLast(j, bad) ==
    [j EXCEPT !.bad = bad, !.tries = 0, !.seen = Absent, !.kept = {},
              !.on = IF j.on = "ready" THEN "steady" ELSE "provisioning",
              !.pc = IF j.on # "provisioning" THEN "revoke"
                     ELSE IF bad THEN "incomplete" ELSE "revoked"]

\* handleRevoke goes through the three records whatever happens to each
NextRecord(j, bad) ==
    LET worse == j.bad \/ bad IN
    [j EXCEPT !.bad = worse, !.tries = 0, !.seen = Absent, !.kept = {},
              !.on = IF j.on = "ready" THEN "steady" ELSE "provisioning",
              !.pc = IF j.on # "provisioning" THEN "revoke"
                     ELSE IF worse THEN "incomplete" ELSE "revoked"]

RevokeBegin(r) ==
    /\ At(r, "idle") /\ "revoke" \in Roles
    /\ Set(r, [NoJob EXCEPT !.pc = "revoke", !.role = "revoke", !.on = "ready", !.begun = Handles])
    /\ UNCHANGED <<live, local, vault, flow, space>>

RevokeRead(r) ==
    LET rec == vault[job[r].on] IN
    /\ At(r, "revoke")
    /\ Set(r, IF rec.exists THEN Retiring(job[r], rec, Sessions(rec)) ELSE NextRecord(job[r], FALSE))
    /\ UNCHANGED <<live, local, vault, flow, space>>

\* Mutant: a record that changed meanwhile is somebody else's to revoke
RevokeDeleteOnce(r) ==
    LET j == job[r]
        unchanged == vault[j.on] = j.seen
    IN  /\ At(r, "retire") /\ j.role = "revoke" /\ j.todo = {}
        /\ vault' = IF j.kept = {} /\ unchanged THEN [vault EXCEPT ![j.on] = Absent] ELSE vault
        /\ Set(r, NextRecord(j, j.kept # {}))
        /\ UNCHANGED <<live, local, flow, space>>

\* Mutant: an unconfirmed revocation is tried again without counting
RevokeDeleteRetrying(r) ==
    LET j == job[r]
        done == j.kept = {} /\ vault[j.on] = j.seen
    IN  /\ At(r, "retire") /\ j.role = "revoke" /\ j.todo = {}
        /\ vault' = IF done THEN [vault EXCEPT ![j.on] = Absent] ELSE vault
        /\ Set(r, IF done THEN NextRecord(j, FALSE) ELSE [j EXCEPT !.pc = "revoke", !.seen = Absent])
        /\ UNCHANGED <<live, local, flow, space>>

\* CompareAndDeleteRecord, only when every session of the value read is retired
Deleted(j) ==
    IF j.kept = {} /\ vault[j.on] = j.seen THEN [vault EXCEPT ![j.on] = Absent] ELSE vault

RevokeDelete(r) ==
    LET j == job[r]
        unchanged == vault[j.on] = j.seen
    IN  /\ At(r, "retire") /\ j.role = "revoke" /\ j.todo = {}
        /\ vault' = Deleted(j)
        /\ Set(r, IF j.kept # {} THEN NextRecord(j, TRUE)
                  ELSE IF unchanged THEN NextRecord(j, FALSE)
                  ELSE IF j.tries + 1 = maxAttempts THEN NextRecord(j, TRUE)
                  ELSE [j EXCEPT !.pc = "revoke", !.tries = @ + 1, !.seen = Absent])
        /\ UNCHANGED <<live, local, flow, space>>

\* The store fails; its deletion may have taken effect.  The other records follow
RevokeError(r) ==
    LET j == job[r] IN
    /\ j.role = "revoke"
    /\ \/ At(r, "revoke") /\ UNCHANGED vault
       \/ At(r, "retire") /\ j.todo = {} /\ vault' \in {vault, Deleted(j)}
    /\ Set(r, NextRecord(j, TRUE))
    /\ UNCHANGED <<live, local, flow, space>>

-----------------------------------------------------------------------------
(* Installing and queueing: replaceReadySession and enqueueDiscarded.        *)

\* The record value that remembers session s as well
Replacement(on, rec, s) ==
    IF on = "ready" THEN Record(s, Sessions(rec) \ {s})
    ELSE Record(None, rec.others \cup {s})

\* Mutant: the bound is left to the reader
PutReadUnbounded(r) ==
    /\ At(r, "put")
    /\ Set(r, [job[r] EXCEPT !.pc = "swap", !.seen = vault[job[r].on]])
    /\ UNCHANGED <<live, local, vault, flow, space>>

\* Read the record; a full one is refused and the new session goes unrecorded
PutRead(r) ==
    LET j == job[r]
        rec == vault[j.on]
    IN  /\ At(r, "put")
        /\ IF Cardinality(Replacement(j.on, rec, r).others) > maxRetired
           THEN Goto(r, "unretained")
           ELSE Set(r, [j EXCEPT !.pc = "swap", !.seen = rec])
        /\ UNCHANGED <<live, local, vault, flow, space>>

\* Mutant: the record's sessions are retired without setting the active one aside
PutDoneAll(j, rec) ==
    IF j.on \in Queues THEN [j EXCEPT !.pc = "clean", !.seen = Absent, !.tries = 0]
    ELSE IF rec.others = {} THEN CleanDone(j)
    ELSE Retiring([j EXCEPT !.tries = 0], rec, Sessions(rec))

\* After the swap cleanupRetired works on the value written, cleanupDiscarded rereads
PutDone(j, rec) ==
    IF j.on \in Queues THEN [j EXCEPT !.pc = "clean", !.seen = Absent, !.tries = 0]
    ELSE IF rec.others = {} THEN CleanDone(j)
    ELSE Retiring([j EXCEPT !.tries = 0], rec, rec.others)

\* Mutant: the outcome of the compare-and-swap is not looked at
PutSwapUnchecked(r) ==
    LET j == job[r]
        next == Replacement(j.on, j.seen, r)
    IN  /\ At(r, "swap")
        /\ vault' = IF vault[j.on] = j.seen THEN [vault EXCEPT ![j.on] = next] ELSE vault
        /\ Set(r, PutDone(j, next))
        /\ UNCHANGED <<live, local, flow, space>>

PutSwap(r) ==
    LET j == job[r]
        next == Replacement(j.on, j.seen, r)
        swapped == vault[j.on] = j.seen
    IN  /\ At(r, "swap")
        /\ vault' = IF swapped THEN [vault EXCEPT ![j.on] = next] ELSE vault
        /\ Set(r, IF swapped THEN PutDone(j, next)
                  ELSE IF j.tries + 1 = maxAttempts THEN [j EXCEPT !.pc = "unretained"]
                  ELSE [j EXCEPT !.pc = "put", !.tries = @ + 1, !.seen = Absent])
        /\ UNCHANGED <<live, local, flow, space>>

\* The swap takes effect and yet returns an error: the directory's sync failed
PutError(r) ==
    LET j == job[r] IN
    /\ At(r, "swap") /\ vault[j.on] = j.seen
    /\ vault' = [vault EXCEPT ![j.on] = Replacement(j.on, j.seen, r)]
    /\ Goto(r, "failed")
    /\ UNCHANGED <<live, local, flow, space>>

-----------------------------------------------------------------------------
(* The browser flow.                                                        *)

\* Mutant: the flow record is read, and left to expire
ConsumeReads(r) ==
    /\ At(r, "idle")
    /\ \E role \in Roles \cap {"entry", "provision", "steady"}, f \in Flows :
        /\ flow[f] = role
        /\ Set(r, [NoJob EXCEPT !.role = role, !.flow = f,
                                !.pc = IF role = "entry" THEN "save" ELSE "finish"])
    /\ UNCHANGED <<live, local, vault, flow, space>>

\* handleBrowserEntry and consumeCallback: ConsumeRecord of the flow's record
Consume(r) ==
    /\ At(r, "idle")
    /\ \E role \in Roles \cap {"entry", "provision", "steady"}, f \in Flows :
        /\ flow[f] = role
        /\ flow' = [flow EXCEPT ![f] = "gone"]
        /\ Set(r, [NoJob EXCEPT !.role = role, !.flow = f,
                                !.pc = IF role = "entry" THEN "save" ELSE "finish"])
    /\ UNCHANGED <<live, local, vault, space>>

\* The provider issued session r and ProcessCallback stored its tokens
Issued(r) == live' = live \cup {r} /\ local' = local \cup {r}

(***************************************************************************)
(* finishSession of the create-only grant.  A session with the wrong       *)
(* target or grant is cleaned up like one that has served; that of another *)
(* account is revoked too, and forgotten when that is not confirmed.       *)
(***************************************************************************)
FinishProvisioning(r) ==
    /\ At(r, "finish") /\ job[r].role = "provision"
    /\ \/ Goto(r, "rejected") /\ (UNCHANGED <<live, local>> \/ Issued(r))
       \/ \E right \in BOOLEAN :
            /\ Set(r, [job[r] EXCEPT !.pc = IF right THEN "create" ELSE "cleanup", !.bad = ~right])
            /\ Issued(r)
    /\ UNCHANGED <<vault, flow, space>>

\* A step of Ensure failed: the session is cleaned up and the flow ends
EnsureFails(r) == Set(r, [job[r] EXCEPT !.pc = "cleanup", !.bad = TRUE])

\* Mutant: a space that exists is taken for the one this client makes
CreateSpaceTrusting(r) ==
    /\ At(r, "create")
    /\ space' \in {space, IF space = "absent" THEN "exact" ELSE space}
    /\ \/ space' # "absent" /\ Goto(r, IF space = "absent" THEN "config" ELSE "cleanup")
       \/ EnsureFails(r)
    /\ UNCHANGED <<live, local, vault, flow>>

\* create of spaceprovision: SpaceAlreadyExists counts; a lost response does not
CreateSpace(r) ==
    /\ At(r, "create")
    /\ space' \in {space, IF space = "absent" THEN "exact" ELSE space}
    /\ \/ space' # "absent" /\ Goto(r, "config")
       \/ EnsureFails(r)
    /\ UNCHANGED <<live, local, vault, flow>>

\* verifyConfig: the policies of the declaration
VerifyConfig(r) ==
    /\ At(r, "config")
    /\ \/ space \in {"exact", "otherMembers"} /\ Goto(r, "members")
       \/ EnsureFails(r)
    /\ UNCHANGED <<live, local, vault, flow, space>>

\* verifyMembers: nobody but the owner
VerifyMembers(r) ==
    /\ At(r, "members")
    /\ \/ space \in {"exact", "otherPolicy"} /\ Goto(r, "cleanup")
       \/ EnsureFails(r)
    /\ UNCHANGED <<live, local, vault, flow, space>>

(***************************************************************************)
(* cleanupSession.  The create-only session is revoked and deleted before  *)
(* success is reported; when either is not confirmed its id is returned    *)
(* for retry, and the flow is rejected.                                    *)
(***************************************************************************)
CleanupSession(r) ==
    LET good == ~job[r].bad
        j == [job[r] EXCEPT !.bad = FALSE]
    IN  /\ At(r, "cleanup")
        /\ \/ /\ Set(r, [j EXCEPT !.pc = IF good THEN "save" ELSE "rejected"])
              /\ live' = live \ {r} /\ local' = local \ {r}
           \/ /\ Set(r, [j EXCEPT !.pc = "put", !.on = "provisioning"])
              /\ \/ UNCHANGED <<live, local>>
                 \/ live' = live \ {r} /\ local' \in {local, local \ {r}}
        /\ UNCHANGED <<vault, flow, space>>

(***************************************************************************)
(* Another client of the owner makes the space, or sets a drifted one      *)
(* right; nobody spoils or deletes an exact one.                           *)
(***************************************************************************)
OwnerChanges ==
    /\ space # "exact"
    /\ space' \in IF space = "absent" THEN Spaces \ {"absent"} ELSE {"exact"}
    /\ UNCHANGED <<live, local, vault, flow, job>>

\* ProveRead with a fresh credential of session s: the space can be listed
ProveSteady(s) == s \in live /\ space # "absent"

\* A steady session whose live proof succeeds is installed, else queued
FinishSteady(r) ==
    /\ At(r, "finish") /\ job[r].role = "steady"
    /\ Issued(r)
    /\ UNCHANGED <<vault, flow, space>>
    /\ \/ ProveSteady(r)' /\ Set(r, [job[r] EXCEPT !.pc = "put", !.on = "ready"])
       \/ Set(r, [job[r] EXCEPT !.pc = "put", !.on = "steady"])

(***************************************************************************)
(* Manager.Finish fails: no session, or one with the wrong target or grant *)
(* that rejectSession revokes at once.  FinishSteady then returns no id,   *)
(* also when that revocation is not confirmed.                             *)
(***************************************************************************)
FinishRejected(r) ==
    /\ At(r, "finish") /\ job[r].role = "steady"
    /\ Goto(r, "rejected")
    /\ UNCHANGED <<live, local>> \/ Issued(r)
    /\ UNCHANGED <<vault, flow, space>>

\* Start the next OAuth stage and saveOAuthFlow its state
SaveFlow(r) ==
    /\ At(r, "save")
    /\ flow' = [flow EXCEPT ![job[r].flow] =
                    IF job[r].role = "entry" THEN "provision" ELSE "steady"]
    /\ Goto(r, "redirected")
    /\ UNCHANGED <<live, local, vault, space>>

\* A flow record outlives its fifteen minutes
Expire(f) ==
    /\ flow[f] \in {"entry", "provision", "steady"}
    /\ flow' = [flow EXCEPT ![f] = "gone"]
    /\ UNCHANGED <<live, local, vault, job, space>>

-----------------------------------------------------------------------------
(* handleStart.                                                             *)

StartBegin(r) ==
    /\ At(r, "idle") /\ "start" \in Roles
    /\ Set(r, [NoJob EXCEPT !.pc = "clean", !.role = "start", !.on = "steady"])
    /\ UNCHANGED <<live, local, vault, flow, space>>

\* A new entry token, for a flow or, when none is left, one nobody will follow
Authorize(r) ==
    /\ \/ \E f \in Flows : flow[f] = "fresh" /\ flow' = [flow EXCEPT ![f] = "entry"]
       \/ (\A f \in Flows : flow[f] # "fresh") /\ UNCHANGED flow
    /\ Goto(r, "authorize")

CheckRead(r) ==
    /\ At(r, "check")
    /\ IF vault["ready"].exists
       THEN Set(r, [job[r] EXCEPT !.pc = "resume", !.on = "ready", !.seen = vault["ready"]])
            /\ UNCHANGED flow
       ELSE Authorize(r)
    /\ UNCHANGED <<live, local, vault, space>>

\* ErrSteadyReauthorizationRequired: a new flow, unless the retired are too many
Reauthorize(r) ==
    \/ Cardinality(job[r].seen.others) >= maxRetired /\ Goto(r, "full") /\ UNCHANGED flow
    \/ Cardinality(job[r].seen.others) < maxRetired /\ Authorize(r)

\* Resume: the tokens of the session read before, if the vault has them still
CheckResume(r) ==
    /\ At(r, "resume")
    /\ \/ job[r].seen.active \in local /\ Goto(r, "prove") /\ UNCHANGED flow
       \/ job[r].seen.active \notin local /\ Reauthorize(r)
       \/ Goto(r, "unavailable") /\ UNCHANGED flow
    /\ UNCHANGED <<live, local, vault, space>>

(***************************************************************************)
(* CheckSteady's proof with the tokens in memory.  A live session may need *)
(* reauthorization too (an expired access token is not refreshed), and any *)
(* proof may be unavailable.  A nonce the provider asks for is saved with  *)
(* the tokens, also when the session was deleted meanwhile.                *)
(***************************************************************************)
CheckAnswer(r) ==
    LET rec == job[r].seen IN
    /\ At(r, "prove")
    /\ local' \in {local, local \cup {rec.active}}
    /\ \/ /\ ProveSteady(rec.active)
          /\ Set(r, IF rec.others = {} THEN CleanDone(job[r]) ELSE Retiring(job[r], rec, rec.others))
          /\ UNCHANGED flow
       \/ Goto(r, "unavailable") /\ UNCHANGED flow
       \/ Reauthorize(r)
    /\ UNCHANGED <<live, vault, space>>

\* A crash, a client that went away, or an error of the store; in the callback
\* the provider may have issued the session already
Fail(r) ==
    /\ job[r].pc \in Working
    /\ Goto(r, "failed")
    /\ UNCHANGED <<live, local>> \/ (At(r, "finish") /\ Issued(r))
    /\ UNCHANGED <<vault, flow, space>>

-----------------------------------------------------------------------------

Init ==
    /\ live = {} /\ local = {}
    /\ vault = [n \in RecordNames |-> Absent]
    /\ flow = [f \in Flows |-> "fresh"] /\ space = "absent"
    /\ job = [r \in Requests |-> NoJob]

Handler(r) ==
    \/ CleanRead(r) \/ Retire(r) \/ CleanSwap(r) \/ RevokeRead(r) \/ RevokeDelete(r)
    \/ RevokeError(r) \/ PutRead(r) \/ PutSwap(r) \/ PutError(r)
    \/ FinishProvisioning(r) \/ CreateSpace(r) \/ VerifyConfig(r) \/ VerifyMembers(r)
    \/ CleanupSession(r) \/ FinishSteady(r) \/ FinishRejected(r)
    \/ SaveFlow(r) \/ CheckRead(r) \/ CheckResume(r) \/ CheckAnswer(r)

Next ==
    \/ \E r \in Requests : StartBegin(r) \/ RevokeBegin(r) \/ Consume(r) \/ Handler(r) \/ Fail(r)
    \/ \E f \in Flows : Expire(f)
    \/ OwnerChanges

Spec == Init /\ [][Next]_vars

\* Every call a handler makes returns or times out, so a handler goes on
Fairness == \A r \in Requests : WF_vars(Handler(r))

-----------------------------------------------------------------------------
(* Properties *)

RecordType == [exists: BOOLEAN, active: Requests \cup {None}, others: SUBSET Requests]

JobType ==
    [pc: {"idle"} \cup Working \cup Answers, role: Endpoints \cup {None},
     flow: Flows \cup {None}, on: RecordNames \cup {None}, seen: RecordType,
     todo: SUBSET Requests, kept: SUBSET Requests, tries: Nat, bad: BOOLEAN,
     begun: SUBSET Requests]

\* The types of the provider's, the vault's and the handlers' state
TypeOK ==
    /\ live \subseteq Requests /\ local \subseteq Requests
    /\ vault \in [RecordNames -> RecordType]
    /\ flow \in [Flows -> Stages] /\ space \in Spaces
    /\ job \in [Requests -> JobType]

(***************************************************************************)
(* No sequence of handlers writes a record that validReadyRecord or        *)
(* validDiscardedRecord refuses: such an account could no longer be        *)
(* started, replaced or revoked.                                           *)
(***************************************************************************)
RecordsValid ==
    \A n \in RecordNames :
        /\ vault[n].active \notin vault[n].others
        /\ Cardinality(vault[n].others) <= maxRetired
        /\ vault[n].active # None <=> n = "ready" /\ vault[n].exists

(***************************************************************************)
(* A record forgets a session only once the provider has revoked it: no    *)
(* cleanup, replacement or revocation working from a stale value drops the *)
(* handle of a grant that is still live.                                   *)
(***************************************************************************)
HandleKept == [][\A s \in Handles : s \in live' => s \in Handles']_vars

(***************************************************************************)
(* handleRevoke answers "revoked" only when every session any record held  *)
(* when the request arrived is revoked, whoever moved it meanwhile.        *)
(***************************************************************************)
RevokeComplete ==
    \A r \in Requests : At(r, "revoked") => job[r].begun \cap live = {}

(***************************************************************************)
(* handleRevoke passes over a record without error only when the record is *)
(* gone: a session that a callback recorded while the provider was being   *)
(* asked is neither forgotten nor reported as revoked.                     *)
(***************************************************************************)
RevokeDrains ==
    [][\A r \in Requests :
        LET j == job[r] IN
        /\ j.role = "revoke" /\ j.pc \in {"revoke", "retire"} /\ ~job'[r].bad
        /\ job'[r].on # j.on \/ job'[r].pc = "revoked"
        => ~vault'[j.on].exists]_vars

(***************************************************************************)
(* Without a revoke request nobody revokes the active session: cleanup of  *)
(* retired sessions never takes one that was installed meanwhile.          *)
(***************************************************************************)
ActiveUntouched ==
    (\A r \in Requests : job[r].role # "revoke") =>
        (vault["ready"].exists => vault["ready"].active \in live \cap local)

(***************************************************************************)
(* A callback that answered, for a session it was given, left its handle   *)
(* in a record: the one installed in "ready", the one whose first live     *)
(* proof failed or whose revocation was not confirmed in its queue.        *)
(***************************************************************************)
Retained ==
    \A r \in Requests :
        (At(r, "installed") \/ (At(r, "rejected") /\ job[r].on # None)) /\ r \in live
            => r \in Handles

(***************************************************************************)
(* Provisioning is complete before the steady stage begins: whoever else   *)
(* made the space or answered, the space is the exact one and the grant    *)
(* that could create it is revoked and deleted (client.go:76 of            *)
(* spaceprovision, oauthclient.go:522).                                    *)
(***************************************************************************)
ProvisionedExactly ==
    /\ \A f \in Flows : flow[f] = "steady" => space = "exact"
    /\ \A r \in Requests : job[r].role = "provision" /\ job[r].pc \in {"save", "redirected"}
                            => r \notin live \cup local

(***************************************************************************)
(* Browser entry and OAuth states are single use: two requests never       *)
(* continue the same stage of the same flow.                               *)
(***************************************************************************)
SingleUse ==
    \A r, q \in Requests :
        /\ job[r].role \in {"entry", "provision", "steady"}
        /\ job[r].role = job[q].role /\ job[r].flow = job[q].flow
        => r = q

\* Every handler ends: its compare-and-swap loops are bounded
Answered == \A r \in Requests : job[r].pc \in Working ~> job[r].pc \in Answers

(***************************************************************************)
(* driver.go on a rejected steady session: "a failed remote revocation can *)
(* never orphan the only handle for a newly persisted OAuth session".      *)
(***************************************************************************)
RejectedNeverOrphaned ==
    \A r \in Requests : At(r, "rejected") /\ r \in live \cap local => r \in Handles

=============================================================================
