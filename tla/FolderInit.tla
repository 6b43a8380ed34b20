----------------------------- MODULE FolderInit -----------------------------
(***************************************************************************)
(* The first initialisation of a mailbox's standard folders, which every   *)
(* Store of internal/authorityv3 goes through: ensureInitialFolderRecords  *)
(* inspects the folders one at a time, creates the missing ones in one     *)
(* provider batch and, when a racing initialiser was faster, inspects all  *)
(* of them once more.  AuthorityV3 takes the whole as one step that makes  *)
(* its variable folders true; that is what FolderStep below justifies.     *)
(*                                                                         *)
(* A folder's records are its initial revision, whose key depends on the   *)
(* creator's clock and is here the creator, and the claim of the operation *)
(* "initial", whose key depends on the folder only and which names the     *)
(* revision.  The order of the inspections is left open.                   *)
(***************************************************************************)
EXTENDS Naturals

CONSTANTS
    Folders,        \* the standard folders
    Requests        \* the requests that initialise them

ASSUME FolderAssumption == Folders # {}

VARIABLES
    claims,         \* [folder, key] operation claims of the repository
    revisions,      \* [folder, key] initial revisions of the repository
    pc,             \* where each request is
    todo,           \* folders each request has yet to inspect
    missing,        \* folders it found without a claim
    at,             \* the claim whose revision it reads next
    retried         \* it is in its second pass

vars == <<claims, revisions, pc, todo, missing, at, retried>>
local == <<todo, missing, at, retried>>

Record == [folder: Folders, key: Requests]
Claimed == {c.folder : c \in claims}
Running == {"inspect", "revision", "batch"}

Goto(r, label) == pc' = [pc EXCEPT ![r] = label]

Begin(r) ==
    /\ pc[r] = "idle"
    /\ Goto(r, "inspect")
    /\ UNCHANGED <<claims, revisions, local>>

\* folderInitializationExists: no claim, the folder has yet to be created
ClaimMissing(r, f) ==
    /\ f \notin Claimed
    /\ missing' = [missing EXCEPT ![r] = @ \cup {f}]
    /\ UNCHANGED <<pc, at>>

\* The claim is there; its revision is read next
ClaimFound(r, f) ==
    /\ \E c \in claims : c.folder = f /\ at' = [at EXCEPT ![r] = {c}]
    /\ Goto(r, "revision")
    /\ UNCHANGED missing

InspectClaim(r) ==
    /\ pc[r] = "inspect"
    /\ \E f \in todo[r] :
        /\ todo' = [todo EXCEPT ![r] = @ \ {f}]
        /\ ClaimMissing(r, f) \/ ClaimFound(r, f)
    /\ UNCHANGED <<claims, revisions, retried>>

\* A claim without its revision is an error of the repository
InspectRevision(r) ==
    /\ pc[r] = "revision"
    /\ Goto(r, IF at[r] \subseteq revisions THEN "inspect" ELSE "broken")
    /\ at' = [at EXCEPT ![r] = {}]
    /\ UNCHANGED <<claims, revisions, todo, missing, retried>>

\* All folders inspected: done, or the missing ones are created
Inspected(r) ==
    /\ pc[r] = "inspect" /\ todo[r] = {}
    /\ Goto(r, IF missing[r] = {} THEN "done" ELSE "batch")
    /\ UNCHANGED <<claims, revisions, local>>

\* initialFolderCreates for every missing folder
Creates(r) == [folder: missing[r], key: {r}]

\* Mutant: the claim is not part of the batch's precondition
BatchFreshRevisions(r) == Creates(r) \cap revisions = {}

\* CreateBatch is create-only: no record of the batch may exist
BatchFresh(r) == Creates(r) \cap revisions = {} /\ missing[r] \cap Claimed = {}

\* Mutant: a batch that fails leaves some of its records behind
CreateBatchPartly(r) ==
    /\ pc[r] = "batch"
    /\ \E some \in SUBSET Creates(r) :
        /\ some # {} /\ BatchFresh(r)
        /\ claims' = claims \cup some
        /\ revisions' = revisions \cup some
    /\ Goto(r, "failed")
    /\ UNCHANGED local

\* The batch commits as a whole; its response may be lost
CreateBatch(r) ==
    /\ pc[r] = "batch"
    /\ BatchFresh(r)
    /\ claims' = claims \cup Creates(r)
    /\ revisions' = revisions \cup Creates(r)
    /\ Goto(r, "done") \/ Goto(r, "failed")
    /\ UNCHANGED local

\* Mutant: the second pass starts from what the first one found missing
BatchExistsKeeps(r) ==
    /\ pc[r] = "batch"
    /\ ~BatchFresh(r)
    /\ retried' = [retried EXCEPT ![r] = TRUE]
    /\ todo' = [todo EXCEPT ![r] = Folders]
    /\ Goto(r, IF retried[r] THEN "collision" ELSE "inspect")
    /\ UNCHANGED <<claims, revisions, missing, at>>

\* Mutant: a collision is answered by another attempt, any number of times
BatchExistsForever(r) ==
    /\ pc[r] = "batch"
    /\ ~BatchFresh(r)
    /\ todo' = [todo EXCEPT ![r] = Folders]
    /\ Goto(r, "inspect")
    /\ UNCHANGED <<claims, revisions, missing, at, retried>>

\* repository.ErrExists: inspect everything once more, then give up
BatchExists(r) ==
    /\ pc[r] = "batch"
    /\ ~BatchFresh(r)
    /\ IF retried[r]
       THEN Goto(r, "collision") /\ UNCHANGED local
       ELSE /\ retried' = [retried EXCEPT ![r] = TRUE]
            /\ todo' = [todo EXCEPT ![r] = Folders]
            /\ missing' = [missing EXCEPT ![r] = {}]
            /\ Goto(r, "inspect")
            /\ UNCHANGED at
    /\ UNCHANGED <<claims, revisions>>

\* A provider error, a cancelled context or a crash
Fail(r) ==
    /\ pc[r] \in Running
    /\ Goto(r, "failed")
    /\ UNCHANGED <<claims, revisions, local>>

Init ==
    /\ claims = {} /\ revisions = {}
    /\ pc = [r \in Requests |-> "idle"]
    /\ todo = [r \in Requests |-> Folders]
    /\ missing = [r \in Requests |-> {}]
    /\ at = [r \in Requests |-> {}]
    /\ retried = [r \in Requests |-> FALSE]

Step(r) ==
    InspectClaim(r) \/ InspectRevision(r) \/ Inspected(r) \/ CreateBatch(r) \/ BatchExists(r)

Next == \E r \in Requests : Begin(r) \/ Step(r) \/ Fail(r)

Spec == Init /\ [][Next]_vars

\* Every provider call returns or times out
Fairness == \A r \in Requests : WF_vars(Step(r))
FairSpec == Spec /\ Fairness

-----------------------------------------------------------------------------
(* Properties *)

\* The type of the repository's folder records and of the requests' progress
TypeOK ==
    /\ claims \subseteq Record /\ revisions \subseteq Record
    /\ pc \in [Requests -> {"idle", "done", "collision", "broken", "failed"} \cup Running]
    /\ todo \in [Requests -> SUBSET Folders]
    /\ missing \in [Requests -> SUBSET Folders]
    /\ at \in [Requests -> SUBSET Record]
    /\ retried \in [Requests -> BOOLEAN]

(***************************************************************************)
(* The comment of ensureInitialFolderRecords, "a racing initializer may    *)
(* have won": whatever the interleaving of the inspections and the         *)
(* batches, one retry is enough, and no claim is read without revision.    *)
(***************************************************************************)
RetrySuffices == \A r \in Requests : pc[r] \notin {"collision", "broken"}

\* Who is told that the folders exist finds all of them, each created once
FoldersComplete ==
    /\ (\E r \in Requests : pc[r] = "done") => Claimed = Folders
    /\ \A c, e \in claims : c.folder = e.folder => c = e
    /\ claims = revisions

\* AuthorityV3's EnsureFolders: the folders appear all at once and stay
FolderStep ==
    [][UNCHANGED claims \/ (Claimed = {} /\ Claimed' = Folders)]_vars

\* Every initialisation ends
Ends == \A r \in Requests : pc[r] \in Running ~> pc[r] \notin Running

(***************************************************************************)
(* The inductive invariant.  Until somebody's batch commits, every folder  *)
(* a request has inspected is one it found missing, so the batch that wins *)
(* creates all of them; a request retries only after that, and then finds  *)
(* nothing missing.                                                        *)
(***************************************************************************)
AllOrNothing == Claimed \in {{}, Folders}

Progress(r) ==
    /\ at[r] \subseteq claims
    /\ Claimed = {} => missing[r] \cup todo[r] = Folders
    /\ retried[r] => Claimed = Folders /\ missing[r] = {}
    /\ pc[r] = "batch" => todo[r] = {} /\ missing[r] # {}

IInv ==
    /\ TypeOK /\ AllOrNothing /\ RetrySuffices /\ FoldersComplete
    /\ \A r \in Requests : Progress(r)

=============================================================================
