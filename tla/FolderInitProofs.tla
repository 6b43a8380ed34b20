-------------------------- MODULE FolderInitProofs --------------------------
(***************************************************************************)
(* Proofs about FolderInit, for any set of standard folders and any number *)
(* of requests that initialise them.                                       *)
(***************************************************************************)
EXTENDS FolderInit, TLAPS

\* Initially nothing is claimed and nothing inspected
LEMMA InitInv == Init => IInv
  BY FolderAssumption
     DEF Init, IInv, TypeOK, AllOrNothing, RetrySuffices, FoldersComplete, Progress,
         Claimed, Record, Running

\* Where the invariant holds, a batch that may commit creates every folder
LEMMA WinnerCreatesAll ==
  ASSUME IInv, NEW r \in Requests, pc[r] = "batch", BatchFresh(r)
  PROVE  Claimed = {} /\ missing[r] = Folders
<1>1. missing[r] # {} /\ todo[r] = {} /\ missing[r] \subseteq Folders
  BY DEF IInv, Progress, TypeOK
<1>2. Claimed # Folders
  BY <1>1 DEF BatchFresh
<1>3. Claimed = {}
  BY <1>2 DEF IInv, AllOrNothing
<1>4. missing[r] = Folders
  BY <1>1, <1>3 DEF IInv, Progress
<1> QED BY <1>3, <1>4

\* A step that leaves the claims and the progress of the others alone
LEMMA BeginInv ==
  ASSUME IInv, NEW r \in Requests, Begin(r) \/ Fail(r)
  PROVE  IInv'
  BY DEF IInv, TypeOK, AllOrNothing, RetrySuffices, FoldersComplete, Progress,
         Claimed, Begin, Fail, Goto, local, Running

\* A folder without a claim is remembered, one with a claim proves AllOrNothing
LEMMA InspectClaimInv ==
  ASSUME IInv, NEW r \in Requests, InspectClaim(r)
  PROVE  IInv'
<1>1. PICK f \in todo[r] :
        /\ todo' = [todo EXCEPT ![r] = @ \ {f}]
        /\ ClaimMissing(r, f) \/ ClaimFound(r, f)
  BY DEF InspectClaim
<1>2. UNCHANGED <<claims, revisions, retried>> /\ pc[r] = "inspect" /\ Claimed' = Claimed
  BY DEF InspectClaim, Claimed
<1>3. TypeOK'
  <2>1. CASE ClaimMissing(r, f)
    BY <1>1, <1>2, <2>1 DEF ClaimMissing, IInv, TypeOK
  <2>2. CASE ClaimFound(r, f)
    BY <1>1, <1>2, <2>2 DEF ClaimFound, Goto, IInv, TypeOK, Running
  <2> QED BY <1>1, <2>1, <2>2
<1>4. RetrySuffices' /\ FoldersComplete' /\ AllOrNothing'
  <2>1. pc' = pc \/ pc' = [pc EXCEPT ![r] = "revision"]
    BY <1>1 DEF ClaimMissing, ClaimFound, Goto
  <2> QED BY <1>2, <2>1 DEF IInv, TypeOK, RetrySuffices, FoldersComplete, AllOrNothing
<1>5. ASSUME NEW q \in Requests PROVE Progress(q)'
  <2>1. CASE ClaimMissing(r, f)
    <3>1. retried[r] => Claimed = Folders
      BY DEF IInv, Progress
    <3>2. f \notin Claimed /\ f \in Folders
      BY <1>1, <2>1 DEF ClaimMissing, IInv, TypeOK
    <3> QED BY <1>1, <1>2, <2>1, <3>1, <3>2 DEF ClaimMissing, IInv, TypeOK, Progress
  <2>2. CASE ClaimFound(r, f)
    <3>1. Claimed # {}
      BY <2>2 DEF ClaimFound, Claimed
    <3> QED BY <1>1, <1>2, <2>2, <3>1 DEF ClaimFound, Goto, IInv, TypeOK, Progress
  <2> QED BY <1>1, <2>1, <2>2
<1> QED BY <1>3, <1>4, <1>5 DEF IInv

\* The revision a claim names is there, because both came in one batch
LEMMA InspectRevisionInv ==
  ASSUME IInv, NEW r \in Requests, InspectRevision(r)
  PROVE  IInv'
<1>1. at[r] \subseteq revisions
  BY DEF IInv, Progress, FoldersComplete
<1> QED
  BY <1>1 DEF IInv, TypeOK, AllOrNothing, RetrySuffices, FoldersComplete, Progress,
              Claimed, InspectRevision, Goto, Running

\* Who found nothing missing looked at a repository that has the folders
LEMMA InspectedInv ==
  ASSUME IInv, NEW r \in Requests, Inspected(r)
  PROVE  IInv'
<1>1. missing[r] = {} => Claimed = Folders
  BY FolderAssumption DEF Inspected, IInv, Progress, AllOrNothing
<1> QED
  BY <1>1 DEF IInv, TypeOK, AllOrNothing, RetrySuffices, FoldersComplete, Progress,
              Claimed, Inspected, Goto, local, Running

\* The batch that commits is the only one that ever does
LEMMA CreateBatchInv ==
  ASSUME IInv, NEW r \in Requests, CreateBatch(r)
  PROVE  IInv' /\ Claimed = {} /\ Claimed' = Folders
<1>1. Claimed = {} /\ missing[r] = Folders
  BY WinnerCreatesAll DEF CreateBatch
<1>2. claims = {} /\ revisions = {}
  <2>1. \A c \in claims : c.folder \in Claimed
    BY DEF Claimed
  <2>2. claims = {}
    BY <1>1, <2>1
  <2> QED BY <2>2 DEF IInv, FoldersComplete
<1>3. claims' = Creates(r) /\ revisions' = Creates(r) /\ UNCHANGED local
  BY <1>2 DEF CreateBatch
<1>4. Claimed' = Folders
  <2>1. \A f \in Folders : [folder |-> f, key |-> r] \in claims'
    BY <1>1, <1>3 DEF Creates
  <2>2. \A c \in claims' : c.folder \in Folders
    BY <1>1, <1>3 DEF Creates
  <2>3. \A f \in Folders : \E c \in claims' : c.folder = f
    BY <2>1
  <2> QED BY <2>2, <2>3 DEF Claimed
<1>5. pc' = [pc EXCEPT ![r] = "done"] \/ pc' = [pc EXCEPT ![r] = "failed"]
  BY DEF CreateBatch, Goto
<1>6. TypeOK'
  BY <1>1, <1>3, <1>5 DEF IInv, TypeOK, Creates, Record, local, Running
<1>7. RetrySuffices' /\ FoldersComplete' /\ AllOrNothing'
  BY <1>3, <1>4, <1>5 DEF IInv, TypeOK, RetrySuffices, FoldersComplete, AllOrNothing, Creates
<1>8. ASSUME NEW q \in Requests PROVE Progress(q)'
  BY <1>2, <1>3, <1>4, <1>5, FolderAssumption DEF IInv, TypeOK, Progress, local
<1> QED BY <1>1, <1>4, <1>6, <1>7, <1>8 DEF IInv

\* A collision means that the folders are all there, and happens once
LEMMA BatchExistsInv ==
  ASSUME IInv, NEW r \in Requests, BatchExists(r)
  PROVE  IInv'
<1>1. ~retried[r]
  BY DEF BatchExists, IInv, Progress
<1>2. Claimed = Folders
  <2>1. CASE missing[r] \cap Claimed # {}
    BY <2>1 DEF IInv, AllOrNothing
  <2>2. CASE Creates(r) \cap revisions # {}
    <3>1. claims # {}
      BY <2>2 DEF IInv, FoldersComplete
    <3> QED BY <3>1 DEF IInv, AllOrNothing, Claimed
  <2> QED BY <2>1, <2>2 DEF BatchExists, BatchFresh
<1> QED
  BY <1>1, <1>2, FolderAssumption
     DEF IInv, TypeOK, AllOrNothing, RetrySuffices, FoldersComplete, Progress,
         Claimed, BatchExists, Goto, Running

\* Every step preserves the invariant
LEMMA NextInv == IInv /\ [Next]_vars => IInv'
<1> SUFFICES ASSUME IInv, [Next]_vars PROVE IInv'
  OBVIOUS
<1>1. CASE UNCHANGED vars
  BY <1>1 DEF IInv, TypeOK, AllOrNothing, RetrySuffices, FoldersComplete, Progress, Claimed, vars
<1>2. ASSUME NEW r \in Requests, Begin(r) \/ Step(r) \/ Fail(r) PROVE IInv'
  BY <1>2, BeginInv, InspectClaimInv, InspectRevisionInv, InspectedInv, CreateBatchInv,
     BatchExistsInv DEF Step
<1> QED BY <1>1, <1>2 DEF Next

\* ensureInitialFolderRecords keeps the invariant under any interleaving
THEOREM FolderInvariant == Spec => []IInv
  BY InitInv, NextInv, PTL DEF Spec

(***************************************************************************)
(* For any number of initialisers and folders a single retry suffices: the *)
(* second collision ensureInitialFolderRecords fails on cannot happen.     *)
(***************************************************************************)
THEOREM OneRetrySuffices == Spec => []RetrySuffices
<1>1. IInv => RetrySuffices
  BY DEF IInv
<1> QED BY FolderInvariant, <1>1, PTL

\* Who is told that the folders exist finds all of them, each created once
THEOREM FoldersAreComplete == Spec => []FoldersComplete
<1>1. IInv => FoldersComplete
  BY DEF IInv
<1> QED BY FolderInvariant, <1>1, PTL

\* A step leaves the claims alone or creates all the folders
LEMMA StepIsFolderStep ==
  ASSUME IInv, [Next]_vars
  PROVE  [UNCHANGED claims \/ (Claimed = {} /\ Claimed' = Folders)]_vars
<1>1. CASE UNCHANGED vars
  BY <1>1
<1>2. ASSUME NEW r \in Requests, Begin(r) \/ Step(r) \/ Fail(r)
      PROVE  UNCHANGED claims \/ (Claimed = {} /\ Claimed' = Folders)
  <2>1. CASE CreateBatch(r)
    BY <2>1, CreateBatchInv
  <2>2. CASE ~CreateBatch(r)
    BY <1>2, <2>2 DEF Begin, Step, Fail, InspectClaim, InspectRevision, Inspected, BatchExists
  <2> QED BY <2>1, <2>2
<1> QED BY <1>1, <1>2 DEF Next

\* The initialisation is AuthorityV3's one atomic EnsureFolders step
THEOREM FoldersAppearAtOnce == Spec => FolderStep
<1>1. IInv /\ [Next]_vars => [UNCHANGED claims \/ (Claimed = {} /\ Claimed' = Folders)]_vars
  BY StepIsFolderStep
<1> QED BY FolderInvariant, <1>1, PTL DEF Spec, FolderStep

=============================================================================
