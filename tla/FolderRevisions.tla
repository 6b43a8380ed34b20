-------------------------- MODULE FolderRevisions --------------------------
(***************************************************************************)
(* The folders of internal/mailboxstate/folder_revision.go: immutable      *)
(* revisions like those of a message, with rules of their own.  A standard *)
(* folder keeps its name and role and is never deleted; several roots are  *)
(* allowed; a merge revision only joins heads.  Per folder, ReduceFolder   *)
(* computes a state; ValidateFolderSet then looks at all of them.          *)
(*                                                                         *)
(* A folder revision has the fields key, op, parents and rev of a message  *)
(* revision, so the causal order, the heads and the last writer are those  *)
(* of Revisions.                                                           *)
(***************************************************************************)
EXTENDS Revisions

CONSTANTS
    Names,          \* folder names
    NoName,         \* the absent Name ("")
    NoRole,         \* the absent Role ("")
    Fold,           \* [Names -> ...]: a name without its letter case
    Standard,       \* the standard folders; a role is named by its folder
    StandardName    \* [Standard -> Names]

ASSUME FolderConstants ==
    /\ Standard \subseteq Folders /\ Standard # {}
    /\ StandardName \in [Standard -> Names]
    /\ NoName \notin Names /\ NoRole \notin Standard
    /\ DOMAIN Fold = Names

FolderRevision ==
    [key: Keys, folder: Folders, op: Ops, parents: SUBSET Keys, rev: Nat,
     name: Names \cup {NoName}, role: Standard \cup {NoRole},
     tombstone: BOOLEAN, merge: BOOLEAN]

\* FolderOperationClaimRecord, stored under a key derived from (folder, op)
FolderClaim == [folder: Folders, op: Ops, key: Keys]
FolderClaimOf(r) == [folder |-> r.folder, op |-> r.op, key |-> r.key]

FolderRevisionsOf(R, f) == {r \in R : r.folder = f}
Assigns(r) == r.name # NoName \/ r.role # NoRole

\* A standard folder is only ever rooted and merged
StandardRules(r) ==
    IF r.folder \in Standard
      THEN /\ ~r.tombstone
           /\ r.role \in {NoRole, r.folder}
           /\ r.parents # {} => ~Assigns(r)
      ELSE r.role = NoRole

validateFolderRevision(r) ==
    /\ r.rev >= 1
    /\ Cardinality(r.parents) <= maxParents
    /\ StandardRules(r)
    /\ r.merge # (Assigns(r) \/ r.tombstone)
    /\ r.merge => Cardinality(r.parents) >= 2
    /\ r.tombstone => ~Assigns(r)

\* Unique operations and rkeys, and one claim per revision, naming its rkey
FolderClaimsMatch(S, C) ==
    /\ \A r, q \in S : r.key = q.key \/ r.op = q.op => r = q
    /\ C = {FolderClaimOf(r) : r \in S}

\* At least one root, and every root names a live folder
FolderRoots(S) ==
    /\ \E r \in S : r.parents = {}
    /\ \A r \in S : r.parents = {} =>
        /\ r.rev = 1 /\ r.name # NoName /\ ~r.tombstone /\ ~r.merge
        /\ IF r.folder \in Standard
             THEN r.role = r.folder /\ r.name = StandardName[r.folder]
             ELSE r.role = NoRole

\* The causalTombstone flag of ReduceFolder, as in Revisions
NoAssignmentAfterTombstone(S) ==
    \E T \in SUBSET KeysOf(S) :
        \A r \in S :
            /\ r.tombstone => r.key \in T
            /\ r.parents \cap T # {} => r.key \in T /\ ~Assigns(r)

\* ReduceFolder accepts the revisions S of a folder with the claims C
FolderValid(S, C) ==
    /\ Cardinality(S) <= maxRevisionCount
    /\ \A r \in S : validateFolderRevision(r)
    /\ FolderClaimsMatch(S, C)
    /\ FolderRoots(S)
    /\ CausalHeights(S)
    /\ NoAssignmentAfterTombstone(S)

NameWriters(S) == {r \in S : r.name # NoName}

\* ReducedFolderState without its digests
ReduceFolder(S) ==
    [name |-> Last(NameWriters(S)).name,
     role |-> IF \E r \in S : r.role # NoRole
                THEN Last({r \in S : r.role # NoRole}).role ELSE NoRole,
     tombstone |-> Tombstoned(S), heads |-> Heads(S), height |-> Height(S)]

\* foldFolderName: names that differ in letter case only are one
foldFolderName(name) == Fold[name]
ReservedNames == {foldFolderName(StandardName[f]) : f \in Standard}

\* states is a function from the folders that have revisions
ValidateFolderSet(states) ==
    LET Live == {f \in DOMAIN states : ~states[f].tombstone}
    IN  /\ Standard \subseteq DOMAIN states
        /\ \A f \in Standard : /\ states[f].role = f /\ ~states[f].tombstone
                               /\ states[f].name = StandardName[f]
        /\ \A f \in DOMAIN states \ Standard : states[f].role = NoRole
        /\ \A f \in Live \ Standard : foldFolderName(states[f].name) \notin ReservedNames
        /\ \A f, g \in Live :
              foldFolderName(states[f].name) = foldFolderName(states[g].name) => f = g

=============================================================================
