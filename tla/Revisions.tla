----------------------------- MODULE Revisions -----------------------------
(***************************************************************************)
(* The append-only mailbox state of internal/mailboxstate/revision.go: the *)
(* immutable revision records a message accumulates, what a set of them    *)
(* must satisfy before Reduce accepts it, and the state Reduce computes.   *)
(*                                                                         *)
(* A revision never changes once it is stored.  Its rkey is a hash of its  *)
(* whole content, so it is modelled as an opaque member of Keys; the       *)
(* operation claim stored with it is keyed by (message, operation) only.   *)
(* No operator here is recursive: the causal order is described by the     *)
(* sets that are closed under it.                                          *)
(***************************************************************************)
EXTENDS Integers, FiniteSets

CONSTANTS
    Messages,           \* logical message ids
    Versions,           \* fingerprints: the rkeys of message records
    NoVersion,          \* the absent Version field ("")
    Owner,              \* [Versions -> Messages]: LogicalMessageID of a fingerprint
    Ops,                \* operation ids, as integers in compareUTF8's order
    Keys,               \* rkeys of revision records
    Folders,            \* folder ids
    Keywords,           \* keyword names
    maxParents,         \* 64 in the code
    maxKeywords,        \* 128 in the code
    maxRevisionCount    \* 4096 in the code

ASSUME ConstantsAssumption ==
    /\ Owner \in [Versions -> Messages]
    /\ NoVersion \notin Versions
    /\ Ops \subseteq Int
    /\ maxParents \in Nat /\ maxKeywords \in Nat /\ maxRevisionCount \in Nat

(***************************************************************************)
(* RevisionRecord.  mailboxes = {} stands for an absent MailboxIDs (a      *)
(* stored one is never empty); on and off are the keywords assigned        *)
(* present and absent; nilKeywords tells a nil Keywords slice from an      *)
(* empty one, which reflect.DeepEqual distinguishes.                       *)
(***************************************************************************)
Revision ==
    [key: Keys, lm: Messages, op: Ops, parents: SUBSET Keys, rev: Nat,
     version: Versions \cup {NoVersion}, mailboxes: SUBSET Folders,
     on: SUBSET Keywords, off: SUBSET Keywords, nilKeywords: BOOLEAN,
     deletePending: {"unset", "yes", "no"}, tombstone: BOOLEAN]

\* OperationClaimRecord, stored under a key derived from (lm, op)
Claim == [lm: Messages, op: Ops, key: Keys]

\* NewOperationClaim
ClaimOf(r) == [lm |-> r.lm, op |-> r.op, key |-> r.key]

hasLiveAssignments(r) ==
    \/ r.version # NoVersion
    \/ r.mailboxes # {}
    \/ r.on \cup r.off # {}
    \/ r.deletePending # "unset"

(***************************************************************************)
(* json.Marshal followed by DecodeRevisionRecord.  Keywords is tagged      *)
(* omitempty, so an empty slice is not written and comes back nil.         *)
(***************************************************************************)
Decoded(r) == [r EXCEPT !.nilKeywords = (r.on \cup r.off = {})]

\* VerifyRevisionRetry: DeepEqual once the rkey and CreatedAt are set aside
VerifyRevisionRetry(expected, stored) ==
    [expected EXCEPT !.key = stored.key] = stored

\* What VerifyRevisionRetry means by a semantic replay: the same event
SameEvent(expected, stored) ==
    [expected EXCEPT !.key = stored.key, !.nilKeywords = stored.nilKeywords] = stored

-----------------------------------------------------------------------------
(* The revisions of one message and its causal graph.                       *)

RevisionsOf(R, m) == {r \in R : r.lm = m}
KeysOf(S) == {r.key : r \in S}
Parented(S) == UNION {r.parents : r \in S}

\* Heads: the revisions no other revision names as a parent
Heads(S) == KeysOf(S) \ Parented(S)

\* Height: the largest Revision of the set
Height(S) == CHOOSE h \in {r.rev : r \in S} : \A r \in S : r.rev <= h

\* Mutant: operation ids alone
BeforeByOp(a, b) == a.op < b.op

\* The order of Reduce's replay: by Revision, then by operation id
Before(a, b) == a.rev < b.rev \/ (a.rev = b.rev /\ a.op < b.op)

\* The last record of a non-empty set in replay order: it wins the field
Last(S) == CHOOSE r \in S : \A q \in S \ {r} : Before(q, r)

-----------------------------------------------------------------------------
(* Reduce's acceptance conditions for the revisions S of message m.         *)

\* validateRevision: the fields of one record
ValidRecord(r) ==
    /\ r.rev >= 1
    /\ Cardinality(r.parents) <= maxParents
    /\ Cardinality(r.on \cup r.off) <= maxKeywords
    /\ r.key \notin r.parents
    /\ r.tombstone => ~hasLiveAssignments(r)
    /\ r.tombstone \/ hasLiveAssignments(r)

\* Unique operations and rkeys, and one claim per revision, naming its rkey
ClaimsMatch(S, C) ==
    /\ \A r, q \in S : r.key = q.key \/ r.op = q.op => r = q
    /\ C = {ClaimOf(r) : r \in S}

\* Exactly one record without parents, and it is a complete initial revision
OneRoot(S) ==
    \E root \in S :
        /\ root.parents = {} /\ root.rev = 1
        /\ root.version # NoVersion /\ root.mailboxes # {}
        /\ \A r \in S : r.parents = {} => r = root

\* Every parent is present and earlier, and Revision is one above the latest
CausalHeights(S) ==
    \A r \in S : r.parents # {} =>
        /\ \A k \in r.parents : \E p \in S : p.key = k /\ p.rev < r.rev
        /\ \E p \in S : p.key \in r.parents /\ r.rev = p.rev + 1

(***************************************************************************)
(* Reduce propagates a causalTombstone flag along the parents and rejects  *)
(* a live assignment below a flagged parent.  Some set T of revisions must *)
(* hold every tombstone and be closed under "is a child of" without a      *)
(* live record entering it: the least such T is the flagged set.           *)
(***************************************************************************)
NoLiveAfterTombstone(S) ==
    \E T \in SUBSET KeysOf(S) :
        \A r \in S :
            /\ r.tombstone => r.key \in T
            /\ r.parents \cap T # {} => r.key \in T /\ ~hasLiveAssignments(r)

\* Referenced versions are stored and belong to the message, and conversely
VersionsReferenced(S, V) ==
    /\ \A r \in S : r.version # NoVersion => r.version \in V
    /\ \A v \in V : \E r \in S : r.version = v

CausallyValid(S, C, V) ==
    /\ \A r \in S : ValidRecord(r)
    /\ ClaimsMatch(S, C)
    /\ OneRoot(S)
    /\ CausalHeights(S)
    /\ NoLiveAfterTombstone(S)
    /\ VersionsReferenced(S, V)

-----------------------------------------------------------------------------
(* The reduced state: last writer wins per field, tombstones never undone.  *)

\* Mutant: the last writer decides, so a concurrent live record undoes it
TombstonedByLast(S) == \E r \in S : r.tombstone /\ r = Last(S)

Tombstoned(S) == \E r \in S : r.tombstone

SelectedVersion(S) == Last({r \in S : r.version # NoVersion}).version

SelectedMailboxes(S) == Last({r \in S : r.mailboxes # {}}).mailboxes

PresentKeywords(S) ==
    LET Writers(k) == {r \in S : k \in r.on \cup r.off}
    IN  {k \in Keywords : Writers(k) # {} /\ k \in Last(Writers(k)).on}

PendingDelete(S) ==
    LET writers == {r \in S : r.deletePending # "unset"}
    IN  /\ ~Tombstoned(S)
        /\ writers # {}
        /\ Last(writers).deletePending = "yes"

\* ReducedState without the digests, which are functions of these fields
Reduced(S) ==
    [version |-> SelectedVersion(S), mailboxes |-> SelectedMailboxes(S),
     keywords |-> PresentKeywords(S), deletePending |-> PendingDelete(S),
     tombstone |-> Tombstoned(S), heads |-> Heads(S), height |-> Height(S),
     count |-> Cardinality(S)]

=============================================================================
