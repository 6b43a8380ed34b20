----------------------------- MODULE CausalLog -----------------------------
(***************************************************************************)
(* What the append-only mailbox promises, without saying how: a store that *)
(* only grows, one revision at a time, in which every new revision follows *)
(* causally from revisions already there that carry no tombstone.  This is *)
(* the abstract specification of internal/authorityv3's writer and of the  *)
(* provider's create-only batch; AuthorityV3 is shown to implement it.     *)
(***************************************************************************)
EXTENDS Revisions

CONSTANT Initial        \* the operation id "initial"

ASSUME InitialAssumption == Initial \in Ops

VARIABLES
    revs,       \* the stored revision records
    claims,     \* the stored operation claims
    msgs        \* the stored message versions

logVars == <<revs, claims, msgs>>

ClaimsOf(C, m) == {c \in C : c.lm = m}
VersionsOf(V, m) == {v \in V : Owner[v] = m}

LogInit == revs = {} /\ claims = {} /\ msgs = {}

\* The first revision of a message: it has no parents and is complete
RootRevision(r) ==
    /\ r.op = Initial
    /\ r.parents = {} /\ r.rev = 1
    /\ r.version # NoVersion /\ r.mailboxes # {}

\* A revision one above the latest of its parents, none of them a tombstone
FollowsFrom(r, S) ==
    /\ r.parents # {} /\ r.parents \subseteq KeysOf(S)
    /\ \A p \in S : p.key \in r.parents => p.rev < r.rev /\ ~p.tombstone
    /\ \E p \in S : p.key \in r.parents /\ r.rev = p.rev + 1

(***************************************************************************)
(* One atomic batch: the revision, its claim and, for a new version, the   *)
(* message record.  No record of the batch exists beforehand.              *)
(***************************************************************************)
Append(r, V) ==
    /\ r.key \notin KeysOf(revs)
    /\ \A c \in claims : c.lm = r.lm => c.op # r.op
    /\ ValidRecord(r)
    /\ V \subseteq {r.version} \cap Versions
    /\ V \cap msgs = {}
    /\ r.version # NoVersion => Owner[r.version] = r.lm /\ r.version \in msgs \cup V
    /\ RootRevision(r) \/ FollowsFrom(r, RevisionsOf(revs, r.lm))
    /\ revs' = revs \cup {r}
    /\ claims' = claims \cup {ClaimOf(r)}
    /\ msgs' = msgs \cup V

\* A step's revision and version are what it adds to the store
LogNext == \E r \in revs' \ revs : r \in Revision /\ Append(r, msgs' \ msgs)

LogSpec == LogInit /\ [][LogNext]_logVars

-----------------------------------------------------------------------------

LogTypeOK ==
    /\ revs \subseteq Revision
    /\ claims \subseteq Claim
    /\ msgs \subseteq Versions

(***************************************************************************)
(* The complete source can always be reduced: for every message that has   *)
(* any record, the reducer accepts its revisions, claims and versions.  A  *)
(* single message for which this fails makes every later snapshot, store   *)
(* and append of the mailbox fail (reduceOfficialSpacesInventory).         *)
(***************************************************************************)
SourceReducible ==
    \A m \in Messages :
        LET S == RevisionsOf(revs, m)
            C == ClaimsOf(claims, m)
            V == VersionsOf(msgs, m)
        IN  \/ S = {} /\ C = {} /\ V = {}
            \/ CausallyValid(S, C, V)

=============================================================================
