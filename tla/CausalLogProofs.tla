--------------------------- MODULE CausalLogProofs ---------------------------
(***************************************************************************)
(* CausalLog keeps the source reducible, for every set of messages,        *)
(* versions, operations and limits.                                        *)
(*                                                                         *)
(* SourceReducible is not inductive: it says nothing across messages and   *)
(* does not say that a tombstone has no children.  LogInv strengthens it:  *)
(* rkeys are unique in the whole repository, a claim stands for exactly    *)
(* one revision, and no tombstone is ever named as a parent.               *)
(***************************************************************************)
EXTENDS CausalLog, TLAPS

UniqueKeys == \A r, q \in revs : r.key = q.key => r = q

UniqueOps == \A r, q \in revs : r.lm = q.lm /\ r.op = q.op => r = q

ClaimPerRevision == claims = {ClaimOf(r) : r \in revs}

\* Every revision is the root of its message or follows from stored ones
CausalOrigin ==
    \A r \in revs :
        /\ ValidRecord(r)
        /\ \/ RootRevision(r)
           \/ FollowsFrom(r, RevisionsOf(revs, r.lm))

\* A message that has revisions has its root
RootPresent == \A r \in revs : \E root \in revs : root.lm = r.lm /\ RootRevision(root)

VersionsClosed ==
    /\ \A r \in revs : r.version # NoVersion => r.version \in msgs /\ Owner[r.version] = r.lm
    /\ \A v \in msgs : \E r \in revs : r.version = v /\ r.lm = Owner[v]

LogInv ==
    /\ LogTypeOK
    /\ UniqueKeys
    /\ UniqueOps
    /\ ClaimPerRevision
    /\ CausalOrigin
    /\ RootPresent
    /\ VersionsClosed

-----------------------------------------------------------------------------

\* A revision that follows from stored ones still does when the store grows
LEMMA FollowsStable ==
    ASSUME NEW R, NEW x, NEW r,
           x.key \notin KeysOf(R),
           FollowsFrom(r, RevisionsOf(R, r.lm))
    PROVE  FollowsFrom(r, RevisionsOf(R \cup {x}, r.lm))
<1> DEFINE S == RevisionsOf(R, r.lm)
           T == RevisionsOf(R \cup {x}, r.lm)
<1>1. S \subseteq T /\ T \subseteq S \cup {x}
  BY DEF RevisionsOf
<1>2. r.parents # {} /\ r.parents \subseteq KeysOf(S)
  BY DEF FollowsFrom
<1>3. KeysOf(S) \subseteq KeysOf(R) /\ KeysOf(S) \subseteq KeysOf(T)
  BY <1>1 DEF KeysOf, RevisionsOf
<1>4. x.key \notin r.parents
  BY <1>2, <1>3
<1>5. \A p \in T : p.key \in r.parents => p.rev < r.rev /\ ~p.tombstone
  BY <1>1, <1>4 DEF FollowsFrom
<1>6. \E p \in T : p.key \in r.parents /\ r.rev = p.rev + 1
  BY <1>1 DEF FollowsFrom
<1> QED
  BY <1>2, <1>3, <1>5, <1>6 DEF FollowsFrom

\* The empty store satisfies the inductive invariant
LEMMA LogInvInit == LogInit => LogInv
  BY DEF LogInit, LogInv, LogTypeOK, UniqueKeys, UniqueOps, ClaimPerRevision,
         CausalOrigin, RootPresent, VersionsClosed

\* One appended batch preserves the inductive invariant
LEMMA LogInvAppend ==
    ASSUME LogInv, NEW r \in Revision, NEW V \in SUBSET Versions, Append(r, V)
    PROVE  LogInv'
<1> USE DEF LogInv
<1>1. LogTypeOK'
  <2>1. ClaimOf(r) \in Claim
    BY DEF ClaimOf, Claim, Revision
  <2> QED
    BY <2>1 DEF LogTypeOK, Append
<1>2. UniqueKeys'
  BY DEF UniqueKeys, Append, KeysOf
<1>3. UniqueOps'
  <2>1. \A q \in revs : ~(q.lm = r.lm /\ q.op = r.op)
    <3>1. \A q \in revs : ClaimOf(q) \in claims
      BY DEF ClaimPerRevision
    <3>2. \A q \in revs : ClaimOf(q).lm = q.lm /\ ClaimOf(q).op = q.op
      BY DEF ClaimOf
    <3> QED
      BY <3>1, <3>2 DEF Append
  <2> QED
    BY <2>1 DEF UniqueOps, Append
<1>4. ClaimPerRevision'
  BY DEF ClaimPerRevision, Append
<1>5. CausalOrigin'
  <2>1. r.key \notin KeysOf(revs) /\ revs' = revs \cup {r} /\ ValidRecord(r)
    BY DEF Append
  <2>2. ASSUME NEW q \in revs, FollowsFrom(q, RevisionsOf(revs, q.lm))
        PROVE  FollowsFrom(q, RevisionsOf(revs', q.lm))
    BY <2>1, <2>2, FollowsStable
  <2>3. RootRevision(r) \/ FollowsFrom(r, RevisionsOf(revs', r.lm))
    BY <2>1, FollowsStable DEF Append
  <2>4. \A q \in revs : ValidRecord(q)
                        /\ (RootRevision(q) \/ FollowsFrom(q, RevisionsOf(revs', q.lm)))
    BY <2>2 DEF CausalOrigin
  <2> QED
    BY <2>1, <2>3, <2>4 DEF CausalOrigin
<1>6. RootPresent'
  <2>1. \E root \in revs' : root.lm = r.lm /\ RootRevision(root)
    <3>1. CASE RootRevision(r)
      BY <3>1 DEF Append
    <3>2. CASE FollowsFrom(r, RevisionsOf(revs, r.lm))
      <4>1. PICK p \in RevisionsOf(revs, r.lm) : p.key \in r.parents
        BY <3>2 DEF FollowsFrom
      <4>2. p \in revs /\ p.lm = r.lm
        BY <4>1 DEF RevisionsOf
      <4> QED
        BY <4>2 DEF RootPresent, Append
    <3> QED
      BY <3>1, <3>2 DEF Append
  <2> QED
    BY <2>1 DEF RootPresent, Append
<1>7. VersionsClosed'
  <2>1. \A v \in V : v = r.version /\ v # NoVersion
    BY ConstantsAssumption DEF Append
  <2> QED
    BY <2>1 DEF VersionsClosed, Append
<1> QED
  BY <1>1, <1>2, <1>3, <1>4, <1>5, <1>6, <1>7

\* The inductive invariant implies that every message reduces
LEMMA LogInvReducible == LogInv => SourceReducible
<1> SUFFICES ASSUME LogInv, NEW m \in Messages, RevisionsOf(revs, m) # {} \/ ClaimsOf(claims, m) # {}
                                              \/ VersionsOf(msgs, m) # {}
             PROVE  CausallyValid(RevisionsOf(revs, m), ClaimsOf(claims, m), VersionsOf(msgs, m))
  BY DEF SourceReducible
<1> USE DEF LogInv
<1> DEFINE S == RevisionsOf(revs, m)
           C == ClaimsOf(claims, m)
           V == VersionsOf(msgs, m)
<1>1. \A r \in S : r \in revs /\ r.lm = m
  BY DEF RevisionsOf
<1>2. C = {ClaimOf(r) : r \in S}
  <2>1. \A r \in revs : ClaimOf(r).lm = r.lm
    BY DEF ClaimOf
  <2> QED
    BY <2>1 DEF ClaimPerRevision, ClaimsOf, RevisionsOf
<1>3. S # {}
  BY <1>2 DEF VersionsClosed, VersionsOf, RevisionsOf
<1>4. \A r \in S : ValidRecord(r) /\ (RootRevision(r) \/ FollowsFrom(r, S))
  BY <1>1 DEF CausalOrigin
<1>5. ClaimsMatch(S, C)
  BY <1>1, <1>2 DEF ClaimsMatch, UniqueKeys, UniqueOps
<1>6. OneRoot(S)
  <2>1. PICK root \in revs : root.lm = m /\ RootRevision(root)
    BY <1>1, <1>3 DEF RootPresent
  <2>2. root \in S
    BY <2>1 DEF RevisionsOf
  <2>3. \A r \in S : r.parents = {} => r = root
    BY <1>1, <1>4, <2>1 DEF UniqueOps, RootRevision, FollowsFrom
  <2> QED
    BY <2>1, <2>2, <2>3 DEF OneRoot, RootRevision
<1>7. CausalHeights(S)
  <2> SUFFICES ASSUME NEW r \in S, r.parents # {}
               PROVE  /\ \A k \in r.parents : \E p \in S : p.key = k /\ p.rev < r.rev
                      /\ \E p \in S : p.key \in r.parents /\ r.rev = p.rev + 1
    BY DEF CausalHeights
  <2>1. FollowsFrom(r, S)
    BY <1>4 DEF RootRevision
  <2> QED
    BY <2>1 DEF FollowsFrom, KeysOf
<1>8. NoLiveAfterTombstone(S)
  <2> DEFINE T == {r.key : r \in {q \in S : q.tombstone}}
  <2>1. T \in SUBSET KeysOf(S)
    BY DEF KeysOf
  <2>2. ASSUME NEW r \in S PROVE r.parents \cap T = {}
    <3>1. CASE RootRevision(r)
      BY <3>1 DEF RootRevision
    <3>2. CASE FollowsFrom(r, S)
      BY <3>2 DEF FollowsFrom
    <3> QED
      BY <1>4, <3>1, <3>2
  <2>3. \A r \in S : r.tombstone => r.key \in T
    OBVIOUS
  <2> HIDE DEF T
  <2> QED
    BY <2>1, <2>2, <2>3 DEF NoLiveAfterTombstone
<1>9. VersionsReferenced(S, V)
  BY <1>1 DEF VersionsReferenced, VersionsClosed, VersionsOf, RevisionsOf
<1> QED
  BY <1>4, <1>5, <1>6, <1>7, <1>8, <1>9 DEF CausallyValid

(***************************************************************************)
(* The inductive invariant holds throughout the abstract log.              *)
(***************************************************************************)
THEOREM LogInvariant == LogSpec => []LogInv
<1>1. LogInit => LogInv
  BY LogInvInit
<1>2. LogInv /\ [LogNext]_logVars => LogInv'
  <2> SUFFICES ASSUME LogInv, [LogNext]_logVars PROVE LogInv'
    OBVIOUS
  <2>1. CASE LogNext
    <3>1. PICK r \in revs' \ revs : r \in Revision /\ Append(r, msgs' \ msgs)
      BY <2>1 DEF LogNext
    <3>2. msgs' \ msgs \in SUBSET Versions
      BY <3>1 DEF Append
    <3> QED
      BY <3>1, <3>2, LogInvAppend
  <2>2. CASE UNCHANGED logVars
    BY <2>2 DEF logVars, LogInv, LogTypeOK, UniqueKeys, UniqueOps, ClaimPerRevision,
                CausalOrigin, RootPresent, VersionsClosed
  <2> QED
    BY <2>1, <2>2
<1> QED
  BY <1>1, <1>2, PTL DEF LogSpec

(***************************************************************************)
(* A log whose appends follow causally from untombstoned revisions can be  *)
(* reduced in every reachable state: no message poisons the source.        *)
(***************************************************************************)
THEOREM LogReducible == LogSpec => []SourceReducible
  BY LogInvariant, LogInvReducible, PTL

=============================================================================
