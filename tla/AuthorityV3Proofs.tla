-------------------------- MODULE AuthorityV3Proofs --------------------------
(***************************************************************************)
(* The v3 authority implements CausalLog, and what it acknowledges stays,  *)
(* for any number of concurrent requests and any value of the constants.   *)
(*                                                                         *)
(* The inductive invariant adds to CausalLog's: what every request that    *)
(* has built a revision knows about it (its parents are stored, none is a  *)
(* tombstone, it is one above the latest), which stays true while other    *)
(* requests append; and that replay order has a last record, which is what *)
(* makes the reduced state well defined.                                   *)
(***************************************************************************)
EXTENDS AuthorityV3, CausalLogProofs, FiniteSetTheorems

HasLast(W) == \E r \in W : \A q \in W \ {r} : Before(q, r)

VersionWriters(S) == {r \in S : r.version # NoVersion}
MailboxWriters(S) == {r \in S : r.mailboxes # {}}

\* The reduced state of every message with revisions is well defined
ReducedDefined ==
    \A m \in Messages : Of(m) # {} =>
        HasLast(Of(m)) /\ HasLast(VersionWriters(Of(m))) /\ HasLast(MailboxWriters(Of(m)))

\* What a request that was admitted asks for
InputOK(in) ==
    in.kind # "none" =>
        /\ in.lm \in Messages /\ in.version \in Versions
        /\ Owner[in.version] = in.lm /\ in.mailboxes # {}

\* A request that has not committed owns no stored revision
Uncommitted == {"idle", "ensure", "lookup", "upload", "check", "commit"}

\* What is known of the revision a request built
BuiltOK(q) ==
    LET b == built[q] IN
    /\ b \in Revision /\ b.key = q /\ b.lm = input[q].lm
    /\ RootRevision(b) \/ FollowsFrom(b, RevisionsOf(revs, b.lm))
    /\ b.tombstone <=> ~hasLiveAssignments(b)
    /\ input[q].kind = "store" => b.version = input[q].version
    /\ b.version # NoVersion => Owner[b.version] = b.lm
    /\ input[q].kind = "append" =>
        /\ b.version # NoVersion => b.version \in msgs
        /\ b.op = input[q].op /\ b.parents = input[q].expected.heads
        /\ b.tombstone = input[q].tombstone
        /\ ~b.tombstone => b.version = input[q].version /\ b.mailboxes = input[q].mailboxes

\* The revision a request built, or a replay of it, is stored
Stored(q) ==
    \E s \in revs :
        /\ s.lm = built[q].lm /\ s.op = built[q].op /\ s.parents = built[q].parents
        /\ s.tombstone = built[q].tombstone /\ s.version = built[q].version
        /\ s.mailboxes = built[q].mailboxes

\* AcknowledgedDurable, for one request
Durable(q) ==
    LET in == input[q] IN
    IF in.kind = "store"
    THEN /\ in.version \in msgs \cap blobs
         /\ \E s \in Of(in.lm) : s.version = in.version
    ELSE \E s \in Of(in.lm) :
            /\ s.op = in.op /\ s.parents = in.expected.heads
            /\ s.tombstone = in.tombstone
            /\ ~s.tombstone => s.version = in.version /\ s.mailboxes = in.mailboxes

RequestOK(q) ==
    /\ InputOK(input[q])
    /\ pc[q] # "idle" => input[q].kind # "none"
    /\ pc[q] \in {"ensure", "lookup", "upload"} => input[q].kind = "store"
    /\ pc[q] = "check" => input[q].kind = "append"
    /\ pc[q] \in Uncommitted => q \notin KeysOf(revs)
    /\ pc[q] \in {"upload", "commit", "inspect", "verify"} => BuiltOK(q)
    /\ pc[q] = "commit" => Encodable(built[q])
    /\ pc[q] \in {"commit", "inspect", "verify"} /\ input[q].kind = "store"
           => input[q].version \in blobs
    /\ pc[q] = "verify" => Stored(q)
    /\ pc[q] = "ok" => Durable(q)

RequestsOK == \A q \in Requests : RequestOK(q)

IInv ==
    /\ TypeOK
    /\ LogInv
    /\ IsFiniteSet(revs)
    /\ ReducedDefined
    /\ msgs \subseteq blobs
    /\ RequestsOK

-----------------------------------------------------------------------------
(* The reduced state.                                                       *)

\* Adding a record with a new operation keeps a last record in replay order
LEMMA HasLastAdd ==
    ASSUME NEW W \in SUBSET Revision, NEW x \in Revision,
           W = {} \/ HasLast(W), \A q \in W : q.op # x.op
    PROVE  HasLast(W \cup {x})
<1>1. CASE W = {}
  BY <1>1 DEF HasLast
<1>2. CASE HasLast(W)
  <2>1. PICK w \in W : \A q \in W \ {w} : Before(q, w)
    BY <1>2 DEF HasLast
  <2>2. \A q \in W \cup {x} : q.rev \in Int /\ q.op \in Int
    <3>1. \A q \in Revision : q.rev \in Int /\ q.op \in Ops
      BY DEF Revision
    <3> QED
      BY <3>1, ConstantsAssumption
  <2>3. CASE Before(x, w)
    BY <2>1, <2>3 DEF HasLast
  <2>4. CASE ~Before(x, w)
    <3>1. Before(w, x)
      BY <2>1, <2>2, <2>4 DEF Before
    <3>2. \A q \in W : Before(q, x)
      BY <2>1, <2>2, <3>1 DEF Before
    <3> QED
      BY <3>2 DEF HasLast
  <2> QED
    BY <2>3, <2>4
<1> QED
  BY <1>1, <1>2

\* The last record of a set that has one is a member of it
LEMMA LastMember ==
    ASSUME NEW W, HasLast(W)
    PROVE  Last(W) \in W
  BY DEF HasLast, Last

\* Height is the largest revision number of the set
LEMMA HeightIsMax ==
    ASSUME NEW S \in SUBSET Revision, HasLast(S)
    PROVE  \E p \in S : p.rev = Height(S) /\ \A r \in S : r.rev <= Height(S)
<1>1. PICK p \in S : \A q \in S \ {p} : Before(q, p)
  BY DEF HasLast
<1>2. \A q \in S : q.rev \in Int
  BY DEF Revision
<1>3. \A q \in S : q.rev <= p.rev
  BY <1>1, <1>2 DEF Before
<1>4. \E h \in {r.rev : r \in S} : \A r \in S : r.rev <= h
  BY <1>3
<1>5. Height(S) \in {r.rev : r \in S} /\ \A r \in S : r.rev <= Height(S)
  BY <1>4 DEF Height
<1> QED
  BY <1>5

\* The reduced state of a message has the contract's type
LEMMA ReducedType ==
    ASSUME IInv, NEW m \in Messages, Of(m) # {}
    PROVE  Current(m) \in StateType
<1> DEFINE S == Of(m)
<1>1. S \in SUBSET Revision /\ HasLast(S) /\ HasLast(VersionWriters(S)) /\ HasLast(MailboxWriters(S))
  BY DEF IInv, TypeOK, ReducedDefined, Of, RevisionsOf
<1>2. SelectedVersion(S) \in Versions \cup {NoVersion}
  <2>1. Last(VersionWriters(S)) \in S
    BY <1>1, LastMember DEF VersionWriters
  <2> QED
    BY <1>1, <2>1 DEF SelectedVersion, VersionWriters, Revision
<1>3. SelectedMailboxes(S) \in SUBSET Folders
  <2>1. Last(MailboxWriters(S)) \in S
    BY <1>1, LastMember DEF MailboxWriters
  <2> QED
    BY <1>1, <2>1 DEF SelectedMailboxes, MailboxWriters, Revision
<1>4. PresentKeywords(S) \in SUBSET Keywords
  BY DEF PresentKeywords
<1>5. PendingDelete(S) \in BOOLEAN /\ Tombstoned(S) \in BOOLEAN
  BY DEF PendingDelete, Tombstoned
<1>6. Heads(S) \in SUBSET Keys
  BY <1>1 DEF Heads, KeysOf, Revision
<1>7. Height(S) \in Nat
  BY <1>1, HeightIsMax DEF Revision
<1>8. Cardinality(S) \in Nat
  BY FS_Subset, FS_CardinalityType DEF IInv, Of, RevisionsOf
<1> QED
  BY <1>2, <1>3, <1>4, <1>5, <1>6, <1>7, <1>8 DEF Current, Reduced, StateType

(***************************************************************************)
(* A revision built on the heads and the height of an untombstoned message *)
(* follows causally from what is stored.                                   *)
(***************************************************************************)
LEMMA HeadsFollow ==
    ASSUME IInv, NEW m \in Messages, Of(m) # {}, ~Tombstoned(Of(m)),
           NEW b \in Revision, b.parents = Heads(Of(m)), b.rev = Height(Of(m)) + 1
    PROVE  FollowsFrom(b, Of(m))
<1> DEFINE S == Of(m)
<1>1. S \in SUBSET Revision /\ HasLast(S)
  BY DEF IInv, TypeOK, ReducedDefined, Of, RevisionsOf
<1>2. PICK p \in S : p.rev = Height(S) /\ \A r \in S : r.rev <= Height(S)
  BY <1>1, HeightIsMax
<1>3. \A r \in S : r.rev \in Nat
  BY <1>1 DEF Revision
<1>4. p.key \in Heads(S)
  <2> SUFFICES ASSUME NEW q \in S, p.key \in q.parents PROVE FALSE
    BY DEF Heads, KeysOf, Parented
  <2>1. RootRevision(q) \/ FollowsFrom(q, S)
    BY DEF IInv, LogInv, CausalOrigin, Of, RevisionsOf
  <2>2. p.rev < q.rev
    BY <2>1 DEF RootRevision, FollowsFrom
  <2> QED
    BY <1>2, <1>3, <2>2
<1>5. Heads(S) \subseteq KeysOf(S)
  BY DEF Heads
<1>6. \A q \in S : q.rev < b.rev /\ ~q.tombstone
  BY <1>2, <1>3 DEF Tombstoned
<1> QED
  BY <1>2, <1>4, <1>5, <1>6 DEF FollowsFrom

-----------------------------------------------------------------------------
(* What a step that is not a request's own leaves true of it.               *)

\* A request keeps what it knows while others add records to the repository
LEMMA RequestStable ==
    ASSUME IInv, NEW q \in Requests,
           pc'[q] = pc[q], input'[q] = input[q], built'[q] = built[q],
           blobs \subseteq blobs', msgs \subseteq msgs',
           \/ revs' = revs
           \/ \E x : revs' = revs \cup {x} /\ x.key \notin KeysOf(revs) /\ x.key # q
    PROVE  RequestOK(q)'
<1>1. RequestOK(q)
  BY DEF IInv, RequestsOK
<1>2. revs \subseteq revs'
  OBVIOUS
<1>3. ASSUME q \notin KeysOf(revs) PROVE q \notin KeysOf(revs')
  BY <1>3 DEF KeysOf
<1>4. ASSUME NEW b, FollowsFrom(b, RevisionsOf(revs, b.lm))
      PROVE  FollowsFrom(b, RevisionsOf(revs', b.lm))
  BY <1>4, FollowsStable
<1>5. ASSUME BuiltOK(q) PROVE BuiltOK(q)'
  BY <1>4, <1>5 DEF BuiltOK
<1>6. ASSUME Stored(q) PROVE Stored(q)'
  BY <1>2, <1>6 DEF Stored
<1>7. ASSUME Durable(q) PROVE Durable(q)'
  BY <1>2, <1>7 DEF Durable, Of, RevisionsOf
<1> QED
  BY <1>1, <1>3, <1>5, <1>6, <1>7 DEF RequestOK

\* A step of request r that writes no record preserves the invariant
LEMMA QuietStep ==
    ASSUME IInv, NEW r \in Requests, UNCHANGED repo, blobs \subseteq blobs',
           \A q \in Requests \ {r} :
               pc'[q] = pc[q] /\ input'[q] = input[q] /\ built'[q] = built[q],
           TypeOK', RequestOK(r)'
    PROVE  IInv'
<1>1. revs' = revs /\ claims' = claims /\ msgs' = msgs
  BY DEF repo, logVars
<1>2. LogInv'
  BY <1>1 DEF IInv, LogInv, LogTypeOK, UniqueKeys, UniqueOps, ClaimPerRevision,
              CausalOrigin, RootPresent, VersionsClosed
<1>3. ReducedDefined'
  BY <1>1 DEF IInv, ReducedDefined, Of
<1>4. RequestsOK'
  <2> SUFFICES ASSUME NEW q \in Requests, q # r PROVE RequestOK(q)'
    BY DEF RequestsOK
  <2> QED
    BY <1>1, RequestStable
<1> QED
  BY <1>1, <1>2, <1>3, <1>4 DEF IInv

-----------------------------------------------------------------------------
(* The steps that write no record, one lemma each.                          *)

\* NoInput is a well typed input that asks for nothing
LEMMA NoInputType == NoInput \in InputType /\ NoInput.kind = "none"
  BY InitialAssumption DEF NoInput, NoState, InputType, StateType

\* A new Store has built nothing and is owed nothing
LEMMA StoreBeginOK ==
    ASSUME IInv, NEW r \in Requests, StoreBegin(r) PROVE IInv'
<1>1. PICK v \in Versions, box \in MailboxChoices, kw \in KeywordChoices :
        input' = [input EXCEPT ![r] =
            [NoInput EXCEPT !.kind = "store", !.lm = Owner[v], !.version = v,
                            !.mailboxes = box, !.keywords = kw]]
  BY DEF StoreBegin
<1> DEFINE in == [NoInput EXCEPT !.kind = "store", !.lm = Owner[v], !.version = v,
                                 !.mailboxes = box, !.keywords = kw]
<1>2. /\ in \in InputType /\ in.kind = "store" /\ in.version = v
      /\ in.lm = Owner[v] /\ Owner[v] \in Messages /\ in.mailboxes # {}
  BY NoInputType, ConstantsAssumption, AuthorityAssumption DEF InputType
<1> HIDE DEF in
<1>3. input'[r] = in /\ pc'[r] = "ensure" /\ pc[r] = "idle" /\ revs' = revs
  BY <1>1 DEF in, StoreBegin, Goto, IInv, TypeOK, repo, logVars
<1>4. TypeOK'
  BY <1>1, <1>2 DEF in, IInv, TypeOK, StoreBegin, Goto, repo, logVars, Running
<1>5. RequestOK(r)'
  <2>1. r \notin KeysOf(revs)
    BY <1>3 DEF IInv, RequestsOK, RequestOK, Uncommitted
  <2> QED
    BY <1>2, <1>3, <2>1 DEF RequestOK, InputOK
<1> QED
  BY <1>4, <1>5, QuietStep DEF StoreBegin, Goto, IInv, TypeOK

\* Initialising the folders touches no message
LEMMA EnsureFoldersOK ==
    ASSUME IInv, NEW r \in Requests, EnsureFolders(r) PROVE IInv'
<1>1. TypeOK'
  BY DEF IInv, TypeOK, EnsureFolders, Goto, repo, logVars, Running
<1>2. RequestOK(r)'
  <2>1. RequestOK(r) /\ pc[r] = "ensure" /\ pc'[r] = "lookup"
    BY DEF IInv, RequestsOK, EnsureFolders, Goto, TypeOK
  <2> QED
    BY <2>1 DEF RequestOK, EnsureFolders, repo, logVars, Uncommitted
<1> QED
  BY <1>1, <1>2, QuietStep DEF EnsureFolders, Goto, IInv, TypeOK

\* The revision a Store builds is typed and follows from what is stored
LEMMA StoreBuilds ==
    ASSUME IInv, NEW r \in Requests, input[r].kind = "store",
           ~Tombstoned(Of(input[r].lm)),
           NEW b, b = IF Of(input[r].lm) = {} THEN InitialRevision(r)
                      ELSE VersionRevision(r, Current(input[r].lm))
    PROVE  /\ b \in Revision /\ b.key = r /\ b.lm = input[r].lm
           /\ b.version = input[r].version /\ b.version # NoVersion
           /\ Owner[b.version] = b.lm /\ ~b.tombstone
           /\ RootRevision(b) \/ FollowsFrom(b, Of(b.lm))
<1> DEFINE in == input[r]
<1>1. /\ in \in InputType /\ in.lm \in Messages /\ in.version \in Versions
      /\ Owner[in.version] = in.lm /\ in.mailboxes # {} /\ in.version # NoVersion
  BY ConstantsAssumption DEF IInv, TypeOK, RequestsOK, RequestOK, InputOK
<1>2. r \in Keys
  BY AuthorityAssumption
<1>3. InitialRevision(r) \in Revision
  BY <1>1, <1>2, InitialAssumption DEF InitialRevision, Revision, InputType
<1>4. CASE Of(in.lm) = {}
  BY <1>1, <1>3, <1>4 DEF InitialRevision, RootRevision
<1>5. CASE Of(in.lm) # {}
  <2> DEFINE c == Current(in.lm)
  <2>1. c \in StateType
    BY <1>1, <1>5, ReducedType
  <2>2. c.heads = Heads(Of(in.lm)) /\ c.height = Height(Of(in.lm))
    BY DEF Current, Reduced
  <2>3. VersionOp[in.version] \in Ops
    BY <1>1, AuthorityAssumption
  <2> HIDE DEF c
  <2>4. b = VersionRevision(r, c)
    BY <1>5 DEF c
  <2>5. b \in Revision
    <3>1. /\ c.heads \in SUBSET Keys /\ c.height + 1 \in Nat
          /\ c.keywords \ in.keywords \in SUBSET Keywords
      BY <2>1 DEF StateType
    <3> DEFINE i == InitialRevision(r)
    <3>2. i \in Revision /\ b = [i EXCEPT !.op = VersionOp[in.version], !.parents = c.heads,
                         !.rev = c.height + 1, !.off = c.keywords \ in.keywords]
      BY <1>3, <2>4 DEF VersionRevision
    <3> HIDE DEF i
    <3> QED
      BY <2>3, <3>1, <3>2 DEF Revision
  <2>6. /\ b.key = r /\ b.lm = in.lm /\ b.version = in.version /\ ~b.tombstone
        /\ b.parents = Heads(Of(in.lm)) /\ b.rev = Height(Of(in.lm)) + 1
    <3>1. /\ b.key = InitialRevision(r).key /\ b.lm = InitialRevision(r).lm
          /\ b.version = InitialRevision(r).version /\ b.tombstone = InitialRevision(r).tombstone
          /\ b.parents = c.heads /\ b.rev = c.height + 1
      BY <1>3, <2>4 DEF VersionRevision, Revision
    <3> QED
      BY <2>2, <3>1 DEF InitialRevision
  <2> QED
    BY <1>1, <1>5, <2>5, <2>6, HeadsFollow
<1> QED
  BY <1>4, <1>5

\* Store, having read the snapshot: found, refused, or a record that follows
LEMMA StoreLookupOK ==
    ASSUME IInv, NEW r \in Requests, StoreLookup(r) PROVE IInv'
<1>1. /\ RequestOK(r) /\ pc[r] = "lookup" /\ input[r].kind = "store"
      /\ input'[r] = input[r] /\ revs' = revs /\ msgs' = msgs /\ blobs' = blobs
      /\ r \notin KeysOf(revs)
  BY DEF IInv, RequestsOK, RequestOK, StoreLookup, repo, logVars, Uncommitted
<1>2. CASE StoreFound(r)
  <2>1. TypeOK'
    BY <1>2 DEF IInv, TypeOK, StoreLookup, StoreFound, Goto, repo, logVars, Answered
  <2>2. Durable(r)
    <3>1. input[r].version \in msgs /\ Owner[input[r].version] = input[r].lm
      BY <1>1, <1>2 DEF StoreFound, RequestOK, InputOK
    <3>2. PICK s \in revs : s.version = input[r].version /\ s.lm = input[r].lm
      BY <3>1 DEF IInv, LogInv, VersionsClosed
    <3> QED
      BY <1>1, <3>1, <3>2 DEF Durable, Of, RevisionsOf, IInv
  <2>3. RequestOK(r)'
    BY <1>1, <1>2, <2>2 DEF RequestOK, StoreFound, Goto, Durable, Of, IInv, TypeOK, Uncommitted
  <2> QED
    BY <1>2, <2>1, <2>3, QuietStep DEF StoreLookup, StoreFound, Goto, IInv, TypeOK
<1>3. CASE StoreTombstoned(r)
  <2>1. TypeOK'
    BY <1>3 DEF IInv, TypeOK, StoreLookup, StoreTombstoned, Goto, repo, logVars, Answered
  <2>2. RequestOK(r)'
    BY <1>1, <1>3 DEF RequestOK, StoreTombstoned, Goto, IInv, TypeOK, Uncommitted
  <2> QED
    BY <1>3, <2>1, <2>2, QuietStep DEF StoreLookup, StoreTombstoned, Goto, IInv, TypeOK
<1>4. CASE StoreNew(r)
  <2> DEFINE b == IF Of(input[r].lm) = {} THEN InitialRevision(r)
                  ELSE VersionRevision(r, Current(input[r].lm))
  <2>1. /\ b \in Revision /\ b.key = r /\ b.lm = input[r].lm
        /\ b.version = input[r].version /\ b.version # NoVersion
        /\ Owner[b.version] = b.lm /\ ~b.tombstone
        /\ RootRevision(b) \/ FollowsFrom(b, Of(b.lm))
    BY <1>1, <1>4, StoreBuilds DEF StoreNew
  <2>2. built' = [built EXCEPT ![r] = b] /\ pc' = [pc EXCEPT ![r] = "upload"]
    BY <1>4 DEF StoreNew, Goto
  <2> HIDE DEF b
  <2>3. built'[r] = b /\ pc'[r] = "upload"
    BY <2>2 DEF IInv, TypeOK
  <2>4. TypeOK'
    BY <2>1, <2>2 DEF IInv, TypeOK, StoreLookup, repo, logVars, Running
  <2>5. BuiltOK(r)'
    BY <1>1, <2>1, <2>3 DEF BuiltOK, hasLiveAssignments, Of
  <2>6. RequestOK(r)'
    BY <1>1, <2>3, <2>5 DEF RequestOK
  <2> QED
    BY <2>2, <2>4, <2>6, QuietStep DEF StoreLookup, IInv, TypeOK
<1> QED
  BY <1>2, <1>3, <1>4 DEF StoreLookup

\* The bytes are there before the batch that refers to them
LEMMA UploadOK ==
    ASSUME IInv, NEW r \in Requests, Upload(r) PROVE IInv'
<1>1. /\ RequestOK(r) /\ pc[r] = "upload" /\ input[r].kind = "store" /\ revs' = revs
      /\ msgs' = msgs /\ input' = input /\ built' = built
      /\ pc'[r] = IF Encodable(built[r]) THEN "commit" ELSE "limit"
      /\ BuiltOK(r) /\ r \notin KeysOf(revs)
  BY DEF IInv, TypeOK, RequestsOK, RequestOK, Upload, Goto, repo, logVars, Uncommitted
<1>2. TypeOK'
  <2>1. input[r].version \in Versions
    BY <1>1 DEF RequestOK, InputOK
  <2> QED
    BY <2>1 DEF IInv, TypeOK, Upload, Goto, repo, logVars, Running, Answered
<1>3. BuiltOK(r)'
  BY <1>1 DEF BuiltOK
<1>4. input[r].version \in blobs'
  BY DEF Upload
<1>5. RequestOK(r)'
  BY <1>1, <1>3, <1>4 DEF RequestOK, Encodable, Uncommitted
<1> QED
  BY <1>2, <1>5, QuietStep DEF Upload, Goto, IInv, TypeOK

\* A mutation names a state that was read from the repository
LEMMA AppendBeginOK ==
    ASSUME IInv, NEW r \in Requests, AppendBegin(r) PROVE IInv'
<1>1. PICK m \in Messages, op \in ClientOps, kw \in KeywordChoices,
           box \in MailboxChoices, v \in Versions, del, tomb \in BOOLEAN :
        /\ Of(m) # {}
        /\ Current(m).count < maxRevisionCount
        /\ Owner[v] = m
        /\ input' = [input EXCEPT ![r] =
            [kind |-> "append", lm |-> m, version |-> v, mailboxes |-> box,
             keywords |-> kw, deletePending |-> del, tombstone |-> tomb,
             op |-> op, snapshot |-> commit, expected |-> Current(m)]]
  BY DEF AppendBegin
<1> DEFINE in == [kind |-> "append", lm |-> m, version |-> v, mailboxes |-> box,
                  keywords |-> kw, deletePending |-> del, tombstone |-> tomb,
                  op |-> op, snapshot |-> commit, expected |-> Current(m)]
<1>2. in \in InputType
  <2>1. Current(m) \in StateType
    BY <1>1, ReducedType
  <2>2. commit \in Nat /\ op \in Ops /\ kw \in SUBSET Keywords /\ box \in SUBSET Folders
    BY AuthorityAssumption DEF IInv, TypeOK
  <2> QED
    BY <2>1, <2>2 DEF InputType
<1>3. in.kind = "append" /\ InputOK(in)
  BY <1>1, AuthorityAssumption DEF InputOK
<1> HIDE DEF in
<1>4. input'[r] = in /\ pc'[r] = "check" /\ pc[r] = "idle" /\ revs' = revs
  BY <1>1 DEF in, AppendBegin, Goto, IInv, TypeOK, repo, logVars
<1>5. TypeOK'
  BY <1>1, <1>2 DEF in, IInv, TypeOK, AppendBegin, Goto, repo, logVars, Running
<1>6. RequestOK(r)'
  <2>1. r \notin KeysOf(revs)
    BY <1>4 DEF IInv, RequestsOK, RequestOK, Uncommitted
  <2> QED
    BY <1>3, <1>4, <2>1 DEF RequestOK
<1> QED
  BY <1>5, <1>6, QuietStep DEF AppendBegin, Goto, IInv, TypeOK

\* A mutation sent again is as good as the one it repeats
LEMMA AppendResendOK ==
    ASSUME IInv, NEW r \in Requests, AppendResend(r) PROVE IInv'
<1>1. PICK q \in Requests : input[q].kind = "append" /\ input' = [input EXCEPT ![r] = input[q]]
  BY DEF AppendResend
<1>2. input'[r] = input[q] /\ pc'[r] = "check" /\ pc[r] = "idle" /\ revs' = revs
  BY <1>1 DEF AppendResend, Goto, IInv, TypeOK, repo, logVars
<1>3. TypeOK'
  BY <1>1 DEF IInv, TypeOK, AppendResend, Goto, repo, logVars, Running
<1>4. RequestOK(r)'
  <2>1. InputOK(input[q]) /\ r \notin KeysOf(revs)
    BY <1>2 DEF IInv, RequestsOK, RequestOK, Uncommitted
  <2> QED
    BY <1>1, <1>2, <2>1 DEF RequestOK
<1> QED
  BY <1>3, <1>4, QuietStep DEF AppendResend, Goto, IInv, TypeOK

\* The revision an AppendState builds is typed and follows from what is stored
LEMMA AppendBuilds ==
    ASSUME IInv, NEW r \in Requests, input[r].kind = "append",
           Unmoved(r), ~Tombstoned(Of(input[r].lm)),
           NEW b, b = IF input[r].tombstone THEN TombstoneRevision(r) ELSE MutationRevision(r)
    PROVE  /\ b \in Revision /\ b.key = r /\ b.lm = input[r].lm
           /\ FollowsFrom(b, Of(b.lm))
           /\ b.op = input[r].op /\ b.parents = input[r].expected.heads
           /\ b.tombstone = input[r].tombstone
           /\ b.tombstone <=> ~hasLiveAssignments(b)
           /\ b.version = IF b.tombstone THEN NoVersion ELSE input[r].version
           /\ ~b.tombstone => b.mailboxes = input[r].mailboxes
<1> DEFINE in == input[r]
           mu == MutationRevision(r)
<1>1. /\ in \in InputType /\ in.lm \in Messages /\ in.version \in Versions
      /\ in.mailboxes # {} /\ in.version # NoVersion /\ r \in Keys
  BY ConstantsAssumption, AuthorityAssumption DEF IInv, TypeOK, RequestsOK, RequestOK, InputOK
<1>2. in.expected \in StateType /\ in.tombstone \in BOOLEAN
  BY <1>1 DEF InputType
<1>3. /\ mu \in Revision /\ mu.key = r /\ mu.lm = in.lm /\ mu.op = in.op
      /\ mu.parents = in.expected.heads /\ mu.rev = in.expected.height + 1
      /\ mu.version = in.version /\ mu.mailboxes = in.mailboxes /\ mu.tombstone = FALSE
  BY <1>1, <1>2 DEF MutationRevision, Revision, InputType, StateType
<1> HIDE DEF mu
<1>4. /\ b \in Revision /\ b.key = r /\ b.lm = in.lm /\ b.op = in.op
      /\ b.parents = in.expected.heads /\ b.rev = in.expected.height + 1
      /\ b.tombstone = in.tombstone
      /\ b.version = IF in.tombstone THEN NoVersion ELSE in.version
      /\ ~in.tombstone => b.mailboxes = in.mailboxes
      /\ in.tombstone => b.mailboxes = {} /\ b.on = {} /\ b.off = {} /\ b.deletePending = "unset"
  <2>1. CASE in.tombstone
    <3>1. b = [mu EXCEPT !.version = NoVersion, !.mailboxes = {}, !.on = {}, !.off = {},
                         !.nilKeywords = TRUE, !.deletePending = "unset", !.tombstone = TRUE]
      BY <2>1 DEF mu, TombstoneRevision
    <3>2. b \in Revision
      BY <1>3, <3>1 DEF Revision
    <3>3. /\ b.key = mu.key /\ b.lm = mu.lm /\ b.op = mu.op
          /\ b.parents = mu.parents /\ b.rev = mu.rev
      BY <1>3, <3>1 DEF Revision
    <3>4. /\ b.version = NoVersion /\ b.mailboxes = {} /\ b.on = {} /\ b.off = {}
          /\ b.deletePending = "unset"
      BY <1>3, <3>1 DEF Revision
    <3>5. b.tombstone = TRUE
      BY <1>3, <3>1 DEF Revision
    <3>6. in.tombstone = TRUE
      BY <1>2, <2>1
    <3> QED
      BY <1>3, <3>2, <3>3, <3>4, <3>5, <3>6
  <2>2. CASE ~in.tombstone
    <3>1. b = mu
      BY <2>2 DEF mu
    <3> QED
      BY <1>2, <1>3, <2>2, <3>1
  <2> QED
    BY <2>1, <2>2
<1>5. b.tombstone <=> ~hasLiveAssignments(b)
  BY <1>1, <1>2, <1>4 DEF hasLiveAssignments
<1>6. FollowsFrom(b, Of(in.lm))
  <2>1. Of(in.lm) # {} /\ in.expected = Current(in.lm)
    BY DEF Unmoved
  <2>2. b.parents = Heads(Of(in.lm)) /\ b.rev = Height(Of(in.lm)) + 1
    BY <1>4, <2>1 DEF Current, Reduced
  <2> QED
    BY <1>1, <1>4, <2>1, <2>2, HeadsFollow
<1> QED
  BY <1>2, <1>4, <1>5, <1>6

\* AppendState, having read the snapshot: refused or a record that follows
LEMMA AppendCheckOK ==
    ASSUME IInv, NEW r \in Requests, AppendCheck(r) PROVE IInv'
<1>1. /\ RequestOK(r) /\ pc[r] = "check" /\ input[r].kind = "append" /\ revs' = revs
      /\ msgs' = msgs /\ input' = input /\ r \notin KeysOf(revs)
  BY DEF IInv, RequestsOK, RequestOK, AppendCheck, repo, logVars, Uncommitted
<1>2. CASE AppendConflict(r) \/ AppendInvalid(r)
  <2>1. pc'[r] \in {"conflict", "invalid"} /\ TypeOK'
    BY <1>2 DEF IInv, TypeOK, AppendCheck, AppendConflict, AppendInvalid, Goto, repo, logVars, Answered
  <2>2. RequestOK(r)'
    BY <1>1, <2>1 DEF RequestOK, Uncommitted
  <2> QED
    BY <1>2, <2>1, <2>2, QuietStep
    DEF AppendCheck, AppendConflict, AppendInvalid, Goto, IInv, TypeOK
<1>3. CASE AppendBuild(r)
  <2> DEFINE b == IF input[r].tombstone THEN TombstoneRevision(r) ELSE MutationRevision(r)
  <2>1. /\ b \in Revision /\ b.key = r /\ b.lm = input[r].lm
        /\ FollowsFrom(b, Of(b.lm))
        /\ b.op = input[r].op /\ b.parents = input[r].expected.heads
        /\ b.tombstone = input[r].tombstone
        /\ b.tombstone <=> ~hasLiveAssignments(b)
        /\ b.version = IF b.tombstone THEN NoVersion ELSE input[r].version
        /\ ~b.tombstone => b.mailboxes = input[r].mailboxes
    BY <1>1, <1>3, AppendBuilds DEF AppendBuild
  <2>2. /\ built' = [built EXCEPT ![r] = b]
        /\ pc' = [pc EXCEPT ![r] = IF Encodable(b) THEN "commit" ELSE "limit"]
        /\ ~input[r].tombstone => input[r].version \in msgs
    BY <1>3 DEF AppendBuild, Goto
  <2> HIDE DEF b
  <2>3. built'[r] = b /\ pc'[r] = IF Encodable(b) THEN "commit" ELSE "limit"
    BY <2>2 DEF IInv, TypeOK
  <2>4. TypeOK'
    BY <2>1, <2>2 DEF IInv, TypeOK, AppendCheck, repo, logVars, Running, Answered
  <2>5. BuiltOK(r)'
    <3>1. Owner[input[r].version] = input[r].lm
      BY <1>1 DEF RequestOK, InputOK
    <3> QED
      BY <1>1, <2>1, <2>2, <2>3, <3>1 DEF BuiltOK, Of
  <2>6. RequestOK(r)'
    BY <1>1, <2>3, <2>5 DEF RequestOK, Encodable
  <2> QED
    BY <2>2, <2>4, <2>6, QuietStep DEF AppendCheck, IInv, TypeOK
<1> QED
  BY <1>2, <1>3 DEF AppendCheck

\* A refused batch changes nothing
LEMMA BatchExistsOK ==
    ASSUME IInv, NEW r \in Requests, BatchExists(r) PROVE IInv'
<1>1. /\ RequestOK(r) /\ pc[r] = "commit" /\ pc'[r] = "inspect" /\ revs' = revs
      /\ msgs' = msgs /\ blobs' = blobs /\ input' = input /\ built' = built
  BY DEF IInv, RequestsOK, TypeOK, BatchExists, Goto, repo, logVars
<1>2. TypeOK'
  BY DEF IInv, TypeOK, BatchExists, Goto, repo, logVars, Running
<1>3. RequestOK(r)'
  BY <1>1 DEF RequestOK, BuiltOK, Uncommitted
<1> QED
  BY <1>2, <1>3, QuietStep DEF BatchExists, Goto, IInv, TypeOK

\* stateAppendExists accepts only a stored record of the same event
LEMMA InspectOK ==
    ASSUME IInv, NEW r \in Requests, Inspect(r) PROVE IInv'
<1>1. /\ RequestOK(r) /\ pc[r] = "inspect" /\ revs' = revs /\ BuiltOK(r)
      /\ msgs' = msgs /\ blobs' = blobs /\ input' = input /\ built' = built
  BY DEF IInv, RequestsOK, RequestOK, Inspect, Goto, repo, logVars
<1>2. TypeOK' /\ pc'[r] \in {"verify", "collision"}
  BY DEF IInv, TypeOK, Inspect, Goto, repo, logVars, Running, Answered
<1>3. ASSUME pc'[r] = "verify" PROVE Stored(r)
  <2>1. PICK s \in revs : VerifyRevisionRetry(built[r], s)
    BY <1>3 DEF Inspect, Goto, IInv, TypeOK
  <2>2. built[r] \in Revision
    BY <1>1 DEF BuiltOK
  <2>3. /\ s.lm = built[r].lm /\ s.op = built[r].op /\ s.parents = built[r].parents
        /\ s.tombstone = built[r].tombstone /\ s.version = built[r].version
        /\ s.mailboxes = built[r].mailboxes
    BY <2>1, <2>2 DEF VerifyRevisionRetry, Revision
  <2> QED
    BY <2>3 DEF Stored
<1>4. RequestOK(r)'
  BY <1>1, <1>2, <1>3 DEF RequestOK, BuiltOK, Stored, Uncommitted
<1> QED
  BY <1>2, <1>4, QuietStep DEF Inspect, Goto, IInv, TypeOK

\* What Store acknowledges is stored
LEMMA StoreVerifyOK ==
    ASSUME IInv, NEW r \in Requests, StoreVerify(r) PROVE IInv'
<1>1. /\ RequestOK(r) /\ pc[r] = "verify" /\ input[r].kind = "store" /\ revs' = revs
      /\ msgs' = msgs /\ blobs' = blobs /\ input' = input /\ built' = built
  BY DEF IInv, RequestsOK, StoreVerify, repo, logVars
<1>2. TypeOK' /\ pc'[r] \in {"ok", "conflict", "failed"}
  BY DEF IInv, TypeOK, StoreVerify, Goto, repo, logVars, Answered
<1>3. ASSUME pc'[r] = "ok" PROVE Durable(r)
  <2>1. input[r].version \in msgs /\ Owner[input[r].version] = input[r].lm
    BY <1>1, <1>3 DEF StoreVerify, Goto, IInv, TypeOK, RequestOK, InputOK
  <2>2. PICK s \in revs : s.version = input[r].version /\ s.lm = input[r].lm
    BY <2>1 DEF IInv, LogInv, VersionsClosed
  <2> QED
    BY <1>1, <2>1, <2>2 DEF Durable, Of, RevisionsOf, IInv
<1>4. RequestOK(r)'
  BY <1>1, <1>2, <1>3 DEF RequestOK, Durable, Of, Uncommitted
<1> QED
  BY <1>2, <1>4, QuietStep DEF StoreVerify, Goto, IInv, TypeOK

\* What AppendState acknowledges is stored
LEMMA AppendVerifyOK ==
    ASSUME IInv, NEW r \in Requests, AppendVerify(r) PROVE IInv'
<1>1. /\ RequestOK(r) /\ pc[r] = "verify" /\ input[r].kind = "append" /\ revs' = revs
      /\ msgs' = msgs /\ blobs' = blobs /\ input' = input /\ built' = built
  BY DEF IInv, RequestsOK, AppendVerify, repo, logVars
<1>2. TypeOK' /\ pc'[r] \in {"ok", "conflict", "failed"}
  BY DEF IInv, TypeOK, AppendVerify, Goto, repo, logVars, Answered
<1>3. Durable(r)
  <2>1. Stored(r) /\ BuiltOK(r)
    BY <1>1 DEF RequestOK
  <2>2. PICK s \in revs :
            /\ s.lm = built[r].lm /\ s.op = built[r].op /\ s.parents = built[r].parents
            /\ s.tombstone = built[r].tombstone /\ s.version = built[r].version
            /\ s.mailboxes = built[r].mailboxes
    BY <2>1 DEF Stored
  <2> QED
    BY <1>1, <2>1, <2>2 DEF Durable, BuiltOK, Of, RevisionsOf
<1>4. RequestOK(r)'
  BY <1>1, <1>2, <1>3 DEF RequestOK, Durable, Of, Uncommitted
<1> QED
  BY <1>2, <1>4, QuietStep DEF AppendVerify, Goto, IInv, TypeOK

\* A failed request is owed nothing
LEMMA FailOK ==
    ASSUME IInv, NEW r \in Requests, Fail(r) PROVE IInv'
<1>1. RequestOK(r) /\ pc[r] # "idle" /\ pc'[r] = "failed" /\ input' = input
  BY DEF IInv, RequestsOK, TypeOK, Fail, Goto, Running
<1>2. TypeOK'
  BY DEF IInv, TypeOK, Fail, Goto, repo, logVars, Answered
<1>3. RequestOK(r)'
  BY <1>1 DEF RequestOK, Uncommitted
<1> QED
  BY <1>2, <1>3, QuietStep DEF Fail, Goto, IInv, TypeOK

-----------------------------------------------------------------------------
(* The batch: a step of CausalLog.                                          *)

\* What the repository stores is the record as built, but for nilKeywords
LEMMA DecodedFields ==
    ASSUME NEW b \in Revision
    PROVE  /\ Decoded(b) \in Revision
           /\ Decoded(b).key = b.key /\ Decoded(b).lm = b.lm /\ Decoded(b).op = b.op
           /\ Decoded(b).parents = b.parents /\ Decoded(b).rev = b.rev
           /\ Decoded(b).version = b.version /\ Decoded(b).mailboxes = b.mailboxes
           /\ Decoded(b).on = b.on /\ Decoded(b).off = b.off
           /\ Decoded(b).deletePending = b.deletePending
           /\ Decoded(b).tombstone = b.tombstone
  BY DEF Decoded, Revision

\* A committed batch appends the decoded revision to the abstract log
LEMMA BatchAppends ==
    ASSUME IInv, NEW r \in Requests, CreateBatch(r)
    PROVE  /\ Decoded(built[r]) \in Revision
           /\ NewVersion(r) \in SUBSET Versions
           /\ Append(Decoded(built[r]), NewVersion(r))
<1> DEFINE b == built[r]
           x == Decoded(b)
<1>1. RequestOK(r) /\ pc[r] = "commit" /\ ~SomeRecordExists(r)
  BY DEF IInv, RequestsOK, CreateBatch
<1>2. BuiltOK(r) /\ Encodable(b) /\ InputOK(input[r]) /\ input[r].kind # "none" /\ r \notin KeysOf(revs)
  BY <1>1 DEF RequestOK, Uncommitted
<1>3. b \in Revision /\ b.key = r
  BY <1>2 DEF BuiltOK
<1>4. /\ x \in Revision /\ x.key = b.key /\ x.lm = b.lm /\ x.op = b.op
      /\ x.parents = b.parents /\ x.rev = b.rev /\ x.version = b.version
      /\ x.mailboxes = b.mailboxes /\ x.on = b.on /\ x.off = b.off
      /\ x.deletePending = b.deletePending /\ x.tombstone = b.tombstone
  BY <1>3, DecodedFields
<1>5. input[r].kind \in {"store", "append"}
  BY <1>2 DEF IInv, TypeOK, InputType
<1>6. NewVersion(r) \subseteq {x.version} \cap Versions /\ NewVersion(r) \cap msgs = {}
  BY <1>1, <1>2, <1>4 DEF NewVersion, SomeRecordExists, BuiltOK, InputOK
<1>7. x.version # NoVersion => Owner[x.version] = x.lm /\ x.version \in msgs \cup NewVersion(r)
  BY <1>2, <1>4, <1>5 DEF NewVersion, BuiltOK
<1>8. RootRevision(x) \/ FollowsFrom(x, RevisionsOf(revs, x.lm))
  BY <1>2, <1>4 DEF BuiltOK, RootRevision, FollowsFrom
<1>9. ValidRecord(x)
  <2>1. x.rev >= 1
    <3>1. CASE RootRevision(x)
      BY <3>1 DEF RootRevision
    <3>2. CASE FollowsFrom(x, RevisionsOf(revs, x.lm))
      <4>1. PICK p \in revs : x.rev = p.rev + 1
        BY <3>2 DEF FollowsFrom, RevisionsOf
      <4>2. p.rev \in Nat
        BY DEF IInv, TypeOK, Revision
      <4> QED
        BY <4>1, <4>2
    <3> QED
      BY <1>8, <3>1, <3>2
  <2>2. x.key \notin x.parents
    BY <1>2, <1>3, <1>4, <1>8 DEF RootRevision, FollowsFrom, KeysOf, RevisionsOf
  <2>3. x.tombstone <=> ~hasLiveAssignments(x)
    BY <1>2, <1>4 DEF BuiltOK, hasLiveAssignments
  <2>4. Cardinality(x.parents) <= maxParents /\ Cardinality(x.on \cup x.off) <= maxKeywords
    BY <1>2, <1>4 DEF Encodable
  <2> QED
    BY <2>1, <2>2, <2>3, <2>4 DEF ValidRecord
<1>10. x.key \notin KeysOf(revs) /\ \A c \in claims : c.lm = x.lm => c.op # x.op
  BY <1>1, <1>4 DEF SomeRecordExists, ClaimsFor
<1>11. revs' = revs \cup {x} /\ claims' = claims \cup {ClaimOf(x)} /\ msgs' = msgs \cup NewVersion(r)
  BY <1>4 DEF CreateBatch, ClaimOf
<1> HIDE DEF x
<1>12. x \in Revision /\ NewVersion(r) \in SUBSET Versions
  BY <1>4, <1>6
<1>13. Append(x, NewVersion(r))
  BY <1>6, <1>7, <1>8, <1>9, <1>10, <1>11 DEF Append
<1> QED
  BY <1>12, <1>13 DEF x

\* An appended revision keeps the reduced state of every message defined
LEMMA ReducedStaysDefined ==
    ASSUME IInv, NEW x \in Revision, NEW V, Append(x, V)
    PROVE  ReducedDefined'
<1> SUFFICES ASSUME NEW m \in Messages, Of(m)' # {}
             PROVE  /\ HasLast(Of(m)') /\ HasLast(VersionWriters(Of(m)'))
                    /\ HasLast(MailboxWriters(Of(m)'))
  BY DEF ReducedDefined
<1>1. revs' = revs \cup {x}
  BY DEF Append
<1> DEFINE S == Of(m)
           T == Of(m)'
<1>2. S \in SUBSET Revision
  BY DEF IInv, TypeOK, Of, RevisionsOf
<1>3. S # {} => HasLast(S) /\ HasLast(VersionWriters(S)) /\ HasLast(MailboxWriters(S))
  BY DEF IInv, ReducedDefined
<1>4. CASE x.lm # m
  <2>1. T = S
    BY <1>1, <1>4 DEF Of, RevisionsOf
  <2> QED
    BY <1>3, <2>1
<1>5. CASE x.lm = m
  <2>1. T = S \cup {x}
    BY <1>1, <1>5 DEF Of, RevisionsOf
  <2>2. \A q \in S : q.op # x.op
    <3>1. \A q \in revs : ClaimOf(q) \in claims /\ ClaimOf(q).lm = q.lm /\ ClaimOf(q).op = q.op
      BY DEF IInv, LogInv, ClaimPerRevision, ClaimOf
    <3> QED
      BY <1>5, <3>1 DEF Append, Of, RevisionsOf
  <2>3. S = {} => x.version # NoVersion /\ x.mailboxes # {}
    BY <1>5 DEF Append, RootRevision, FollowsFrom, KeysOf, Of
  <2>4. VersionWriters(T) = VersionWriters(S) \cup (IF x.version # NoVersion THEN {x} ELSE {})
    BY <2>1 DEF VersionWriters
  <2>5. MailboxWriters(T) = MailboxWriters(S) \cup (IF x.mailboxes # {} THEN {x} ELSE {})
    BY <2>1 DEF MailboxWriters
  <2>6. VersionWriters(S) \subseteq S /\ MailboxWriters(S) \subseteq S
    BY DEF VersionWriters, MailboxWriters
  <2> HIDE DEF S, T
  <2>7. HasLast(T)
    BY <1>2, <1>3, <2>1, <2>2, HasLastAdd
  <2>8. HasLast(VersionWriters(T))
    <3>1. CASE x.version # NoVersion
      BY <1>2, <1>3, <2>2, <2>4, <2>6, <3>1, HasLastAdd
    <3>2. CASE x.version = NoVersion
      <4>1. S # {} /\ VersionWriters(T) = VersionWriters(S)
        BY <2>3, <2>4, <3>2
      <4> QED
        BY <1>3, <4>1
    <3> QED
      BY <3>1, <3>2
  <2>9. HasLast(MailboxWriters(T))
    <3>1. CASE x.mailboxes # {}
      BY <1>2, <1>3, <2>2, <2>5, <2>6, <3>1, HasLastAdd
    <3>2. CASE x.mailboxes = {}
      <4>1. S # {} /\ MailboxWriters(T) = MailboxWriters(S)
        BY <2>3, <2>5, <3>2
      <4> QED
        BY <1>3, <4>1
    <3> QED
      BY <3>1, <3>2
  <2> QED
    BY <2>7, <2>8, <2>9 DEF T
<1> QED
  BY <1>4, <1>5

\* A committed batch keeps every message reducible
LEMMA CreateBatchOK ==
    ASSUME IInv, NEW r \in Requests, CreateBatch(r) PROVE IInv'
<1> DEFINE x == Decoded(built[r])
<1>1. x \in Revision /\ NewVersion(r) \in SUBSET Versions /\ Append(x, NewVersion(r))
  BY BatchAppends
<1>2. /\ RequestOK(r) /\ BuiltOK(r) /\ pc[r] = "commit"
      /\ input' = input /\ built' = built /\ blobs' = blobs /\ folders' = folders
      /\ pc' = [pc EXCEPT ![r] = "verify"] \/ pc' = [pc EXCEPT ![r] = "failed"]
  BY DEF IInv, RequestsOK, RequestOK, CreateBatch, Goto
<1>3. built[r] \in Revision /\ built[r].key = r
  BY <1>2 DEF BuiltOK
<1>4. /\ x.key = r /\ x.lm = built[r].lm /\ x.op = built[r].op /\ x.parents = built[r].parents
      /\ x.rev = built[r].rev /\ x.version = built[r].version
      /\ x.mailboxes = built[r].mailboxes /\ x.tombstone = built[r].tombstone
  BY <1>3, DecodedFields
<1> HIDE DEF x
<1>5. revs' = revs \cup {x} /\ x.key \notin KeysOf(revs) /\ msgs' = msgs \cup NewVersion(r)
  BY <1>1 DEF Append
<1>6. pc'[r] \in {"verify", "failed"}
  BY <1>2 DEF IInv, TypeOK
<1>7. LogInv'
  BY <1>1, LogInvAppend DEF IInv
<1>8. TypeOK'
  <2>1. commit' \in Nat
    BY DEF IInv, TypeOK, CreateBatch
  <2> QED
    BY <1>2, <1>7, <2>1 DEF IInv, TypeOK, LogInv, LogTypeOK, Running, Answered
<1>9. IsFiniteSet(revs')
  BY <1>5, FS_AddElement DEF IInv
<1>10. ReducedDefined'
  BY <1>1, ReducedStaysDefined
<1>11. msgs' \subseteq blobs'
  BY <1>2, <1>5 DEF IInv, RequestOK, NewVersion
<1>12. RequestOK(r)'
  <2>1. Stored(r)'
    BY <1>2, <1>4, <1>5 DEF Stored
  <2>2. BuiltOK(r)'
    <3>1. FollowsFrom(built[r], RevisionsOf(revs, built[r].lm))
            => FollowsFrom(built[r], RevisionsOf(revs', built[r].lm))
      BY <1>5, FollowsStable
    <3> QED
      BY <1>2, <1>5, <3>1 DEF BuiltOK
  <2> QED
    BY <1>2, <1>6, <2>1, <2>2 DEF RequestOK, Uncommitted
<1>13. RequestsOK'
  <2> SUFFICES ASSUME NEW q \in Requests, q # r PROVE RequestOK(q)'
    BY <1>12 DEF RequestsOK
  <2>1. pc'[q] = pc[q] /\ input'[q] = input[q] /\ built'[q] = built[q]
    BY <1>2 DEF IInv, TypeOK
  <2> QED
    BY <1>2, <1>4, <1>5, <2>1, RequestStable
<1> QED
  BY <1>7, <1>8, <1>9, <1>10, <1>11, <1>13 DEF IInv

-----------------------------------------------------------------------------
(* The theorems.                                                            *)

\* The empty repository satisfies the inductive invariant
LEMMA IInvInit == Init => IInv
<1> SUFFICES ASSUME Init PROVE IInv
  OBVIOUS
<1>1. TypeOK
  BY NoInputType DEF Init, TypeOK
<1>2. LogInv
  BY LogInvInit DEF Init, LogInit
<1>3. IsFiniteSet(revs) /\ ReducedDefined /\ msgs \subseteq blobs
  BY FS_EmptySet DEF Init, ReducedDefined, Of, RevisionsOf
<1>4. RequestsOK
  <2> SUFFICES ASSUME NEW q \in Requests PROVE RequestOK(q)
    BY DEF RequestsOK
  <2>1. pc[q] = "idle" /\ input[q] = NoInput /\ revs = {}
    BY DEF Init
  <2> QED
    BY <2>1, NoInputType DEF RequestOK, InputOK, KeysOf
<1> QED
  BY <1>1, <1>2, <1>3, <1>4 DEF IInv

\* Every step of the authority preserves the inductive invariant
LEMMA IInvStep == IInv /\ [Next]_vars => IInv'
<1> SUFFICES ASSUME IInv, [Next]_vars PROVE IInv'
  OBVIOUS
<1>1. CASE UNCHANGED vars
  <2>1. RequestsOK'
    <3> SUFFICES ASSUME NEW q \in Requests PROVE RequestOK(q)'
      BY DEF RequestsOK
    <3> QED
      BY <1>1, RequestStable DEF vars
  <2>2. LogInv'
    BY <1>1 DEF vars, IInv, LogInv, LogTypeOK, UniqueKeys, UniqueOps, ClaimPerRevision,
                CausalOrigin, RootPresent, VersionsClosed
  <2> QED
    BY <1>1, <2>1, <2>2 DEF vars, IInv, TypeOK, ReducedDefined, Of
<1>2. CASE Next
  <2> SUFFICES ASSUME NEW r \in Requests,
                 \/ StoreBegin(r) \/ EnsureFolders(r) \/ StoreLookup(r) \/ Upload(r)
                 \/ AppendBegin(r) \/ AppendResend(r) \/ AppendCheck(r)
                 \/ CreateBatch(r) \/ BatchExists(r) \/ Inspect(r)
                 \/ StoreVerify(r) \/ AppendVerify(r) \/ Fail(r)
               PROVE IInv'
    BY <1>2 DEF Next
  <2> QED
    BY StoreBeginOK, EnsureFoldersOK, StoreLookupOK, UploadOK, AppendBeginOK, AppendResendOK,
       AppendCheckOK, CreateBatchOK, BatchExistsOK, InspectOK, StoreVerifyOK, AppendVerifyOK, FailOK
<1> QED
  BY <1>1, <1>2

(***************************************************************************)
(* The inductive invariant holds in every reachable state of the authority *)
(* with any number of concurrent Store and AppendState requests.           *)
(***************************************************************************)
THEOREM AuthorityInvariant == Spec => []IInv
  BY IInvInit, IInvStep, PTL DEF Spec

\* Every variable of the engine and the repository keeps its type
THEOREM TypeCorrect == Spec => []TypeOK
<1>1. IInv => TypeOK
  BY DEF IInv
<1> QED
  BY <1>1, AuthorityInvariant, PTL

(***************************************************************************)
(* No interleaving of the engine's requests, lost responses, replays or    *)
(* failures leaves a source the reducer rejects (official_engine.go's      *)
(* Store and AppendState over the create-only batch).                      *)
(***************************************************************************)
THEOREM AuthorityNeverPoisons == Spec => []NeverPoisoned
<1>1. IInv => NeverPoisoned
  BY LogInvReducible DEF IInv, NeverPoisoned
<1> QED
  BY <1>1, AuthorityInvariant, PTL

(***************************************************************************)
(* What Store and AppendState acknowledged is durable: the version, its    *)
(* bytes and its revision; the operation on the parents it named.          *)
(***************************************************************************)
THEOREM AuthorityDurable == Spec => []AcknowledgedDurable
<1>1. IInv => AcknowledgedDurable
  BY DEF IInv, RequestsOK, RequestOK, Durable, AcknowledgedDurable
<1> QED
  BY <1>1, AuthorityInvariant, PTL

(***************************************************************************)
(* Every step of the engine is a step of the abstract log or leaves the    *)
(* repository alone: the detailed writer implements CausalLog.             *)
(***************************************************************************)
THEOREM AuthorityImplementsCausalLog == Spec => ImplementsCausalLog
<1>1. Init => LogInit
  BY DEF Init, LogInit
<1>2. IInv /\ [Next]_vars => [LogNext]_logVars
  <2> SUFFICES ASSUME IInv, [Next]_vars, ~UNCHANGED logVars PROVE LogNext
    OBVIOUS
  <2>1. PICK r \in Requests : CreateBatch(r)
    BY DEF Next, vars, logVars, repo, StoreBegin, EnsureFolders, StoreLookup, Upload, AppendBegin,
           AppendResend, AppendCheck, BatchExists, Inspect, StoreVerify, AppendVerify, Fail
  <2> DEFINE x == Decoded(built[r])
  <2>2. x \in Revision /\ Append(x, NewVersion(r))
    BY <2>1, BatchAppends
  <2> HIDE DEF x
  <2>3. x \in revs' \ revs /\ msgs' \ msgs = NewVersion(r)
    BY <2>2 DEF Append, KeysOf
  <2> QED
    BY <2>2, <2>3 DEF LogNext
<1> QED
  BY <1>1, <1>2, AuthorityInvariant, PTL DEF Spec, LogSpec, ImplementsCausalLog

(***************************************************************************)
(* A tombstoned message stays tombstoned: no later or concurrent Store or  *)
(* AppendState brings it back.                                             *)
(***************************************************************************)
THEOREM TombstonesAreFinal == Spec => TombstoneFinal
<1>1. [Next]_vars => [\A m \in Messages : Tombstoned(Of(m)) => Tombstoned(Of(m)')]_vars
  <2> SUFFICES ASSUME [Next]_vars, NEW m \in Messages, Tombstoned(Of(m))
               PROVE  Tombstoned(Of(m)')
    OBVIOUS
  <2>1. revs \subseteq revs'
    BY DEF Next, vars, repo, logVars, StoreBegin, EnsureFolders, StoreLookup, Upload, AppendBegin,
           AppendResend, AppendCheck, CreateBatch, BatchExists, Inspect, StoreVerify, AppendVerify, Fail
  <2> QED
    BY <2>1 DEF Tombstoned, Of, RevisionsOf
<1> QED
  BY <1>1, PTL DEF Spec, TombstoneFinal

-----------------------------------------------------------------------------
(***************************************************************************)
(* A single winner.  Besides IInv this needs to know how the repository    *)
(* looked when each request read it, which no variable remembers: some     *)
(* chain H of earlier repositories contains, for every AppendState that    *)
(* passed its check, the one it was composed from and, once acknowledged,  *)
(* the one its result was read from.  Two requests composed from one state *)
(* then read the same revisions, and the one revision more is the same.    *)
(***************************************************************************)

Chain(H) == \A R, T \in H : R \subseteq T \/ T \subseteq R

\* R is a repository in which the message is as the mutation names it
ComposedFrom(in, R) ==
    /\ Cardinality(RevisionsOf(R, in.lm)) = in.expected.count
    /\ Heads(RevisionsOf(R, in.lm)) = in.expected.heads

\* The revision s says what the mutation asks for
Carries(s, in) ==
    /\ s.lm = in.lm /\ s.op = in.op
    /\ s.parents = in.expected.heads /\ s.tombstone = in.tombstone
    /\ ~in.tombstone =>
        /\ s.version = in.version /\ s.mailboxes = in.mailboxes /\ s.on = in.keywords
        /\ s.deletePending = IF in.deletePending THEN "yes" ELSE "no"

Admitted(in, H) ==
    /\ in.expected.heads # {}
    /\ in.tombstone => TombstoneExact(in)
    /\ \E R \in H : ComposedFrom(in, R)

\* The revision is the one the message has more than when it was composed
Acknowledged(in, H) ==
    \E R \in H : \E s \in R :
        /\ Carries(s, in)
        /\ Cardinality(RevisionsOf(R, in.lm)) = in.expected.count + 1

\* What holds of an append at label, with input in and record b
AppendOK(label, in, b, S, H) ==
    /\ label \in {"commit", "inspect", "verify"} => Admitted(in, H) /\ Carries(b, in)
    /\ label = "verify" => \E s \in S : Carries(s, in)
    /\ label = "ok" => Admitted(in, H) /\ Acknowledged(in, H)

AppendsOK(H) ==
    \A q \in Requests : input[q].kind = "append" =>
        AppendOK(pc[q], input[q], built[q], revs, H)

WinnerInv == \E H \in SUBSET SUBSET revs : Chain(H) /\ AppendsOK(H)

\* What is known of an append stays known as the repository grows
LEMMA AppendOKGrows ==
    ASSUME NEW label, NEW in, NEW b, NEW S, NEW T, NEW H, NEW G,
           S \subseteq T, H \subseteq G, AppendOK(label, in, b, S, H)
    PROVE  AppendOK(label, in, b, T, G)
<1>1. Admitted(in, H) => Admitted(in, G)
  BY DEF Admitted
<1>2. Acknowledged(in, H) => Acknowledged(in, G)
  BY DEF Acknowledged
<1> QED
  BY <1>1, <1>2 DEF AppendOK

(***************************************************************************)
(* A step of request r preserves the invariant when, with the repository   *)
(* it leaves added to the chain, it does so for r's own mutation.          *)
(***************************************************************************)
LEMMA WinnerStep ==
    ASSUME WinnerInv, revs \subseteq revs', NEW r,
           \A q \in Requests \ {r} :
               pc'[q] = pc[q] /\ input'[q] = input[q] /\ built'[q] = built[q],
           \A G : /\ revs' \in G
                  /\ r \in Requests /\ input[r].kind = "append" =>
                         AppendOK(pc[r], input[r], built[r], revs', G)
                  => (r \in Requests /\ input'[r].kind = "append" =>
                         AppendOK(pc'[r], input'[r], built'[r], revs', G))
    PROVE  WinnerInv'
<1>1. PICK H \in SUBSET SUBSET revs : Chain(H) /\ AppendsOK(H)
  BY DEF WinnerInv
<1>2. PICK G \in SUBSET SUBSET revs' : Chain(G) /\ revs' \in G /\ H \subseteq G
  <2>1. Chain(H \cup {revs'}) /\ H \cup {revs'} \in SUBSET SUBSET revs'
    BY <1>1 DEF Chain
  <2> QED
    BY <2>1
<1>3. ASSUME NEW q \in Requests, input[q].kind = "append"
      PROVE  AppendOK(pc[q], input[q], built[q], revs', G)
  <2>1. AppendOK(pc[q], input[q], built[q], revs, H)
    BY <1>1, <1>3 DEF AppendsOK
  <2> QED
    BY <1>2, <2>1, AppendOKGrows
<1>4. ASSUME NEW q \in Requests, input'[q].kind = "append"
      PROVE  AppendOK(pc'[q], input'[q], built'[q], revs', G)
  BY <1>2, <1>3, <1>4
<1>5. AppendsOK(G)'
  BY <1>4 DEF AppendsOK
<1> QED
  BY <1>2, <1>5 DEF WinnerInv

\* A step that leaves r before its commit, or refused, or a Store, is quiet
LEMMA WinnerQuiet ==
    ASSUME WinnerInv, revs \subseteq revs', NEW r,
           \A q \in Requests \ {r} :
               pc'[q] = pc[q] /\ input'[q] = input[q] /\ built'[q] = built[q],
           \/ input'[r].kind # "append"
           \/ pc'[r] \notin {"commit", "inspect", "verify", "ok"}
    PROVE  WinnerInv'
<1>1. \A G : input'[r].kind = "append" => AppendOK(pc'[r], input'[r], built'[r], revs', G)
  BY DEF AppendOK
<1> QED
  BY <1>1, WinnerStep

\* What AppendState builds carries its mutation, of the state it has read
LEMMA BuildAdmits ==
    ASSUME IInv, NEW r \in Requests, AppendCheck(r), AppendBuild(r), NEW G, revs \in G
    PROVE  Admitted(input[r], G) /\ Carries(built'[r], input[r])
<1> DEFINE b == IF input[r].tombstone THEN TombstoneRevision(r) ELSE MutationRevision(r)
           in == input[r]
<1>1. in.kind = "append" /\ Unmoved(r) /\ ~Tombstoned(Of(in.lm))
  BY DEF IInv, RequestsOK, RequestOK, AppendCheck, AppendBuild
<1>2. /\ b \in Revision /\ b.lm = in.lm /\ FollowsFrom(b, Of(b.lm))
      /\ b.op = in.op /\ b.parents = in.expected.heads /\ b.tombstone = in.tombstone
      /\ b.version = IF b.tombstone THEN NoVersion ELSE in.version
      /\ ~b.tombstone => b.mailboxes = in.mailboxes
  BY <1>1, AppendBuilds
<1>3. built'[r] = b
  BY DEF AppendBuild, IInv, TypeOK
<1>4. ~in.tombstone => /\ b.on = in.keywords
                       /\ b.deletePending = IF in.deletePending THEN "yes" ELSE "no"
  BY DEF MutationRevision
<1> HIDE DEF b
<1>5. Carries(b, in)
  BY <1>2, <1>4 DEF Carries
<1>6. in.expected.heads # {}
  BY <1>2 DEF FollowsFrom
<1>7. in.tombstone => TombstoneExact(in)
  BY DEF AppendBuild
<1>8. ComposedFrom(in, revs)
  BY <1>1 DEF Unmoved, Current, Reduced, ComposedFrom, Of
<1> QED
  BY <1>3, <1>5, <1>6, <1>7, <1>8 DEF Admitted

\* A stored record of the same event carries the same mutation
LEMMA ReplayCarries ==
    ASSUME NEW b \in Revision, NEW s, VerifyRevisionRetry(b, s), NEW in, Carries(b, in)
    PROVE  Carries(s, in)
<1>1. /\ s.lm = b.lm /\ s.op = b.op /\ s.parents = b.parents /\ s.tombstone = b.tombstone
      /\ s.version = b.version /\ s.mailboxes = b.mailboxes /\ s.on = b.on
      /\ s.deletePending = b.deletePending
  BY DEF VerifyRevisionRetry, Revision
<1> QED
  BY <1>1 DEF Carries

\* Every step of the authority preserves the history its winners rest on
LEMMA WinnerInvStep == IInv /\ WinnerInv /\ [Next]_vars => WinnerInv'
<1> SUFFICES ASSUME IInv, WinnerInv, [Next]_vars PROVE WinnerInv'
  OBVIOUS
<1>1. CASE UNCHANGED vars
  BY <1>1 DEF vars, WinnerInv, AppendsOK
<1>2. ASSUME NEW r \in Requests,
             \/ StoreBegin(r) \/ AppendBegin(r) \/ AppendResend(r) \/ EnsureFolders(r)
             \/ Fail(r) \/ StoreLookup(r) \/ Upload(r) \/ StoreVerify(r)
      PROVE  WinnerInv'
  <2>1. revs' = revs
    BY <1>2 DEF StoreBegin, AppendBegin, AppendResend, EnsureFolders, Fail, StoreLookup, Upload,
                StoreVerify, repo, logVars
  <2>2. \A q \in Requests \ {r} :
            pc'[q] = pc[q] /\ input'[q] = input[q] /\ built'[q] = built[q]
    <3>1. CASE StoreBegin(r) \/ AppendBegin(r) \/ AppendResend(r)
      BY <3>1 DEF StoreBegin, AppendBegin, AppendResend, Goto, IInv, TypeOK
    <3>2. CASE EnsureFolders(r) \/ Fail(r) \/ StoreLookup(r) \/ Upload(r) \/ StoreVerify(r)
      BY <3>2 DEF EnsureFolders, Fail, StoreLookup, StoreFound, StoreTombstoned, StoreNew, Upload,
                  StoreVerify, Goto, IInv, TypeOK
    <3> QED
      BY <1>2, <3>1, <3>2
  <2>3. CASE StoreBegin(r) \/ AppendBegin(r) \/ AppendResend(r) \/ EnsureFolders(r) \/ Fail(r)
    <3>1. pc'[r] \in {"ensure", "check", "lookup", "failed"}
      BY <2>3 DEF StoreBegin, AppendBegin, AppendResend, EnsureFolders, Fail, Goto, IInv, TypeOK
    <3> QED
      BY <2>1, <2>2, <3>1, WinnerQuiet
  <2>4. CASE StoreLookup(r) \/ Upload(r) \/ StoreVerify(r)
    <3>1. pc[r] \in {"lookup", "upload"} \/ input[r].kind = "store"
      BY <2>4 DEF StoreLookup, Upload, StoreVerify
    <3>2. input'[r].kind = "store"
      BY <2>4, <3>1 DEF StoreLookup, Upload, StoreVerify, IInv, RequestsOK, RequestOK
    <3> QED
      BY <2>1, <2>2, <3>2, WinnerQuiet
  <2> QED
    BY <1>2, <2>3, <2>4
<1>3. ASSUME NEW r \in Requests, AppendCheck(r) PROVE WinnerInv'
  <2>1. /\ revs' = revs /\ input' = input
        /\ \A q \in Requests \ {r} : pc'[q] = pc[q] /\ built'[q] = built[q]
    BY <1>3 DEF AppendCheck, AppendConflict, AppendInvalid, AppendBuild, Goto, IInv, TypeOK,
                repo, logVars
  <2>2. CASE AppendConflict(r) \/ AppendInvalid(r)
    <3>1. pc'[r] \in {"conflict", "invalid"}
      BY <2>2 DEF AppendConflict, AppendInvalid, Goto, IInv, TypeOK
    <3> QED
      BY <2>1, <3>1, WinnerQuiet
  <2>3. CASE AppendBuild(r)
    <3>1. pc'[r] \in {"commit", "limit"}
      BY <2>3 DEF AppendBuild, Goto, IInv, TypeOK
    <3>2. ASSUME NEW G, revs' \in G
          PROVE  AppendOK(pc'[r], input'[r], built'[r], revs', G)
      <4>1. Admitted(input[r], G) /\ Carries(built'[r], input[r])
        BY <1>3, <2>1, <2>3, <3>2, BuildAdmits
      <4> QED
        BY <2>1, <3>1, <4>1 DEF AppendOK
    <3> QED
      BY <2>1, <3>2, WinnerStep
  <2> QED
    BY <1>3, <2>2, <2>3 DEF AppendCheck
<1>4. ASSUME NEW r \in Requests, CreateBatch(r) PROVE WinnerInv'
  <2>1. /\ revs' = revs \cup {Decoded(built[r])} /\ input' = input /\ built' = built
        /\ pc[r] = "commit" /\ pc'[r] \in {"verify", "failed"}
        /\ \A q \in Requests \ {r} : pc'[q] = pc[q]
    BY <1>4 DEF CreateBatch, Goto, IInv, TypeOK
  <2>2. built[r] \in Revision
    BY <2>1 DEF IInv, RequestsOK, RequestOK, BuiltOK
  <2>3. ASSUME NEW G, AppendOK(pc[r], input[r], built[r], revs', G)
        PROVE  AppendOK(pc'[r], input[r], built[r], revs', G)
    <3>1. Admitted(input[r], G) /\ Carries(built[r], input[r])
      BY <2>1, <2>3 DEF AppendOK
    <3>2. Carries(Decoded(built[r]), input[r])
      BY <2>2, <3>1, DecodedFields DEF Carries
    <3> QED
      BY <2>1, <3>1, <3>2 DEF AppendOK
  <2> QED
    BY <2>1, <2>3, WinnerStep
<1>5. ASSUME NEW r \in Requests, BatchExists(r) PROVE WinnerInv'
  <2>1. /\ revs' = revs /\ input' = input /\ built' = built
        /\ pc[r] = "commit" /\ pc'[r] = "inspect"
        /\ \A q \in Requests \ {r} : pc'[q] = pc[q]
    BY <1>5 DEF BatchExists, Goto, IInv, TypeOK, repo, logVars
  <2>2. ASSUME NEW G, AppendOK(pc[r], input[r], built[r], revs', G)
        PROVE  AppendOK(pc'[r], input[r], built[r], revs', G)
    BY <2>1, <2>2 DEF AppendOK
  <2> QED
    BY <2>1, <2>2, WinnerStep
<1>6. ASSUME NEW r \in Requests, Inspect(r) PROVE WinnerInv'
  <2>1. /\ revs' = revs /\ input' = input /\ built' = built
        /\ pc[r] = "inspect" /\ pc'[r] \in {"verify", "collision"}
        /\ \A q \in Requests \ {r} : pc'[q] = pc[q]
        /\ pc'[r] = "verify" => \E s \in revs : VerifyRevisionRetry(built[r], s)
    BY <1>6 DEF Inspect, Goto, IInv, TypeOK, repo, logVars
  <2>2. built[r] \in Revision
    BY <2>1 DEF IInv, RequestsOK, RequestOK, BuiltOK
  <2>3. ASSUME NEW G, AppendOK(pc[r], input[r], built[r], revs', G)
        PROVE  AppendOK(pc'[r], input[r], built[r], revs', G)
    <3>1. Admitted(input[r], G) /\ Carries(built[r], input[r])
      BY <2>1, <2>3 DEF AppendOK
    <3>2. pc'[r] = "verify" => \E s \in revs : Carries(s, input[r])
      BY <2>1, <2>2, <3>1, ReplayCarries
    <3> QED
      BY <2>1, <3>1, <3>2 DEF AppendOK
  <2> QED
    BY <2>1, <2>3, WinnerStep
<1>7. ASSUME NEW r \in Requests, AppendVerify(r) PROVE WinnerInv'
  <2>1. /\ revs' = revs /\ input' = input /\ built' = built
        /\ pc[r] = "verify" /\ pc'[r] \in {"ok", "conflict", "failed"}
        /\ \A q \in Requests \ {r} : pc'[q] = pc[q]
        /\ pc'[r] = "ok" => AppendResult(r)
    BY <1>7 DEF AppendVerify, Goto, IInv, TypeOK, repo, logVars
  <2>2. ASSUME NEW G, revs' \in G, AppendOK(pc[r], input[r], built[r], revs', G)
        PROVE  AppendOK(pc'[r], input[r], built[r], revs', G)
    <3>1. Admitted(input[r], G) /\ \E s \in revs : Carries(s, input[r])
      BY <2>1, <2>2 DEF AppendOK
    <3>2. pc'[r] = "ok" => Cardinality(RevisionsOf(revs, input[r].lm)) = input[r].expected.count + 1
      BY <2>1 DEF AppendResult, Current, Reduced, Of
    <3>3. pc'[r] = "ok" => Acknowledged(input[r], G)
      BY <2>1, <2>2, <3>1, <3>2 DEF Acknowledged
    <3> QED
      BY <2>1, <3>1, <3>3 DEF AppendOK
  <2> QED
    BY <2>1, <2>2, WinnerStep
<1> QED
  BY <1>1, <1>2, <1>3, <1>4, <1>5, <1>6, <1>7 DEF Next

\* Nested finite sets of one size are equal
LEMMA NestedEqual ==
    ASSUME NEW S, NEW T, IsFiniteSet(S), IsFiniteSet(T), S \subseteq T \/ T \subseteq S,
           Cardinality(S) = Cardinality(T)
    PROVE  S = T
<1>1. ASSUME NEW A, NEW B, IsFiniteSet(B), A \subseteq B, Cardinality(A) = Cardinality(B)
      PROVE  A = B
  <2>1. Cardinality(A) < Cardinality(B) \/ A = B
    BY <1>1, FS_Subset
  <2>2. Cardinality(B) \in Nat
    BY <1>1, FS_CardinalityType
  <2> QED
    BY <1>1, <2>1, <2>2
<1> QED
  BY <1>1

\* A message's revisions are nested whenever the repositories are
LEMMA ChainOf ==
    ASSUME NEW R, NEW T, R \subseteq T \/ T \subseteq R, NEW m
    PROVE  \/ RevisionsOf(R, m) \subseteq RevisionsOf(T, m)
           \/ RevisionsOf(T, m) \subseteq RevisionsOf(R, m)
  BY DEF RevisionsOf

\* No repository that is some state's contains a child of that state's heads
LEMMA ChildIsNew ==
    ASSUME NEW S, NEW s \in S, s.parents = Heads(S)
    PROVE  Heads(S) = {}
  BY DEF Heads, Parented

(***************************************************************************)
(* Two acknowledged mutations of one message composed from the same state  *)
(* are carried by the same revision: the only one their results have more. *)
(***************************************************************************)
LEMMA SameRevision ==
    ASSUME IsFiniteSet(revs), NEW H \in SUBSET SUBSET revs, Chain(H), NEW in, NEW jn,
           in.lm = jn.lm, in.expected = jn.expected, in.expected.count \in Nat,
           Admitted(in, H), Acknowledged(in, H), Acknowledged(jn, H)
    PROVE  \E s : Carries(s, in) /\ Carries(s, jn)
<1> DEFINE m == in.lm
           n == in.expected.count
<1>1. PICK R \in H : ComposedFrom(in, R)
  BY DEF Admitted
<1>2. PICK A \in H : \E s \in A : Carries(s, in) /\ Cardinality(RevisionsOf(A, m)) = n + 1
  BY DEF Acknowledged
<1>3. PICK s \in A : Carries(s, in) /\ Cardinality(RevisionsOf(A, m)) = n + 1
  BY <1>2
<1>4. PICK B \in H : \E t \in B : Carries(t, jn) /\ Cardinality(RevisionsOf(B, m)) = n + 1
  BY DEF Acknowledged
<1>5. PICK t \in B : Carries(t, jn) /\ Cardinality(RevisionsOf(B, m)) = n + 1
  BY <1>4
<1> DEFINE S0 == RevisionsOf(R, m)
           SA == RevisionsOf(A, m)
           SB == RevisionsOf(B, m)
<1>6. IsFiniteSet(S0) /\ IsFiniteSet(SA) /\ IsFiniteSet(SB)
  <2>1. S0 \subseteq revs /\ SA \subseteq revs /\ SB \subseteq revs
    BY DEF RevisionsOf
  <2> QED
    BY <2>1, FS_Subset
<1>7. SA = SB
  <2>1. SA \subseteq SB \/ SB \subseteq SA
    BY ChainOf DEF Chain
  <2> QED
    BY <1>3, <1>5, <1>6, <2>1, NestedEqual
<1>8. s \in SA /\ t \in SA /\ s.parents = in.expected.heads /\ t.parents = in.expected.heads
  <2>1. s \in SA /\ t \in SB
    BY <1>3, <1>5 DEF Carries, RevisionsOf
  <2> QED
    BY <1>3, <1>5, <1>7, <2>1 DEF Carries
<1>9. s \notin S0 /\ t \notin S0
  <2>1. Heads(S0) = in.expected.heads /\ in.expected.heads # {}
    BY <1>1 DEF ComposedFrom, Admitted
  <2> QED
    BY <1>8, <2>1, ChildIsNew
<1>10. Cardinality(S0) = n /\ Cardinality(SA) = n + 1
  BY <1>1, <1>3 DEF ComposedFrom
<1> HIDE DEF S0, SA, SB, n
<1>11. s = t
  <2>1. S0 \subseteq SA
    <3>1. S0 \subseteq SA \/ SA \subseteq S0
      BY ChainOf DEF Chain, S0, SA
    <3> QED
      BY <1>8, <1>9, <3>1
  <2>2. /\ S0 \cup {s} \subseteq SA /\ IsFiniteSet(S0 \cup {s})
        /\ Cardinality(S0 \cup {s}) = n + 1
    BY <1>6, <1>8, <1>9, <1>10, <2>1, FS_AddElement
  <2>3. S0 \cup {s} = SA
    BY <1>6, <1>10, <2>2, NestedEqual
  <2> QED
    BY <1>8, <1>9, <2>3
<1> QED
  BY <1>3, <1>5, <1>11

(***************************************************************************)
(* Optimistic concurrency: of the AppendState requests composed from one   *)
(* state of a message, however they interleave and whatever is resent, one *)
(* mutation at most is acknowledged (official_engine.go's AppendState).    *)
(***************************************************************************)
THEOREM AppendHasSingleWinner == Spec => []SingleWinner
<1>1. Init => WinnerInv
  <2> SUFFICES ASSUME Init PROVE WinnerInv
    OBVIOUS
  <2>1. AppendsOK({}) /\ Chain({}) /\ {} \in SUBSET SUBSET revs
    BY DEF Init, AppendsOK, AppendOK, Chain
  <2> QED
    BY <2>1 DEF WinnerInv
<1>2. IInv /\ WinnerInv => SingleWinner
  <2> SUFFICES ASSUME IInv, WinnerInv, NEW r \in Requests, NEW q \in Requests,
                      pc[r] = "ok", input[r].kind = "append",
                      pc[q] = "ok", input[q].kind = "append",
                      input[r].lm = input[q].lm, input[r].expected = input[q].expected
               PROVE  [input[r] EXCEPT !.snapshot = input[q].snapshot] = input[q]
    BY DEF SingleWinner
  <2>1. PICK H \in SUBSET SUBSET revs : Chain(H) /\ AppendsOK(H)
    BY DEF WinnerInv
  <2>2. /\ Admitted(input[r], H) /\ Acknowledged(input[r], H)
        /\ Admitted(input[q], H) /\ Acknowledged(input[q], H)
    BY <2>1 DEF AppendsOK, AppendOK
  <2>3. input[r] \in InputType /\ input[q] \in InputType /\ IsFiniteSet(revs)
    BY DEF IInv, TypeOK
  <2>4. input[r].expected.count \in Nat
    BY <2>3 DEF InputType, StateType
  <2>5. PICK s : Carries(s, input[r]) /\ Carries(s, input[q])
    BY <2>1, <2>2, <2>3, <2>4, SameRevision
  <2>6. input[r].op = input[q].op /\ input[r].tombstone = input[q].tombstone
    BY <2>5 DEF Carries
  <2>7. /\ input[r].version = input[q].version /\ input[r].mailboxes = input[q].mailboxes
        /\ input[r].keywords = input[q].keywords
        /\ input[r].deletePending = input[q].deletePending
    <3>1. input[r].deletePending \in BOOLEAN /\ input[q].deletePending \in BOOLEAN
      BY <2>3 DEF InputType
    <3>2. CASE input[r].tombstone
      BY <2>2, <2>6, <3>1, <3>2 DEF Admitted, TombstoneExact
    <3>3. CASE ~input[r].tombstone
      BY <2>5, <2>6, <3>1, <3>3 DEF Carries
    <3> QED
      BY <3>2, <3>3
  <2> QED
    BY <2>3, <2>6, <2>7 DEF InputType
<1> QED
  BY <1>1, <1>2, WinnerInvStep, AuthorityInvariant, PTL DEF Spec

=============================================================================
