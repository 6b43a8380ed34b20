--------------------------- MODULE RecoveryProofs ---------------------------
(***************************************************************************)
(* The recovery of a mailbox, for any history, any number of rebuilds and  *)
(* any faults: the read is atomic, a visit keeps its content, a projection *)
(* is exact, and the reducers choose causally latest writers.              *)
(***************************************************************************)
EXTENDS Recovery, FiniteSetTheorems, WellFoundedInduction, TLAPS

-----------------------------------------------------------------------------
(* Finite sets: a strict order has a maximum, and ranks are an interval.    *)

\* A strict order has a maximal element on every finite set that is not empty
LEMMA FiniteMaximum ==
    ASSUME NEW S, IsFiniteSet(S), S # {}, NEW R,
           \A x \in S : <<x, x>> \notin R,
           \A x, y, z \in S : <<x, y>> \in R /\ <<y, z>> \in R => <<x, z>> \in R
    PROVE  \E m \in S : \A q \in S : <<m, q>> \notin R
<1> DEFINE Over(x) == {q \in S : <<x, q>> \in R}
           T == {Over(x) : x \in S}
<1>1. T \subseteq FiniteSubsetsOf(S)
  <2>1. FiniteSubsetsOf(S) = SUBSET S
    BY FS_FiniteSubsetsOfFinite
  <2>2. T \subseteq SUBSET S
    OBVIOUS
  <2> QED
    BY <2>1, <2>2
<1>2. T # {}
  <2>1. PICK x \in S : TRUE
    OBVIOUS
  <2>2. Over(x) \in T
    BY <2>1
  <2> QED
    BY <2>2
<1>3. PICK X \in T : \A Y \in T : <<Y, X>> \notin StrictSubsetOrdering(S)
  <2>1. IsWellFoundedOn(StrictSubsetOrdering(S), FiniteSubsetsOf(S))
    BY FS_StrictSubsetOrderingWellFounded
  <2> HIDE DEF T
  <2> QED
    BY <1>1, <1>2, <2>1, WFMin
<1>4. PICK m \in S : X = Over(m)
  BY <1>3
<1>5. ASSUME NEW q \in S, <<m, q>> \in R PROVE FALSE
  <2>1. Over(q) \subseteq Over(m) /\ q \in Over(m) /\ q \notin Over(q)
    BY <1>5
  <2>2. Over(q) \in SUBSET S /\ Over(m) \in SUBSET S /\ Over(q) # Over(m)
    BY <2>1
  <2>3. <<Over(q), Over(m)>> \in StrictSubsetOrdering(S)
    <3> HIDE DEF Over
    <3> QED
      BY <2>1, <2>2 DEF StrictSubsetOrdering
  <2> QED
    BY <1>3, <1>4, <2>3
<1> QED
  BY <1>5

\* The last record of a set in replay order exists if operations are unique
LEMMA LastExists ==
    ASSUME NEW S, IsFiniteSet(S), S # {},
           \A r \in S : r.rev \in Int /\ r.op \in Int,
           \A r, q \in S : r.op = q.op => r = q
    PROVE  Last(S) \in S /\ \A q \in S \ {Last(S)} : Before(q, Last(S))
<1> DEFINE R == {p \in S \X S : Before(p[1], p[2])}
<1>1. \A x, y \in S : <<x, y>> \in R <=> Before(x, y)
  OBVIOUS
<1>2. \A x \in S : ~Before(x, x)
  BY DEF Before
<1>3. \A x, y, z \in S : Before(x, y) /\ Before(y, z) => Before(x, z)
  BY DEF Before
<1> HIDE DEF R
<1>4. PICK m \in S : \A q \in S : <<m, q>> \notin R
  BY <1>1, <1>2, <1>3, FiniteMaximum
<1>5. ASSUME NEW q \in S \ {m} PROVE Before(q, m)
  <2>1. ~Before(m, q)
    BY <1>1, <1>4
  <2>2. m.rev \in Int /\ q.rev \in Int /\ m.op \in Int /\ q.op \in Int /\ m.op # q.op
    OBVIOUS
  <2> QED
    BY <2>1, <2>2 DEF Before
<1> QED
  BY <1>5 DEF Last

\* The height of a set of revisions is a number
LEMMA HeightType ==
    ASSUME NEW S, IsFiniteSet(S), S # {}, \A r \in S : r.rev \in Nat
    PROVE  Height(S) \in Nat
<1> DEFINE R == {p \in S \X S : p[1].rev < p[2].rev}
<1>1. \A x, y \in S : <<x, y>> \in R <=> x.rev < y.rev
  OBVIOUS
<1> HIDE DEF R
<1>2. PICK m \in S : \A q \in S : <<m, q>> \notin R
  <2>1. \A x \in S : <<x, x>> \notin R
    BY <1>1
  <2>2. ASSUME NEW x \in S, NEW y \in S, NEW z \in S, <<x, y>> \in R, <<y, z>> \in R
        PROVE  <<x, z>> \in R
    <3>1. x.rev < y.rev /\ y.rev < z.rev
      BY <1>1, <2>2
    <3>2. x.rev \in Nat /\ y.rev \in Nat /\ z.rev \in Nat
      OBVIOUS
    <3>3. x.rev < z.rev
      BY <3>1, <3>2
    <3> QED
      BY <1>1, <3>3
  <2> QED
    BY <2>1, <2>2, FiniteMaximum
<1>3. m.rev \in {r.rev : r \in S}
  OBVIOUS
<1>4. ASSUME NEW r \in S PROVE r.rev <= m.rev
  <2>1. r.rev \in Nat /\ m.rev \in Nat /\ ~(m.rev < r.rev)
    BY <1>1, <1>2
  <2> QED
    BY <2>1
<1>5. Height(S) \in {r.rev : r \in S}
  BY <1>3, <1>4 DEF Height
<1> QED
  BY <1>5

\* The number of members of W that are not above m
Rank(W, m) == Cardinality({n \in W : n <= m})

\* The ranks of a finite set of numbers are 1, 2, ... without a gap or a repeat
LEMMA RanksCount ==
    ASSUME NEW W \in SUBSET Int, IsFiniteSet(W)
    PROVE  /\ {Rank(W, m) : m \in W} = 1 .. Cardinality(W)
           /\ \A m, n \in W : Rank(W, m) = Rank(W, n) => m = n
<1> DEFINE N == Cardinality(W)
           Upto(m) == {n \in W : n <= m}
<1>1. N \in Nat
  BY FS_CardinalityType
<1>2. \A m \in W : Upto(m) \in SUBSET W /\ m \in Upto(m)
  OBVIOUS
<1>3. \A m \in W : IsFiniteSet(Upto(m)) /\ Rank(W, m) \in 1 .. N
  <2> SUFFICES ASSUME NEW m \in W PROVE IsFiniteSet(Upto(m)) /\ Rank(W, m) \in 1 .. N
    OBVIOUS
  <2>1. IsFiniteSet(Upto(m)) /\ Cardinality(Upto(m)) <= N
    BY <1>2, FS_Subset
  <2>2. Cardinality(Upto(m)) \in Nat
    BY <2>1, FS_CardinalityType
  <2>3. Cardinality(Upto(m)) # 0
    BY <1>2, <2>1, FS_EmptySet
  <2> QED
    BY <1>1, <2>1, <2>2, <2>3 DEF Rank
<1>4. \A m, n \in W : m < n => Rank(W, m) # Rank(W, n)
  <2> SUFFICES ASSUME NEW m \in W, NEW n \in W, m < n PROVE Rank(W, m) # Rank(W, n)
    OBVIOUS
  <2>1. Upto(m) \in SUBSET Upto(n) /\ n \in Upto(n) /\ n \notin Upto(m)
    <3>1. m \in Int /\ n \in Int /\ ~(n <= m)
      OBVIOUS
    <3>2. \A k \in W : k <= m => k <= n
      OBVIOUS
    <3>3. Upto(m) \in SUBSET Upto(n)
      BY <3>2
    <3>4. n \notin Upto(m)
      BY <3>1
    <3> QED
      BY <1>2, <3>3, <3>4
  <2>2. IsFiniteSet(Upto(n))
    BY <1>3
  <2>3. Cardinality(Upto(n)) = Cardinality(Upto(m)) => Upto(n) = Upto(m)
    BY <2>1, <2>2, FS_Subset
  <2> QED
    BY <2>1, <2>3 DEF Rank
<1>5. \A m, n \in W : Rank(W, m) = Rank(W, n) => m = n
  BY <1>4
<1> DEFINE rank == [m \in W |-> Rank(W, m)]
<1>6. rank \in Injection(W, 1 .. N)
  BY <1>3, <1>5 DEF Injection, IsInjective
<1>7. IsFiniteSet(1 .. N) /\ Cardinality(1 .. N) = N
  BY <1>1, FS_Interval
<1>8. rank \in Surjection(W, 1 .. N)
  <2> HIDE DEF rank, N
  <2> QED
    BY <1>6, <1>7, FS_Injection DEF N
<1>9. \A k \in 1 .. N : \E m \in W : Rank(W, m) = k
  BY <1>8 DEF Surjection
<1>10. {Rank(W, m) : m \in W} = 1 .. N
  <2> HIDE DEF N
  <2> QED
    BY <1>3, <1>9
<1> QED
  BY <1>5, <1>10

-----------------------------------------------------------------------------
(* Replay order and causality.                                              *)

\* Operations and rkeys are unique and ordered, so that a set can be replayed
Replayable(S) ==
    /\ IsFiniteSet(S)
    /\ \A r \in S : r.rev \in Int /\ r.op \in Int
    /\ \A r, q \in S : r.key = q.key \/ r.op = q.op => r = q

\* The last of some writers exists, and no other writer had seen it
LEMMA LastIsLatest ==
    ASSUME NEW S, Replayable(S), CausalHeights(S), NEW W \in SUBSET S, W # {}
    PROVE  /\ Last(W) \in W
           /\ \A q \in W \ {Last(W)} : Last(W).key \notin Reachable(S, q.key)
<1> DEFINE l == Last(W)
<1>1. IsFiniteSet(W)
  BY FS_Subset DEF Replayable
<1>2. l \in W /\ \A q \in W \ {l} : Before(q, l)
  BY <1>1, LastExists DEF Replayable
<1> HIDE DEF l
<1>3. ASSUME NEW q \in W \ {l} PROVE l.key \notin Reachable(S, q.key)
  <2> DEFINE Earlier == {x \in S : x.rev < q.rev}
             T == {x.key : x \in Earlier} \cup {q.key}
  <2>1. q \in S /\ l \in S /\ q # l /\ Before(q, l)
    BY <1>2
  <2>2. q.rev \in Int /\ l.rev \in Int
    BY <2>1 DEF Replayable
  <2>3. ~(l.rev < q.rev)
    BY <2>1, <2>2 DEF Before
  <2>4. T \in SUBSET KeysOf(S) /\ q.key \in T
    BY <2>1 DEF KeysOf
  <2>5. l.key \notin T
    BY <2>1, <2>3 DEF Replayable
  <2>6. ASSUME NEW r \in S, r.key \in T PROVE r.parents \subseteq T
    <3>1. r \in Earlier \/ r = q
      BY <2>1, <2>6 DEF Replayable
    <3>2. r.rev \in Int /\ r.rev <= q.rev
      BY <2>2, <3>1 DEF Replayable
    <3>3. ASSUME NEW k \in r.parents PROVE k \in T
      <4>1. PICK p \in S : p.key = k /\ p.rev < r.rev
        BY <3>3 DEF CausalHeights
      <4>2. p.rev \in Int
        BY <4>1 DEF Replayable
      <4>3. p.rev < q.rev
        BY <2>2, <3>2, <4>1, <4>2
      <4> QED
        BY <4>1, <4>3
    <3> QED
      BY <3>3
  <2> HIDE DEF T
  <2> QED
    BY <2>4, <2>5, <2>6 DEF Reachable
<1> QED
  BY <1>2, <1>3 DEF l

\* A committed state: typed and finite
Stored(s) == s \in Contents /\ IsFiniteSet(s.revisions) /\ IsFiniteSet(s.folders)

\* The revisions of a message of a reducible state
LEMMA MessageReplays ==
    ASSUME NEW s, Stored(s), Reducible(s), NEW m \in MessagesIn(s)
    PROVE  LET S == RevisionsOf(s.revisions, m) IN
           /\ Replayable(S) /\ CausalHeights(S)
           /\ {r \in S : r.mailboxes # {}} # {} /\ {r \in S : r.version # NoVersion} # {}
<1> DEFINE S == RevisionsOf(s.revisions, m)
<1>1. CausallyValid(S, ClaimsIn(s, m), VersionsIn(s, m))
  BY DEF Reducible, reduceOfficialMessages
<1>2. S \in SUBSET s.revisions /\ IsFiniteSet(s.revisions) /\ s.revisions \subseteq Revision
  BY DEF RevisionsOf, Stored, Contents
<1>3. IsFiniteSet(S)
  BY <1>2, FS_Subset
<1>4. ASSUME NEW r \in S PROVE r.rev \in Int /\ r.op \in Int
  <2>1. r \in Revision
    BY <1>2
  <2>2. r.rev \in Nat /\ r.op \in Ops
    BY <2>1 DEF Revision
  <2>3. Ops \subseteq Int
    BY ConstantsAssumption
  <2>4. r.op \in Int
    BY <2>2, <2>3, Zenon
  <2> QED
    BY <2>2, <2>4
<1> HIDE DEF S
<1>5. \A r, q \in S : r.key = q.key \/ r.op = q.op => r = q
  BY <1>1 DEF CausallyValid, ClaimsMatch
<1>6. OneRoot(S) /\ CausalHeights(S)
  BY <1>1 DEF CausallyValid
<1>7. {r \in S : r.mailboxes # {}} # {} /\ {r \in S : r.version # NoVersion} # {}
  BY <1>6 DEF OneRoot
<1> QED
  BY <1>3, <1>4, <1>5, <1>6, <1>7 DEF Replayable, S

\* The revisions of a folder of a reducible state
LEMMA FolderReplays ==
    ASSUME NEW s, Stored(s), Reducible(s), NEW f \in FoldersIn(s)
    PROVE  LET S == FolderRevisionsOf(s.folders, f) IN
           Replayable(S) /\ CausalHeights(S) /\ NameWriters(S) # {}
<1> DEFINE S == FolderRevisionsOf(s.folders, f)
<1>1. FolderValid(S, FolderClaimsIn(s, f))
  BY DEF Reducible, reduceOfficialFolders
<1>2. S \in SUBSET s.folders /\ IsFiniteSet(s.folders) /\ s.folders \subseteq FolderRevision
  BY DEF FolderRevisionsOf, Stored, Contents
<1>3. IsFiniteSet(S)
  BY <1>2, FS_Subset
<1>4. ASSUME NEW r \in S PROVE r.rev \in Int /\ r.op \in Int
  <2>1. r \in FolderRevision
    BY <1>2
  <2>2. r.rev \in Nat /\ r.op \in Ops
    BY <2>1 DEF FolderRevision
  <2>3. Ops \subseteq Int
    BY ConstantsAssumption
  <2>4. r.op \in Int
    BY <2>2, <2>3, Zenon
  <2> QED
    BY <2>2, <2>4
<1> HIDE DEF S
<1>5. \A r, q \in S : r.key = q.key \/ r.op = q.op => r = q
  BY <1>1 DEF FolderValid, FolderClaimsMatch
<1>6. FolderRoots(S) /\ CausalHeights(S)
  BY <1>1 DEF FolderValid
<1>7. NameWriters(S) # {}
  BY <1>6 DEF FolderRoots, NameWriters
<1> QED
  BY <1>3, <1>4, <1>5, <1>6, <1>7 DEF Replayable, S

\* WinnersAreLatest for any committed state
LEMMA WinnersLatest ==
    ASSUME Stored(Current) PROVE WinnersAreLatest
<1> SUFFICES ASSUME Reducible(Current)
             PROVE  /\ \A f \in FoldersIn(Current) :
                         LET S == FolderRevisionsOf(Current.folders, f)
                             Named(r) == r.name = FolderStates(Current)[f].name
                         IN  LatestWriter(S, NameWriters(S), Named)
                    /\ \A m \in MessagesIn(Current) :
                         LET S == RevisionsOf(Current.revisions, m)
                             Placed(r) == r.mailboxes = MessageStates(Current)[m].mailboxes
                             Versioned(r) == r.version = MessageStates(Current)[m].version
                         IN  /\ LatestWriter(S, {r \in S : r.mailboxes # {}}, Placed)
                             /\ LatestWriter(S, {r \in S : r.version # NoVersion}, Versioned)
  BY DEF WinnersAreLatest
<1>1. ASSUME NEW f \in FoldersIn(Current)
      PROVE  LET S == FolderRevisionsOf(Current.folders, f)
                 Named(r) == r.name = FolderStates(Current)[f].name
             IN  LatestWriter(S, NameWriters(S), Named)
  <2> DEFINE S == FolderRevisionsOf(Current.folders, f)
             W == NameWriters(S)
  <2>1. Replayable(S) /\ CausalHeights(S) /\ W # {}
    BY <1>1, FolderReplays
  <2>2. W \in SUBSET S
    BY DEF NameWriters
  <2>3. FolderStates(Current)[f].name = Last(W).name
    BY <1>1 DEF FolderStates, ReduceFolder
  <2> HIDE DEF S, W
  <2>4. Last(W) \in W /\ \A q \in W \ {Last(W)} : Last(W).key \notin Reachable(S, q.key)
    BY <2>1, <2>2, LastIsLatest
  <2> QED
    BY <2>3, <2>4 DEF LatestWriter, S, W
<1>2. ASSUME NEW m \in MessagesIn(Current)
      PROVE  LET S == RevisionsOf(Current.revisions, m)
                 Placed(r) == r.mailboxes = MessageStates(Current)[m].mailboxes
                 Versioned(r) == r.version = MessageStates(Current)[m].version
             IN  /\ LatestWriter(S, {r \in S : r.mailboxes # {}}, Placed)
                 /\ LatestWriter(S, {r \in S : r.version # NoVersion}, Versioned)
  <2> DEFINE S == RevisionsOf(Current.revisions, m)
             P == {r \in S : r.mailboxes # {}}
             V == {r \in S : r.version # NoVersion}
  <2>1. Replayable(S) /\ CausalHeights(S) /\ P # {} /\ V # {}
    BY <1>2, MessageReplays
  <2>2. P \in SUBSET S /\ V \in SUBSET S
    OBVIOUS
  <2>3. MessageStates(Current)[m].mailboxes = Last(P).mailboxes /\ MessageStates(Current)[m].version = Last(V).version
    BY <1>2 DEF MessageStates, Reduced, SelectedMailboxes, SelectedVersion
  <2> HIDE DEF S, P, V
  <2>4. Last(P) \in P /\ \A q \in P \ {Last(P)} : Last(P).key \notin Reachable(S, q.key)
    BY <2>1, <2>2, LastIsLatest
  <2>5. Last(V) \in V /\ \A q \in V \ {Last(V)} : Last(V).key \notin Reachable(S, q.key)
    BY <2>1, <2>2, LastIsLatest
  <2> QED
    BY <2>3, <2>4, <2>5 DEF LatestWriter, S, P, V
<1> QED
  BY <1>1, <1>2

-----------------------------------------------------------------------------
(* What a rebuild of a reducible state computes.                            *)

\* The state of a message, by the fields the projection uses
LEMMA StateFields ==
    ASSUME NEW s, NEW m \in MessagesIn(s)
    PROVE  LET S == RevisionsOf(s.revisions, m) IN
           /\ MessageStates(s)[m].version = Last({r \in S : r.version # NoVersion}).version
           /\ MessageStates(s)[m].mailboxes = Last({r \in S : r.mailboxes # {}}).mailboxes
           /\ MessageStates(s)[m].tombstone = Tombstoned(S)
  BY DEF MessageStates, Reduced, SelectedVersion, SelectedMailboxes

\* A message selects a stored version of its own and, if live, live folders
LEMMA SelectedFacts ==
    ASSUME NEW s, Stored(s), Reducible(s), NEW m \in MessagesIn(s)
    PROVE  /\ MessageStates(s)[m].version \in s.versions
           /\ Owner[MessageStates(s)[m].version] = m
           /\ m \in LiveMessages(s) =>
                /\ MessageStates(s)[m].mailboxes # {}
                /\ MessageStates(s)[m].mailboxes \subseteq LiveFolders(s)
<1> DEFINE S == RevisionsOf(s.revisions, m)
           P == {r \in S : r.mailboxes # {}}
           V == {r \in S : r.version # NoVersion}
<1>1. Replayable(S) /\ CausalHeights(S) /\ P # {} /\ V # {}
  BY MessageReplays
<1>2. P \in SUBSET S /\ V \in SUBSET S
  OBVIOUS
<1>3. MessageStates(s)[m].mailboxes = Last(P).mailboxes
      /\ MessageStates(s)[m].version = Last(V).version
      /\ MessageStates(s)[m].tombstone = Tombstoned(S)
  BY StateFields
<1>4. CausallyValid(S, ClaimsIn(s, m), VersionsIn(s, m)) /\ PlacesKnown(s, m)
  BY DEF Reducible, reduceOfficialMessages
<1>5. VersionsReferenced(S, VersionsIn(s, m))
  BY <1>4 DEF CausallyValid
<1>6. Last(P) \in P /\ Last(V) \in V
  <2> HIDE DEF S, P, V
  <2> QED
    BY <1>1, <1>2, LastIsLatest
<1>7. Last(V).version \in VersionsIn(s, m)
  BY <1>5, <1>6 DEF VersionsReferenced
<1>8. ~Tombstoned(S) => Last(P).mailboxes \subseteq LiveFolders(s)
  BY <1>4 DEF PlacesKnown, SelectedMailboxes
<1>9. m \in LiveMessages(s) => ~Tombstoned(S)
  BY <1>3 DEF LiveMessages
<1> HIDE DEF S, V
<1> QED
  BY <1>3, <1>6, <1>7, <1>8, <1>9 DEF VersionsIn

\* Live messages and folders are those no revision of which is a tombstone
LEMMA LiveAreUndeleted ==
    ASSUME NEW s
    PROVE  /\ LiveMessages(s) = {m \in MessagesIn(s) : Undeleted(RevisionsOf(s.revisions, m))}
           /\ LiveFolders(s) = {f \in FoldersIn(s) : Undeleted(FolderRevisionsOf(s.folders, f))}
<1>1. \A m \in MessagesIn(s) : MessageStates(s)[m].tombstone = Tombstoned(RevisionsOf(s.revisions, m))
  BY StateFields
<1>2. \A f \in FoldersIn(s) :
        FolderStates(s)[f].tombstone = Tombstoned(FolderRevisionsOf(s.folders, f))
  BY DEF FolderStates, ReduceFolder
<1>3. \A S : Tombstoned(S) <=> ~Undeleted(S)
  BY DEF Tombstoned, Undeleted
<1> QED
  BY <1>1, <1>2, <1>3 DEF LiveMessages, LiveFolders

\* All rows of a projection of s, and the row of message m in folder f
Rows(s) == UNION {RowsOf(s, v) : v \in s.versions}
Row(s, m, f) == [version |-> MessageStates(s)[m].version, folder |-> f, uid |-> UID(s, m, f)]

\* A projection has the rows of the live messages in their folders, no others
LEMMA RowFacts ==
    ASSUME NEW s, Stored(s), Reducible(s)
    PROVE  /\ \A row \in Rows(s) : \E f \in LiveFolders(s) : \E m \in Within(s, f) : row = Row(s, m, f)
           /\ \A f : \A m \in Within(s, f) : f \in LiveFolders(s) /\ Row(s, m, f) \in Rows(s)
<1>1. \A m \in LiveMessages(s) : m \in MessagesIn(s)
  BY DEF LiveMessages
<1>2. ASSUME NEW row \in Rows(s)
      PROVE  \E f \in LiveFolders(s) : \E m \in Within(s, f) : row = Row(s, m, f)
  <2>1. PICK v \in s.versions : row \in RowsOf(s, v)
    BY <1>2 DEF Rows
  <2>2. PICK f \in LiveFolders(s) :
            /\ v \in Selected(s) /\ Owner[v] \in Within(s, f)
            /\ row = [version |-> v, folder |-> f, uid |-> UID(s, Owner[v], f)]
    BY <2>1 DEF RowsOf
  <2>3. PICK m \in LiveMessages(s) : v = MessageStates(s)[m].version
    BY <2>2 DEF Selected
  <2>4. Owner[v] = m
    BY <1>1, <2>3, SelectedFacts
  <2> QED
    BY <2>2, <2>3, <2>4 DEF Row
<1>3. ASSUME NEW f, NEW m \in Within(s, f)
      PROVE  f \in LiveFolders(s) /\ Row(s, m, f) \in Rows(s)
  <2> DEFINE v == MessageStates(s)[m].version
  <2>1. m \in LiveMessages(s) /\ f \in MessageStates(s)[m].mailboxes
    BY <1>3 DEF Within
  <2>2. f \in LiveFolders(s) /\ v \in s.versions /\ Owner[v] = m
    BY <1>1, <2>1, SelectedFacts
  <2>3. v \in Selected(s)
    BY <2>1 DEF Selected
  <2> HIDE DEF v
  <2>4. [version |-> v, folder |-> f, uid |-> UID(s, m, f)] \in RowsOf(s, v)
    BY <1>3, <2>2, <2>3 DEF RowsOf
  <2>5. Row(s, m, f) = [version |-> v, folder |-> f, uid |-> UID(s, m, f)]
    BY DEF Row, v
  <2> QED
    BY <2>2, <2>4, <2>5 DEF Rows
<1> QED
  BY <1>2, <1>3

\* The messages within a folder are a finite set of numbers
LEMMA WithinFinite ==
    ASSUME NEW s, Stored(s), NEW f
    PROVE  Within(s, f) \in SUBSET Int /\ IsFiniteSet(Within(s, f))
<1>1. IsFiniteSet(s.revisions) /\ s.revisions \subseteq Revision
  BY DEF Stored, Contents
<1> DEFINE lm == [r \in s.revisions |-> r.lm]
<1>2. lm \in Surjection(s.revisions, MessagesIn(s))
  BY DEF Surjection, MessagesIn
<1>3. IsFiniteSet(MessagesIn(s))
  <2> HIDE DEF lm
  <2> QED
    BY <1>1, <1>2, FS_Surjection
<1>4. MessagesIn(s) \subseteq Messages
  BY <1>1 DEF MessagesIn, Revision
<1>5. MessagesIn(s) \subseteq Int
  BY <1>4, RecoveryAssumption
<1>6. Within(s, f) \in SUBSET MessagesIn(s)
  BY DEF Within, LiveMessages
<1> QED
  BY <1>3, <1>5, <1>6, FS_Subset

\* The projection of a reducible state is exact
LEMMA ExactProjection ==
    ASSUME NEW s, Stored(s), Reducible(s)
    PROVE  LET Live == {m \in MessagesIn(s) : Undeleted(RevisionsOf(s.revisions, m))}
               In(f) == {row \in Rows(s) : row.folder = f}
           IN  /\ {t.folder : t \in FolderTable(s)} =
                    {f \in FoldersIn(s) : Undeleted(FolderRevisionsOf(s.folders, f))}
               /\ {Owner[row.version] : row \in Rows(s)} = Live
               /\ \A f \in FoldersIn(s) :
                    /\ {row.uid : row \in In(f)} = 1..Cardinality(In(f))
                    /\ \A row, other \in In(f) : Owner[row.version] = Owner[other.version] => row = other
<1> DEFINE In(f) == {row \in Rows(s) : row.folder = f}
<1>1. {t.folder : t \in FolderTable(s)} = LiveFolders(s)
  <2> DEFINE Entry(f) == [folder |-> f, name |-> FolderStates(s)[f].name]
  <2>1. FolderTable(s) = {Entry(f) : f \in LiveFolders(s)}
    BY DEF FolderTable
  <2>2. \A f : Entry(f).folder = f
    OBVIOUS
  <2> HIDE DEF Entry
  <2> QED
    BY <2>1, <2>2
<1>2. \A m \in LiveMessages(s) :
        /\ Owner[MessageStates(s)[m].version] = m
        /\ MessageStates(s)[m].mailboxes # {}
  BY SelectedFacts DEF LiveMessages
<1>3. \A f : \A m \in Within(s, f) :
        /\ m \in LiveMessages(s) /\ Owner[Row(s, m, f).version] = m
        /\ Row(s, m, f).folder = f /\ Row(s, m, f).uid = UID(s, m, f)
  BY <1>2 DEF Within, Row
<1>4. {Owner[row.version] : row \in Rows(s)} = LiveMessages(s)
  <2>1. \A row \in Rows(s) : Owner[row.version] \in LiveMessages(s)
    BY <1>3, RowFacts
  <2>2. ASSUME NEW m \in LiveMessages(s) PROVE \E row \in Rows(s) : Owner[row.version] = m
    <3>1. PICK f \in MessageStates(s)[m].mailboxes : TRUE
      BY <1>2
    <3>2. m \in Within(s, f)
      BY <3>1 DEF Within
    <3> QED
      BY <1>3, <3>2, RowFacts
  <2> QED
    BY <2>1, <2>2
<1>5. ASSUME NEW f
      PROVE  /\ {row.uid : row \in In(f)} = 1..Cardinality(In(f))
             /\ \A row, other \in In(f) : Owner[row.version] = Owner[other.version] => row = other
  <2> DEFINE W == Within(s, f)
             rowOf == [m \in W |-> Row(s, m, f)]
  <2>1. W \in SUBSET Int /\ IsFiniteSet(W)
    BY WithinFinite
  <2>2. \A row \in In(f) : \E m \in W : row = Row(s, m, f)
    BY <1>3, RowFacts
  <2>3. \A m \in W : Row(s, m, f) \in In(f)
    BY <1>3, RowFacts
  <2>4. \A m, n \in W : Row(s, m, f) = Row(s, n, f) => m = n
    BY <1>3
  <2>5. rowOf \in Bijection(W, In(f))
    <3> HIDE DEF W, In
    <3> QED
      BY <2>2, <2>3, <2>4 DEF Bijection, Injection, Surjection, IsInjective
  <2>6. Cardinality(In(f)) = Cardinality(W)
    <3> HIDE DEF W, In, rowOf
    <3>1. ExistsBijection(W, In(f))
      BY <2>5 DEF ExistsBijection
    <3> QED
      BY <2>1, <3>1, FS_Bijection
  <2>7. \A m \in W : Row(s, m, f).uid = Rank(W, m)
    BY <1>3 DEF UID, Rank
  <2>8. {Rank(W, m) : m \in W} = 1 .. Cardinality(W)
    <3> HIDE DEF W
    <3> QED
      BY <2>1, RanksCount
  <2>9. {row.uid : row \in In(f)} = {Rank(W, m) : m \in W}
    <3> HIDE DEF W, In
    <3> QED
      BY <2>2, <2>3, <2>7
  <2>10. \A row, other \in In(f) : Owner[row.version] = Owner[other.version] => row = other
    <3> HIDE DEF In
    <3> QED
      BY <1>3, <2>2
  <2> QED
    BY <2>6, <2>8, <2>9, <2>10
<1> QED
  BY <1>1, <1>4, <1>5, LiveAreUndeleted

-----------------------------------------------------------------------------
(* The inductive invariant.                                                 *)

(***************************************************************************)
(* What is read, handed out and projected is a position of the history and *)
(* what stands there: requests, visits and rebuilds remember the position, *)
(* and the history only grows.  A read and a source exclude each other; a  *)
(* visit keeps a closed source pending; the file is its maker's until it   *)
(* is removed, and once committed it holds the rows of its position.       *)
(***************************************************************************)
Visiting == {b \in Builders : builder[b].pc = "visit"}
Running == {"open", "folders", "states", "create", "opened", "visit", "complete", "committed", "remove"}
Owning == {"opened", "visit", "complete", "committed", "remove", "done"}

HistoryOK == history \in Seq(Contents) /\ Len(history) > 0 /\ \A i \in DOMAIN history : Stored(history[i])

ReaderType ==
    [pc: {"idle", "car", "after", "reduce", "start", "blobs"}, at: Nat, contents: Contents,
     got: SUBSET Versions]

ReaderOK ==
    /\ reader \in ReaderType
    /\ reader.at \in 0 .. Len(history)
    /\ reader.pc # "idle" => source = NoSource /\ reader.at \in DOMAIN history
    /\ reader.pc \in {"after", "reduce", "start", "blobs"} => reader.contents = history[reader.at]
    /\ reader.pc \in {"start", "blobs"} => Reducible(reader.contents)

SourceType ==
    [at: Nat, contents: Contents, blobs: SUBSET Versions, closed: BOOLEAN, closePending: BOOLEAN,
     active: Nat]

\* The source still has the content of its commit
Whole == source.contents = history[source.at] /\ source.blobs = RawBlobs(history[source.at])

SourceOK ==
    /\ source \in SourceType
    /\ source # NoSource =>
        /\ source.at \in DOMAIN history /\ Reducible(history[source.at])
        /\ ~source.closed \/ source.closePending => Whole
        /\ source.closePending => source.closed
        /\ IsFiniteSet(Visiting) /\ source.active = Cardinality(Visiting)

Rebuilds(count, rows) ==
    [pc: {"idle", "done", "failed"} \cup Running, count: {count}, folders: SUBSET FolderRevision,
     revisions: SUBSET Revision, seen: SUBSET Versions, rows: {rows}]

\* What is true of rebuild b in state j, for the source src of the records s and the file f
RebuildOK(b, j, src, f, s) ==
    /\ j \in Rebuilds(j.count, j.rows)
    /\ j.pc \in Running => src # NoSource
    /\ j.pc = "visit" /\ src.closed => src.closePending
    /\ j.pc \in {"states", "create", "opened"} /\ ~src.closed => j.folders = s.folders
    /\ j.pc \in {"create", "opened"} /\ ~src.closed => j.revisions = s.revisions
    /\ j.pc \in {"visit", "complete"} =>
        /\ j.folders = s.folders /\ j.revisions = s.revisions
        /\ j.seen \subseteq s.versions
        /\ j.rows = UNION {RowsOf(s, v) : v \in j.seen}
    /\ j.pc = "complete" => j.seen = s.versions
    /\ j.pc \in {"idle", "open", "folders", "states", "create", "opened"} => j.seen = {} /\ j.rows = {}
    /\ j.pc \in Owning => f.by = b
    /\ j.pc \in {"opened", "visit", "complete", "committed"} => f.at = src.at
    /\ j.pc \in {"committed", "done"} => f.committed

BuilderOK == \A b \in Builders : RebuildOK(b, builder[b], source, file, history[source.at])

Files(folders, rows) ==
    [by: Builders \cup {None}, at: Nat, committed: BOOLEAN, folders: {folders}, rows: {rows}]

FileOK ==
    /\ file \in Files(file.folders, file.rows)
    /\ file.by = None => file = NoFile
    /\ file.committed =>
        /\ file.by # None
        /\ file.at \in DOMAIN history /\ Reducible(history[file.at])
        /\ file.folders = FolderTable(history[file.at])
        /\ file.rows = Rows(history[file.at])

IInv ==
    /\ HistoryOK /\ ReaderOK /\ SourceOK /\ FileOK
    /\ builder = [b \in Builders |-> builder[b]]
    /\ BuilderOK
    /\ faults \in 0 .. maxFaults

-----------------------------------------------------------------------------
(* Commits.                                                                 *)

\* The heads of typed revisions are rkeys, and what follows them has a height
LEMMA BuiltOn ==
    ASSUME NEW S, IsFiniteSet(S), \A r \in S : r.key \in Keys /\ r.rev \in Nat
    PROVE  Heads(S) \in SUBSET Keys /\ Above(S) \in Nat
<1>1. Heads(S) \in SUBSET Keys
  BY DEF Heads, KeysOf
<1>2. Above(S) \in Nat
  BY HeightType DEF Above
<1> QED
  BY <1>1, <1>2

\* Parts of a committed state are typed and finite
LEMMA StoredParts ==
    ASSUME NEW s, Stored(s), NEW m, NEW f
    PROVE  /\ IsFiniteSet(RevisionsOf(s.revisions, m)) /\ RevisionsOf(s.revisions, m) \subseteq Revision
           /\ IsFiniteSet(FolderRevisionsOf(s.folders, f))
           /\ FolderRevisionsOf(s.folders, f) \subseteq FolderRevision
<1>1. IsFiniteSet(s.revisions) /\ s.revisions \subseteq Revision
      /\ IsFiniteSet(s.folders) /\ s.folders \subseteq FolderRevision
  BY DEF Stored, Contents
<1>2. RevisionsOf(s.revisions, m) \in SUBSET s.revisions
      /\ FolderRevisionsOf(s.folders, f) \in SUBSET s.folders
  BY DEF RevisionsOf, FolderRevisionsOf
<1> QED
  BY <1>1, <1>2, FS_Subset

\* What a client builds is a folder revision
LEMMA FolderChangesTyped ==
    ASSUME NEW s, Stored(s), NEW f \in Folders, NEW op \in FreshOps
    PROVE  FolderChanges(s, f, op) \subseteq FolderRevision
<1> DEFINE S == FolderRevisionsOf(s.folders, f)
           Base == [key |-> op, folder |-> f, op |-> op, parents |-> Heads(S), rev |-> Above(S),
                    name |-> NoName, role |-> NoRole, tombstone |-> FALSE, merge |-> FALSE]
<1>1. op \in Ops /\ op \in Keys
  BY RecoveryAssumption
<1>2. Heads(S) \in SUBSET Keys /\ Above(S) \in Nat
  <2>1. IsFiniteSet(S) /\ S \subseteq FolderRevision
    BY StoredParts
  <2>2. \A r \in S : r.key \in Keys /\ r.rev \in Nat
    BY <2>1 DEF FolderRevision
  <2> HIDE DEF S
  <2> QED
    BY <2>1, <2>2, BuiltOn
<1>3. FolderChanges(s, f, op) =
        {[Base EXCEPT !.name = n] : n \in Names}
          \cup {[Base EXCEPT !.tombstone = TRUE], [Base EXCEPT !.merge = TRUE]}
  BY DEF FolderChanges
<1> HIDE DEF S
<1>4. Base \in FolderRevision
  BY <1>1, <1>2 DEF FolderRevision
<1> HIDE DEF Base
<1>5. /\ \A n \in Names : [Base EXCEPT !.name = n] \in FolderRevision
      /\ [Base EXCEPT !.tombstone = TRUE] \in FolderRevision
      /\ [Base EXCEPT !.merge = TRUE] \in FolderRevision
  BY <1>4 DEF FolderRevision
<1> QED
  BY <1>3, <1>5

\* What a client builds is a revision
LEMMA MessageChangesTyped ==
    ASSUME NEW s, Stored(s), NEW m \in Messages, NEW op \in FreshOps
    PROVE  MessageChanges(s, m, op) \subseteq Revision
<1> DEFINE S == RevisionsOf(s.revisions, m)
           Base == [key |-> op, lm |-> m, op |-> op, parents |-> Heads(S), rev |-> Above(S),
                    version |-> NoVersion, mailboxes |-> {}, on |-> {}, off |-> {},
                    nilKeywords |-> TRUE, deletePending |-> "unset", tombstone |-> FALSE]
<1>1. op \in Ops /\ op \in Keys
  BY RecoveryAssumption
<1>2. Heads(S) \in SUBSET Keys /\ Above(S) \in Nat
  <2>1. IsFiniteSet(S) /\ S \subseteq Revision
    BY StoredParts
  <2>2. \A r \in S : r.key \in Keys /\ r.rev \in Nat
    BY <2>1 DEF Revision
  <2> HIDE DEF S
  <2> QED
    BY <2>1, <2>2, BuiltOn
<1> DEFINE Moved(f) == [Base EXCEPT !.mailboxes = {f}]
           Given(v, f) == [Base EXCEPT !.version = v, !.mailboxes = {f}]
           Deleted == [Base EXCEPT !.tombstone = TRUE]
<1>3. MessageChanges(s, m, op) =
        {Moved(f) : f \in Folders} \cup {Given(v, f) : v \in Versions, f \in Standard} \cup {Deleted}
  BY DEF MessageChanges
<1> HIDE DEF S
<1>4. Base \in Revision
  BY <1>1, <1>2 DEF Revision
<1>5. Standard \subseteq Folders
  BY FolderConstants
<1> HIDE DEF Base
<1>6. /\ \A f \in Folders : Moved(f) \in Revision
      /\ \A v \in Versions, f \in Standard : Given(v, f) \in Revision
      /\ Deleted \in Revision
  BY <1>4, <1>5 DEF Revision
<1> HIDE DEF Moved, Given, Deleted
<1> QED
  BY <1>3, <1>6

\* A commit leaves a typed and finite state
LEMMA WithTyped ==
    ASSUME NEW s, Stored(s)
    PROVE  /\ \A r \in FolderRevision : Stored(WithFolderRevision(s, r))
           /\ \A r \in Revision : Stored(WithRevision(s, r))
<1>1. /\ s \in Contents /\ IsFiniteSet(s.revisions) /\ IsFiniteSet(s.folders)
  BY DEF Stored
<1>2. ASSUME NEW r \in FolderRevision PROVE Stored(WithFolderRevision(s, r))
  <2>1. FolderClaimOf(r) \in FolderClaim
    BY DEF FolderClaimOf, FolderClaim, FolderRevision
  <2>2. WithFolderRevision(s, r) \in Contents
        /\ WithFolderRevision(s, r).revisions = s.revisions
        /\ WithFolderRevision(s, r).folders = s.folders \cup {r}
    BY <1>1, <2>1 DEF WithFolderRevision, Contents
  <2> QED
    BY <1>1, <2>2, FS_AddElement DEF Stored
<1>3. ASSUME NEW r \in Revision PROVE Stored(WithRevision(s, r))
  <2>1. ClaimOf(r) \in Claim
    BY DEF ClaimOf, Claim, Revision
  <2>2. {r.version} \ {NoVersion} \subseteq Versions
    BY DEF Revision
  <2>3. WithRevision(s, r) \in Contents
        /\ WithRevision(s, r).revisions = s.revisions \cup {r}
        /\ WithRevision(s, r).folders = s.folders
    BY <1>1, <2>1, <2>2 DEF WithRevision, Contents
  <2> QED
    BY <1>1, <2>3, FS_AddElement DEF Stored
<1> QED
  BY <1>2, <1>3

\* A commit adds one state to the history and leaves the others
LEMMA Grows ==
    ASSUME HistoryOK, Commit
    PROVE  /\ HistoryOK'
           /\ Len(history') = Len(history) + 1
           /\ \A i \in DOMAIN history : i \in DOMAIN history' /\ history'[i] = history[i]
           /\ SubSeq(history', 1, Len(history)) = history
<1>1. /\ history \in Seq(Contents) /\ Len(history) \in Nat /\ Len(history) > 0
      /\ DOMAIN history = 1 .. Len(history) /\ \A i \in DOMAIN history : Stored(history[i])
  BY DEF HistoryOK
<1>2. Stored(Current)
  BY <1>1 DEF Current
<1>3. PICK x : Stored(x) /\ history' = Append(history, x)
  <2>1. CASE CommitFolder
    <3>1. PICK i \in DOMAIN history, f \in Folders, op \in FreshOps :
            \E r \in FolderChanges(history[i], f, op) :
                history' = Append(history, WithFolderRevision(Current, r))
      BY <2>1 DEF CommitFolder
    <3>2. PICK r \in FolderRevision : history' = Append(history, WithFolderRevision(Current, r))
      BY <1>1, <3>1, FolderChangesTyped
    <3> QED
      BY <1>2, <3>2, WithTyped
  <2>2. CASE CommitMessage
    <3>1. PICK i \in DOMAIN history, m \in Messages, op \in FreshOps :
            \E r \in MessageChanges(history[i], m, op) :
                history' = Append(history, WithRevision(Current, r))
      BY <2>2 DEF CommitMessage
    <3>2. PICK r \in Revision : history' = Append(history, WithRevision(Current, r))
      BY <1>1, <3>1, MessageChangesTyped
    <3> QED
      BY <1>2, <3>2, WithTyped
  <2> QED
    BY <2>1, <2>2 DEF Commit
<1>4. x \in Contents
  BY <1>3 DEF Stored
<1>5. /\ history' \in Seq(Contents) /\ Len(history') = Len(history) + 1
      /\ DOMAIN history' = 1 .. Len(history) + 1
      /\ history'[Len(history) + 1] = x
      /\ \A i \in 1 .. Len(history) : history'[i] = history[i]
  BY <1>1, <1>3, <1>4
<1>6. HistoryOK'
  BY <1>1, <1>3, <1>5 DEF HistoryOK
<1>7. SubSeq(history', 1, Len(history)) = history
  BY <1>1, <1>5
<1> QED
  BY <1>1, <1>5, <1>6, <1>7

\* A rebuild that is not running depends on the file only
LEMMA QuietRebuild ==
    ASSUME NEW b, NEW j, NEW src, NEW f, NEW s, RebuildOK(b, j, src, f, s), j.pc \notin Running,
           NEW src2, NEW s2
    PROVE  RebuildOK(b, j, src2, f, s2)
  BY DEF RebuildOK, Running

\* Commits preserve the inductive invariant
LEMMA CommitOK == ASSUME IInv, Commit PROVE IInv'
<1> USE DEF IInv
<1>1. /\ HistoryOK' /\ Len(history') = Len(history) + 1
      /\ \A i \in DOMAIN history : i \in DOMAIN history' /\ history'[i] = history[i]
  BY Grows
<1>2. Len(history) \in Nat
  BY DEF HistoryOK
<1>3. UNCHANGED <<reader, source, builder, file, faults>>
  BY DEF Commit
<1>4. ReaderOK'
  <2>1. reader.at \in 0 .. Len(history')
    BY <1>1, <1>2 DEF ReaderOK
  <2> QED
    BY <1>1, <1>3, <2>1 DEF ReaderOK
<1>5. SourceOK'
  <2>1. Visiting' = Visiting
    BY <1>3 DEF Visiting
  <2> QED
    BY <1>1, <1>3, <2>1 DEF SourceOK, Whole
<1>6. FileOK'
  BY <1>1, <1>3 DEF FileOK
<1>7. BuilderOK'
  <2> SUFFICES ASSUME NEW b \in Builders
               PROVE  RebuildOK(b, builder[b], source, file, history'[source.at])
    BY <1>3 DEF BuilderOK
  <2>1. RebuildOK(b, builder[b], source, file, history[source.at])
    BY DEF BuilderOK
  <2>2. CASE source # NoSource
    BY <1>1, <2>1, <2>2 DEF SourceOK
  <2>3. CASE source = NoSource
    <3>1. builder[b].pc \notin Running
      BY <2>1, <2>3 DEF RebuildOK
    <3> QED
      BY <2>1, <3>1, QuietRebuild
  <2> QED
    BY <2>2, <2>3
<1> QED
  BY <1>1, <1>3, <1>4, <1>5, <1>6, <1>7

-----------------------------------------------------------------------------
(* The read.                                                                *)

\* A step that moves the reader only
LEMMA ReaderStep ==
    ASSUME IInv, UNCHANGED <<history, source, builder, file>>, ReaderOK', faults' \in 0 .. maxFaults
    PROVE  IInv'
<1>1. HistoryOK' /\ SourceOK' /\ FileOK' /\ BuilderOK' /\ Visiting' = Visiting
  BY DEF IInv, HistoryOK, SourceOK, FileOK, BuilderOK, Whole, Visiting
<1> QED
  BY <1>1 DEF IInv

\* The constants of the reader
LEMMA IdleReader ==
    /\ Empty \in Contents /\ Idle \in ReaderType
    /\ Idle.pc = "idle" /\ Idle.at = 0
  BY DEF Empty, Contents, Idle, ReaderType

\* Giving up a read
LEMMA GiveUp ==
    ASSUME IInv, UNCHANGED history, reader' = Idle
    PROVE  ReaderOK'
<1>1. Len(history) \in Nat
  BY DEF IInv, HistoryOK
<1> QED
  BY <1>1, IdleReader DEF ReaderOK

\* Every request of a read but the last preserves the inductive invariant
LEMMA ReadOK ==
    ASSUME IInv, ReadBefore \/ ReadCAR \/ ReadAfter \/ Reduce \/ StartBlobs \/ ReadBlob \/ RequestFails
    PROVE  IInv'
<1>1. /\ history \in Seq(Contents) /\ Len(history) \in Nat /\ Len(history) > 0
      /\ DOMAIN history = 1 .. Len(history) /\ \A i \in DOMAIN history : history[i] \in Contents
  BY DEF IInv, HistoryOK
<1>2. reader \in ReaderType /\ faults \in 0 .. maxFaults /\ maxFaults \in Nat
  BY RecoveryAssumption DEF IInv, ReaderOK
<1>3. CASE ReadBefore
  <2> DEFINE new == [Idle EXCEPT !.pc = "car", !.at = Latest]
  <2>1. /\ UNCHANGED <<history, builder, file, source, faults>> /\ source = NoSource /\ reader' = new
    BY <1>3 DEF ReadBefore, Request
  <2>2. new \in ReaderType /\ new.pc = "car" /\ new.at = Len(history)
    BY <1>1, IdleReader DEF ReaderType, Latest
  <2> HIDE DEF new
  <2>3. ReaderOK'
    BY <1>1, <2>1, <2>2 DEF ReaderOK
  <2> QED
    BY <1>2, <2>1, <2>3, ReaderStep
<1>4. CASE ReadCAR
  <2>1. PICK commit \in DOMAIN history, index \in DOMAIN history :
            /\ faults' = IF commit = Latest /\ index = Latest THEN faults ELSE faults + 1
            /\ faults' <= maxFaults
            /\ reader' = IF VerifyFullSourceCAR(commit, index) /\ commit = reader.at
                           THEN [reader EXCEPT !.pc = "after", !.contents = history[index]]
                           ELSE Idle
    BY <1>4 DEF ReadCAR
  <2>2. reader.pc = "car" /\ UNCHANGED <<history, builder, file, source>>
    BY <1>4 DEF ReadCAR, Request
  <2>3. faults' \in 0 .. maxFaults
    BY <1>2, <2>1
  <2> DEFINE new == [reader EXCEPT !.pc = "after", !.contents = history[index]]
  <2>4. /\ new \in ReaderType /\ new.pc = "after" /\ new.at = reader.at
        /\ new.contents = history[index]
    BY <1>1, <1>2, <2>1 DEF ReaderType
  <2>5. reader' = Idle \/ (reader' = new /\ history[index] = history[reader.at])
    BY <2>1 DEF VerifyFullSourceCAR
  <2> HIDE DEF new
  <2>6. CASE reader' = new /\ history[index] = history[reader.at]
    <3>1. ReaderOK'
      BY <2>2, <2>4, <2>6 DEF IInv, ReaderOK
    <3> QED
      BY <2>2, <2>3, <3>1, ReaderStep
  <2>7. CASE reader' = Idle
    BY <2>2, <2>3, <2>7, GiveUp, ReaderStep
  <2> QED
    BY <2>5, <2>6, <2>7
<1>5. CASE ReadAfter \/ Reduce \/ StartBlobs
  <2> DEFINE new(label) == [reader EXCEPT !.pc = label]
  <2>1. UNCHANGED <<history, builder, file, source, faults>>
    BY <1>5 DEF ReadAfter, Reduce, StartBlobs, Request
  <2>2. \/ reader' = Idle
        \/ reader.pc = "after" /\ reader' = new("reduce")
        \/ reader.pc = "reduce" /\ Reducible(reader.contents) /\ reader' = new("start")
        \/ reader.pc = "start" /\ reader' = new("blobs")
    BY <1>5 DEF ReadAfter, Reduce, StartBlobs, Request
  <2>3. \A label \in {"reduce", "start", "blobs"} :
          /\ new(label) \in ReaderType /\ new(label).pc = label /\ new(label).at = reader.at
          /\ new(label).contents = reader.contents
    BY <1>2 DEF ReaderType
  <2> HIDE DEF new
  <2>4. CASE reader' # Idle
    <3>1. ReaderOK'
      BY <2>1, <2>2, <2>3, <2>4 DEF IInv, ReaderOK
    <3> QED
      BY <1>2, <2>1, <3>1, ReaderStep
  <2>5. CASE reader' = Idle
    BY <1>2, <2>1, <2>5, GiveUp, ReaderStep
  <2> QED
    BY <2>4, <2>5
<1>6. CASE ReadBlob
  <2>1. PICK v \in RawBlobs(reader.contents) : reader' = [reader EXCEPT !.got = @ \cup {v}]
    BY <1>6 DEF ReadBlob
  <2>2. UNCHANGED <<history, builder, file, source, faults>>
    BY <1>6 DEF ReadBlob, Request
  <2>3. v \in Versions
    BY <1>2, <2>1 DEF ReaderType, Contents, RawBlobs
  <2>4. /\ reader' \in ReaderType /\ reader'.pc = reader.pc /\ reader'.at = reader.at
        /\ reader'.contents = reader.contents
    BY <1>2, <2>1, <2>3 DEF ReaderType
  <2>5. ReaderOK'
    BY <2>2, <2>4 DEF IInv, ReaderOK
  <2> QED
    BY <1>2, <2>2, <2>5, ReaderStep
<1>7. CASE RequestFails
  <2>1. UNCHANGED <<history, source, builder, file>> /\ reader' = Idle
        /\ faults < maxFaults /\ faults' = faults + 1
    BY <1>7 DEF RequestFails
  <2>2. faults' \in 0 .. maxFaults
    BY <1>2, <2>1
  <2> QED
    BY <2>1, <2>2, GiveUp, ReaderStep
<1> QED
  BY <1>3, <1>4, <1>5, <1>6, <1>7

\* Without a source no rebuild is running
LEMMA NoneRunning ==
    ASSUME IInv, source = NoSource
    PROVE  /\ \A b \in Builders : builder[b].pc \notin Running
           /\ Visiting = {}
<1>1. ASSUME NEW b \in Builders PROVE builder[b].pc \notin Running
  BY DEF IInv, BuilderOK, RebuildOK
<1> QED
  BY <1>1 DEF Visiting, Running

\* The last request of a read: the source is handed out or the read given up
LEMMA FinishOK == ASSUME IInv, Finish PROVE IInv'
<1>1. /\ UNCHANGED <<history, builder, file, faults>> /\ reader' = Idle
      /\ reader.pc = "blobs" /\ reader.got = RawBlobs(reader.contents)
      /\ source' = Handed \/ source' = NoSource
  BY DEF Finish, Request
<1>2. /\ reader \in ReaderType /\ source = NoSource /\ reader.at \in DOMAIN history
      /\ reader.contents = history[reader.at] /\ Reducible(reader.contents)
  BY <1>1 DEF IInv, ReaderOK
<1>3. ReaderOK'
  BY <1>1, GiveUp
<1>4. Visiting = {} /\ Visiting' = Visiting /\ IsFiniteSet(Visiting) /\ Cardinality(Visiting) = 0
  <2>1. Visiting = {} /\ Visiting' = Visiting
    BY <1>1, <1>2, NoneRunning DEF Visiting
  <2> QED
    BY <2>1, FS_EmptySet
<1>5. SourceOK'
  <2>1. CASE source' = Handed
    <3> DEFINE new == Handed
    <3>1. /\ new \in SourceType /\ new.at = reader.at /\ new.contents = reader.contents
          /\ new.blobs = reader.got /\ new.closed = FALSE /\ new.closePending = FALSE /\ new.active = 0
      BY <1>2 DEF Handed, SourceType, ReaderType
    <3> HIDE DEF new
    <3>2. source' = new
      BY <2>1 DEF new
    <3> QED
      BY <1>1, <1>2, <1>4, <3>1, <3>2 DEF SourceOK, Whole
  <2>2. CASE source' = NoSource
    <3>1. NoSource \in SourceType
      BY IdleReader DEF NoSource, SourceType
    <3> QED
      BY <2>2, <3>1 DEF SourceOK
  <2> QED
    BY <1>1, <2>1, <2>2
<1>6. BuilderOK'
  <2> SUFFICES ASSUME NEW b \in Builders
               PROVE  RebuildOK(b, builder[b], source', file, history[source'.at])
    BY <1>1 DEF BuilderOK
  <2>1. builder[b].pc \notin Running /\ RebuildOK(b, builder[b], source, file, history[source.at])
    BY <1>2, NoneRunning DEF IInv, BuilderOK
  <2> QED
    BY <2>1, QuietRebuild
<1>7. HistoryOK' /\ FileOK'
  BY <1>1 DEF IInv, HistoryOK, FileOK
<1> QED
  BY <1>1, <1>3, <1>5, <1>6, <1>7 DEF IInv

-----------------------------------------------------------------------------
(* The source, and crashes.                                                 *)

\* A source that is closed, or stays as it was, under a rebuild
LEMMA SourceMoves ==
    ASSUME NEW b, NEW j, NEW src, NEW f, NEW s, RebuildOK(b, j, src, f, s), NEW src2,
           src2.at = src.at, src # NoSource => src2 # NoSource,
           src2.closed \/ (src2.closed <=> src.closed),
           j.pc = "visit" /\ src2.closed => src2.closePending
    PROVE  RebuildOK(b, j, src2, f, s)
  BY DEF RebuildOK, Running

\* The source is somewhere in the history
LEMMA SourceAt ==
    ASSUME IInv, source # NoSource
    PROVE  /\ source \in SourceType /\ source.at \in DOMAIN history /\ source.at # 0
           /\ history[source.at] \in Contents
<1>1. source \in SourceType /\ source.at \in DOMAIN history
  BY DEF IInv, SourceOK
<1>2. DOMAIN history = 1 .. Len(history) /\ Len(history) \in Nat /\ Stored(history[source.at])
  BY <1>1 DEF IInv, HistoryOK
<1> QED
  BY <1>1, <1>2 DEF Stored

\* Close preserves the inductive invariant
LEMMA CloseOK == ASSUME IInv, Close PROVE IInv'
<1> DEFINE pending == [source EXCEPT !.closed = TRUE, !.closePending = TRUE]
           cleared == clearLocked([source EXCEPT !.closed = TRUE])
<1>1. /\ UNCHANGED <<history, reader, builder, file, faults>>
      /\ source # NoSource /\ ~source.closed
      /\ source' = IF source.active > 0 THEN pending ELSE cleared
  BY DEF Close, Valid
<1>2. source \in SourceType /\ source.at \in DOMAIN history /\ source.at # 0
  BY <1>1, SourceAt
<1>3. /\ pending \in SourceType /\ pending.at = source.at /\ pending.contents = source.contents
      /\ pending.blobs = source.blobs /\ pending.closed = TRUE /\ pending.closePending = TRUE
      /\ pending.active = source.active
  BY <1>2 DEF SourceType
<1>4. /\ cleared \in SourceType /\ cleared.at = source.at /\ cleared.closed = TRUE
      /\ cleared.closePending = FALSE /\ cleared.active = source.active
  BY <1>2, IdleReader DEF SourceType, clearLocked
<1> HIDE DEF pending, cleared
<1>5. source'.at = source.at /\ source' \in SourceType /\ source'.closed /\ source'.active = source.active
  BY <1>1, <1>3, <1>4
<1>6. source' # NoSource
  BY <1>2, <1>5 DEF NoSource
<1>7. Visiting' = Visiting /\ IsFiniteSet(Visiting) /\ source.active = Cardinality(Visiting)
  BY <1>1 DEF IInv, SourceOK, Visiting
<1>8. Visiting # {} => source'.closePending
  <2>1. ASSUME Visiting # {} PROVE source.active > 0
    <3>1. Cardinality(Visiting) \in Nat /\ Cardinality(Visiting) # 0
      BY <1>7, <2>1, FS_CardinalityType, FS_EmptySet
    <3> QED
      BY <1>7, <3>1
  <2> QED
    BY <1>1, <1>3, <2>1
<1>9. SourceOK'
  <2>1. source'.closePending => source' = pending
    BY <1>1, <1>4
  <2>2. source'.closePending => Whole'
    BY <1>1, <1>3, <2>1 DEF IInv, SourceOK, Whole
  <2> QED
    BY <1>1, <1>5, <1>7, <2>2 DEF IInv, SourceOK
<1>10. BuilderOK'
  <2> SUFFICES ASSUME NEW b \in Builders
               PROVE  RebuildOK(b, builder[b], source', file, history[source.at])
    BY <1>1, <1>5 DEF BuilderOK
  <2>1. RebuildOK(b, builder[b], source, file, history[source.at])
    BY DEF IInv, BuilderOK
  <2>2. builder[b].pc = "visit" => source'.closePending
    BY <1>8 DEF Visiting
  <2> QED
    BY <1>5, <1>6, <2>1, <2>2, SourceMoves
<1>11. HistoryOK' /\ FileOK'
  BY <1>1 DEF IInv, HistoryOK, FileOK
<1>12. ReaderOK'
  BY <1>1 DEF IInv, ReaderOK
<1> QED
  BY <1>1, <1>9, <1>10, <1>11, <1>12 DEF IInv

\* A crash preserves the inductive invariant
LEMMA CrashOK == ASSUME IInv, Crash PROVE IInv'
<1>1. /\ UNCHANGED <<history, file>> /\ reader' = Idle /\ source' = NoSource
      /\ faults < maxFaults /\ faults' = faults + 1
      /\ builder' = [b \in Builders |->
            IF builder[b].pc \in {"done", "failed"} THEN builder[b] ELSE NoBuild]
  BY DEF Crash
<1>2. faults' \in 0 .. maxFaults
  BY <1>1, RecoveryAssumption DEF IInv
<1>3. ReaderOK'
  BY <1>1, GiveUp
<1>4. SourceOK'
  <2>1. NoSource \in SourceType
    BY IdleReader DEF NoSource, SourceType
  <2> QED
    BY <1>1, <2>1 DEF SourceOK
<1>5. BuilderOK'
  <2> SUFFICES ASSUME NEW b \in Builders
               PROVE  RebuildOK(b, builder'[b], NoSource, file, history[NoSource.at])
    BY <1>1 DEF BuilderOK
  <2>1. CASE builder[b].pc \in {"done", "failed"}
    <3>1. builder'[b] = builder[b] /\ builder[b].pc \notin Running
      BY <1>1, <2>1 DEF Running
    <3>2. RebuildOK(b, builder[b], source, file, history[source.at])
      BY DEF IInv, BuilderOK
    <3> QED
      BY <3>1, <3>2, QuietRebuild
  <2>2. CASE builder[b].pc \notin {"done", "failed"}
    <3> DEFINE new == NoBuild
    <3>1. builder'[b] = new
      BY <1>1, <2>2
    <3>2. new \in Rebuilds(new.count, new.rows) /\ new.pc = "idle" /\ new.seen = {} /\ new.rows = {}
      BY DEF NoBuild, Rebuilds
    <3> HIDE DEF new
    <3> QED
      BY <3>1, <3>2 DEF RebuildOK, Running, Owning
  <2> QED
    BY <2>1, <2>2
<1>6. HistoryOK' /\ FileOK'
  BY <1>1 DEF IInv, HistoryOK, FileOK
<1>7. builder' = [b \in Builders |-> builder'[b]]
  BY <1>1
<1> QED
  BY <1>2, <1>3, <1>4, <1>5, <1>6, <1>7 DEF IInv

-----------------------------------------------------------------------------
(* The rebuilds.                                                            *)

Pcs == {"idle", "done", "failed"} \cup Running

\* A step of rebuild b that keeps the position of the source
LEMMA BuildStep ==
    ASSUME IInv, NEW b \in Builders, NEW new, builder' = [builder EXCEPT ![b] = new],
           UNCHANGED <<history, reader>>,
           source'.at = source.at, source # NoSource <=> source' # NoSource,
           source'.closed <=> source.closed,
           \A c \in Builders \ {b} :
                builder[c].pc = "visit" /\ source.closed => source'.closePending,
           \A c \in Builders \ {b} : builder[c].pc \in Owning => file' = file,
           RebuildOK(b, new, source', file', history[source.at]),
           SourceOK', FileOK', faults' \in 0 .. maxFaults
    PROVE  IInv'
<1>1. builder = [c \in Builders |-> builder[c]]
  BY DEF IInv
<1>2. /\ builder' = [c \in Builders |-> builder'[c]] /\ builder'[b] = new
      /\ \A c \in Builders \ {b} : builder'[c] = builder[c]
  BY <1>1
<1>3. ASSUME NEW c \in Builders \ {b}
      PROVE  RebuildOK(c, builder[c], source', file', history[source.at])
  <2>1. RebuildOK(c, builder[c], source, file, history[source.at])
    BY DEF IInv, BuilderOK
  <2>2. RebuildOK(c, builder[c], source', file, history[source.at])
    BY <2>1, SourceMoves
  <2>3. CASE builder[c].pc \in Owning
    BY <2>2, <2>3
  <2>4. CASE builder[c].pc \notin Owning
    BY <2>2, <2>4 DEF RebuildOK, Owning
  <2> QED
    BY <2>3, <2>4
<1>4. BuilderOK'
  BY <1>2, <1>3 DEF BuilderOK
<1>5. HistoryOK'
  BY DEF IInv, HistoryOK
<1>6. ReaderOK'
  BY DEF IInv, ReaderOK
<1> QED
  BY <1>2, <1>4, <1>5, <1>6 DEF IInv

\* A step of a rebuild that neither begins nor ends a visit
LEMMA SameVisits ==
    ASSUME IInv, NEW b \in Builders, NEW new, builder' = [builder EXCEPT ![b] = new],
           UNCHANGED <<history, source>>, builder[b].pc # "visit", new.pc # "visit"
    PROVE  SourceOK'
<1>1. builder = [c \in Builders |-> builder[c]]
  BY DEF IInv
<1>2. Visiting' = Visiting
  BY <1>1 DEF Visiting
<1> QED
  BY <1>2 DEF IInv, SourceOK, Whole

\* Goto as an update of one rebuild
LEMMA Moves ==
    ASSUME IInv, NEW b \in Builders, NEW label \in Pcs, Goto(b, label)
    PROVE  \E new :
            /\ builder' = [builder EXCEPT ![b] = new]
            /\ new \in Rebuilds(new.count, new.rows) /\ new.pc = label
            /\ new.folders = builder[b].folders /\ new.revisions = builder[b].revisions
            /\ new.seen = builder[b].seen /\ new.rows = builder[b].rows
<1> DEFINE j == builder[b]
           new == [j EXCEPT !.pc = label]
<1>1. j \in Rebuilds(j.count, j.rows)
  BY DEF IInv, BuilderOK, RebuildOK
<1>2. builder' = [builder EXCEPT ![b] = new]
  BY DEF Goto
<1>3. /\ new \in Rebuilds(new.count, new.rows) /\ new.pc = label
      /\ new.folders = j.folders /\ new.revisions = j.revisions
      /\ new.seen = j.seen /\ new.rows = j.rows
  <2> HIDE DEF j
  <2> QED
    BY <1>1 DEF Rebuilds, Pcs
<1> QED
  BY <1>2, <1>3

\* A step of rebuild b that leaves the source and the file
LEMMA PlainStep ==
    ASSUME IInv, NEW b \in Builders, NEW new, builder' = [builder EXCEPT ![b] = new],
           UNCHANGED <<history, reader, source, file, faults>>,
           builder[b].pc # "visit", new.pc # "visit",
           RebuildOK(b, new, source, file, history[source.at])
    PROVE  IInv'
<1>1. SourceOK'
  BY SameVisits
<1>2. FileOK' /\ faults' \in 0 .. maxFaults
  BY DEF IInv, FileOK
<1>3. ASSUME NEW c \in Builders \ {b}, builder[c].pc = "visit", source.closed
      PROVE  source.closePending
  BY <1>3 DEF IInv, BuilderOK, RebuildOK
<1> QED
  BY <1>1, <1>2, <1>3, BuildStep

\* A step of rebuild b that is a Goto and leaves the source and the file
LEMMA PlainGoto ==
    ASSUME IInv, NEW b \in Builders, NEW label \in Pcs, Goto(b, label),
           UNCHANGED <<history, reader, source, file, faults>>,
           builder[b].pc # "visit", label # "visit",
           \A new : (/\ new \in Rebuilds(new.count, new.rows) /\ new.pc = label
                     /\ new.folders = builder[b].folders /\ new.revisions = builder[b].revisions
                     /\ new.seen = builder[b].seen /\ new.rows = builder[b].rows)
                    => RebuildOK(b, new, source, file, history[source.at])
    PROVE  IInv'
<1>1. PICK new :
            /\ builder' = [builder EXCEPT ![b] = new]
            /\ new \in Rebuilds(new.count, new.rows) /\ new.pc = label
            /\ new.folders = builder[b].folders /\ new.revisions = builder[b].revisions
            /\ new.seen = builder[b].seen /\ new.rows = builder[b].rows
  BY Moves
<1>2. RebuildOK(b, new, source, file, history[source.at])
  BY <1>1
<1> QED
  BY <1>1, <1>2, PlainStep

\* StartBuild preserves the inductive invariant
LEMMA StartBuildOK == ASSUME IInv, NEW b \in Builders, StartBuild(b) PROVE IInv'
<1>1. PICK label \in {"open", "failed"} : Goto(b, label)
  BY DEF StartBuild
<1>2. /\ UNCHANGED <<history, reader, source, file, faults>> /\ builder[b].pc = "idle" /\ source # NoSource
  BY DEF StartBuild, Step
<1>3. RebuildOK(b, builder[b], source, file, history[source.at])
  BY DEF IInv, BuilderOK
<1>4. label \in Pcs /\ label # "visit"
  BY <1>1 DEF Pcs, Running
<1>5. ASSUME NEW new, new \in Rebuilds(new.count, new.rows), new.pc = label,
             new.seen = builder[b].seen, new.rows = builder[b].rows
      PROVE  RebuildOK(b, new, source, file, history[source.at])
  BY <1>1, <1>2, <1>3, <1>5 DEF RebuildOK, Owning, Running
<1> QED
  BY <1>1, <1>2, <1>4, <1>5, PlainGoto

\* A rebuild that ends without a file of its own
LEMMA GotoFailed ==
    ASSUME IInv, NEW b \in Builders, Goto(b, "failed"),
           UNCHANGED <<history, reader, source, file, faults>>, builder[b].pc # "visit"
    PROVE  IInv'
<1>1. "failed" \in Pcs
  BY DEF Pcs
<1>2. ASSUME NEW new, new \in Rebuilds(new.count, new.rows), new.pc = "failed"
      PROVE  RebuildOK(b, new, source, file, history[source.at])
  BY <1>2 DEF RebuildOK, Owning, Running
<1> QED
  BY <1>1, <1>2, PlainGoto

\* While a source is not closed it holds the records of its position
LEMMA OpenSource ==
    ASSUME IInv, source # NoSource, ~source.closed
    PROVE  /\ source.contents = history[source.at] /\ source.contents \in Contents
           /\ source.blobs = RawBlobs(history[source.at])
  BY SourceAt DEF IInv, SourceOK, Whole

\* Open preserves the inductive invariant
LEMMA OpenOK == ASSUME IInv, NEW b \in Builders, Open(b) PROVE IInv'
<1> DEFINE j == builder[b]
           count == Cardinality(source.contents.versions)
           new == [j EXCEPT !.pc = "folders", !.count = count]
<1>1. /\ UNCHANGED <<history, reader, source, file, faults>> /\ j.pc = "open"
      /\ \/ builder' = [builder EXCEPT ![b] = new]
         \/ Goto(b, "failed")
  BY DEF Open, Step
<1>2. CASE Goto(b, "failed")
  BY <1>1, <1>2, GotoFailed
<1>3. CASE builder' = [builder EXCEPT ![b] = new]
  <2>1. RebuildOK(b, j, source, file, history[source.at])
    BY DEF IInv, BuilderOK
  <2> HIDE DEF j, count
  <2>2. /\ new \in Rebuilds(new.count, new.rows) /\ new.pc = "folders"
        /\ new.seen = j.seen /\ new.rows = j.rows
    BY <2>1 DEF RebuildOK, Rebuilds, Running
  <2> HIDE DEF new
  <2>3. RebuildOK(b, new, source, file, history[source.at])
    BY <1>1, <2>1, <2>2 DEF RebuildOK, Running, Owning
  <2> QED
    BY <1>1, <1>3, <2>2, <2>3, PlainStep DEF j
<1> QED
  BY <1>1, <1>2, <1>3

\* ReadFolders preserves the inductive invariant
LEMMA ReadFoldersOK == ASSUME IInv, NEW b \in Builders, ReadFolders(b) PROVE IInv'
<1> DEFINE j == builder[b]
           folders == IF Valid THEN source.contents.folders ELSE {}
           new == [j EXCEPT !.pc = "states", !.folders = folders]
<1>1. /\ UNCHANGED <<history, reader, source, file, faults>> /\ j.pc = "folders"
      /\ builder' = [builder EXCEPT ![b] = new]
  BY DEF ReadFolders, Step
<1>2. RebuildOK(b, j, source, file, history[source.at])
  BY DEF IInv, BuilderOK
<1>3. source # NoSource
  BY <1>1, <1>2 DEF RebuildOK, Running
<1>4. folders \subseteq FolderRevision /\ (~source.closed => folders = history[source.at].folders)
  BY <1>3, OpenSource DEF Valid, Contents
<1> HIDE DEF j, folders
<1>5. /\ new \in Rebuilds(new.count, new.rows) /\ new.pc = "states" /\ new.folders = folders
      /\ new.seen = j.seen /\ new.rows = j.rows
  BY <1>2, <1>4 DEF RebuildOK, Rebuilds, Running
<1> HIDE DEF new
<1>6. RebuildOK(b, new, source, file, history[source.at])
  BY <1>1, <1>2, <1>4, <1>5 DEF RebuildOK, Running, Owning
<1> QED
  BY <1>1, <1>5, <1>6, PlainStep DEF j

\* ReadStates preserves the inductive invariant
LEMMA ReadStatesOK == ASSUME IInv, NEW b \in Builders, ReadStates(b) PROVE IInv'
<1> DEFINE j == builder[b]
           revisions == IF Valid THEN source.contents.revisions ELSE {}
           new == [j EXCEPT !.pc = "create", !.revisions = revisions]
<1>1. /\ UNCHANGED <<history, reader, source, file, faults>> /\ j.pc = "states"
      /\ builder' = [builder EXCEPT ![b] = new]
  BY DEF ReadStates, Step
<1>2. RebuildOK(b, j, source, file, history[source.at])
  BY DEF IInv, BuilderOK
<1>3. source # NoSource
  BY <1>1, <1>2 DEF RebuildOK, Running
<1>4. revisions \subseteq Revision /\ (~source.closed => revisions = history[source.at].revisions)
  BY <1>3, OpenSource DEF Valid, Contents
<1> HIDE DEF j, revisions
<1>5. /\ new \in Rebuilds(new.count, new.rows) /\ new.pc = "create" /\ new.revisions = revisions
      /\ new.folders = j.folders /\ new.seen = j.seen /\ new.rows = j.rows
  BY <1>2, <1>4 DEF RebuildOK, Rebuilds, Running
<1> HIDE DEF new
<1>6. RebuildOK(b, new, source, file, history[source.at])
  BY <1>1, <1>2, <1>4, <1>5 DEF RebuildOK, Running, Owning
<1> QED
  BY <1>1, <1>5, <1>6, PlainStep DEF j

\* The file belongs to one rebuild
LEMMA OneOwner ==
    ASSUME IInv, NEW c \in Builders, builder[c].pc \in Owning
    PROVE  file.by = c /\ file # NoFile
<1>1. file.by = c
  BY DEF IInv, BuilderOK, RebuildOK
<1> QED
  BY <1>1, RecoveryAssumption DEF NoFile

\* A step of rebuild b that leaves the source and changes the file
LEMMA FileStep ==
    ASSUME IInv, NEW b \in Builders, NEW label \in Pcs, Goto(b, label),
           UNCHANGED <<history, reader, source, faults>>,
           builder[b].pc # "visit", label # "visit",
           file = NoFile \/ file.by = b, FileOK',
           \A new : (/\ new \in Rebuilds(new.count, new.rows) /\ new.pc = label
                     /\ new.folders = builder[b].folders /\ new.revisions = builder[b].revisions
                     /\ new.seen = builder[b].seen /\ new.rows = builder[b].rows)
                    => RebuildOK(b, new, source, file', history[source.at])
    PROVE  IInv'
<1>1. PICK new :
            /\ builder' = [builder EXCEPT ![b] = new]
            /\ new \in Rebuilds(new.count, new.rows) /\ new.pc = label
            /\ new.folders = builder[b].folders /\ new.revisions = builder[b].revisions
            /\ new.seen = builder[b].seen /\ new.rows = builder[b].rows
  BY Moves
<1>2. RebuildOK(b, new, source, file', history[source.at])
  BY <1>1
<1>3. SourceOK'
  BY <1>1, SameVisits
<1>4. \A c \in Builders \ {b} : builder[c].pc \notin Owning
  BY OneOwner
<1>5. ASSUME NEW c \in Builders \ {b}, builder[c].pc = "visit", source.closed
      PROVE  source.closePending
  BY <1>5 DEF IInv, BuilderOK, RebuildOK
<1>6. faults' \in 0 .. maxFaults
  BY DEF IInv
<1> QED
  BY <1>1, <1>2, <1>3, <1>4, <1>5, <1>6, BuildStep

\* Create preserves the inductive invariant
LEMMA CreateOK == ASSUME IInv, NEW b \in Builders, Create(b) PROVE IInv'
<1>1. /\ UNCHANGED <<history, reader, source, faults>> /\ builder[b].pc = "create"
      /\ \/ /\ file = NoFile /\ file' = [NoFile EXCEPT !.by = b, !.at = source.at]
            /\ Goto(b, "opened")
         \/ Goto(b, "failed") /\ UNCHANGED file
  BY DEF Create, Step
<1>2. CASE Goto(b, "failed") /\ UNCHANGED file
  BY <1>1, <1>2, GotoFailed
<1>3. CASE /\ file = NoFile /\ file' = [NoFile EXCEPT !.by = b, !.at = source.at]
           /\ Goto(b, "opened")
  <2>1. RebuildOK(b, builder[b], source, file, history[source.at])
    BY DEF IInv, BuilderOK
  <2>2. source # NoSource
    BY <1>1, <2>1 DEF RebuildOK, Running
  <2>3. source.at \in Nat
    BY <2>2, SourceAt DEF SourceType
  <2>4. /\ file'.by = b /\ file'.at = source.at /\ file'.committed = FALSE
        /\ file' \in Files(file'.folders, file'.rows)
    BY <1>3, <2>3 DEF NoFile, Files
  <2>5. FileOK'
    BY <2>4, RecoveryAssumption DEF FileOK
  <2>6. ASSUME NEW new, new \in Rebuilds(new.count, new.rows), new.pc = "opened",
               new.folders = builder[b].folders, new.revisions = builder[b].revisions,
               new.seen = builder[b].seen, new.rows = builder[b].rows
        PROVE  RebuildOK(b, new, source, file', history[source.at])
    BY <1>1, <2>1, <2>4, <2>6 DEF RebuildOK, Owning, Running
  <2>7. "opened" \in Pcs
    BY DEF Pcs, Running
  <2> QED
    BY <1>1, <1>3, <2>5, <2>6, <2>7, FileStep
<1> QED
  BY <1>1, <1>2, <1>3

\* Remove preserves the inductive invariant
LEMMA RemoveOK == ASSUME IInv, NEW b \in Builders, Remove(b) PROVE IInv'
<1>1. /\ UNCHANGED <<history, reader, source, faults>> /\ builder[b].pc = "remove"
      /\ file' = NoFile /\ Goto(b, "failed")
  BY DEF Remove, Step
<1>2. file.by = b
  BY <1>1, OneOwner DEF Owning
<1>3. FileOK'
  BY <1>1 DEF FileOK, NoFile, Files
<1>4. ASSUME NEW new, new \in Rebuilds(new.count, new.rows), new.pc = "failed"
      PROVE  RebuildOK(b, new, source, file', history[source.at])
  BY <1>4 DEF RebuildOK, Owning, Running
<1>5. "failed" \in Pcs
  BY DEF Pcs
<1> QED
  BY <1>1, <1>2, <1>3, <1>4, <1>5, FileStep

\* Report preserves the inductive invariant
LEMMA ReportOK == ASSUME IInv, NEW b \in Builders, Report(b) PROVE IInv'
<1>1. /\ UNCHANGED <<history, reader, source, file, faults>> /\ builder[b].pc = "committed"
      /\ Goto(b, "done")
  BY DEF Report, Step
<1>2. RebuildOK(b, builder[b], source, file, history[source.at])
  BY DEF IInv, BuilderOK
<1>3. ASSUME NEW new, new \in Rebuilds(new.count, new.rows), new.pc = "done"
      PROVE  RebuildOK(b, new, source, file, history[source.at])
  BY <1>1, <1>2, <1>3 DEF RebuildOK, Owning, Running
<1>4. "done" \in Pcs
  BY DEF Pcs
<1> QED
  BY <1>1, <1>3, <1>4, PlainGoto

\* The projection depends on the revisions of a state only
LEMMA SameRows ==
    ASSUME NEW s, NEW t, s.folders = t.folders, s.revisions = t.revisions
    PROVE  FolderTable(s) = FolderTable(t) /\ \A v : RowsOf(s, v) = RowsOf(t, v)
<1>1. FoldersIn(s) = FoldersIn(t) /\ MessagesIn(s) = MessagesIn(t)
  BY DEF FoldersIn, MessagesIn
<1>2. FolderStates(s) = FolderStates(t) /\ MessageStates(s) = MessageStates(t)
  BY <1>1 DEF FolderStates, MessageStates
<1>3. LiveFolders(s) = LiveFolders(t) /\ LiveMessages(s) = LiveMessages(t)
  BY <1>1, <1>2 DEF LiveFolders, LiveMessages
<1>4. FolderTable(s) = FolderTable(t)
  BY <1>2, <1>3 DEF FolderTable
<1>5. Selected(s) = Selected(t) /\ \A f : Within(s, f) = Within(t, f)
  BY <1>2, <1>3 DEF Selected, Within
<1>6. \A m, f : UID(s, m, f) = UID(t, m, f)
  BY <1>5 DEF UID
<1>7. \A v : RowsOf(s, v) = RowsOf(t, v)
  BY <1>3, <1>5, <1>6 DEF RowsOf
<1> QED
  BY <1>4, <1>7

\* What rebuild b computes while it visits is the projection of the source
LEMMA SeenRows ==
    ASSUME IInv, NEW b \in Builders, builder[b].pc \in {"visit", "complete"}
    PROVE  /\ FolderTable(Seen(b)) = FolderTable(history[source.at])
           /\ \A v : RowsOf(Seen(b), v) = RowsOf(history[source.at], v)
<1>1. /\ builder[b].folders = history[source.at].folders
      /\ builder[b].revisions = history[source.at].revisions
  BY DEF IInv, BuilderOK, RebuildOK
<1>2. Seen(b).folders = builder[b].folders /\ Seen(b).revisions = builder[b].revisions
  BY DEF Seen, Empty
<1> QED
  BY <1>1, <1>2, SameRows

\* A visit has the whole content, closed or not
LEMMA VisitWhole ==
    ASSUME IInv, NEW b \in Builders, builder[b].pc = "visit"
    PROVE  source # NoSource /\ Whole
<1>1. RebuildOK(b, builder[b], source, file, history[source.at])
  BY DEF IInv, BuilderOK
<1>2. source # NoSource /\ (source.closed => source.closePending)
  BY <1>1 DEF RebuildOK, Running
<1> QED
  BY <1>2 DEF IInv, SourceOK

\* BeginVisit preserves the inductive invariant
LEMMA BeginVisitOK == ASSUME IInv, NEW b \in Builders, BeginVisit(b) PROVE IInv'
<1>1. /\ UNCHANGED <<history, reader, file, faults>> /\ builder[b].pc = "opened"
      /\ \/ Valid /\ source' = [source EXCEPT !.active = @ + 1] /\ Goto(b, "visit")
         \/ ~Valid /\ UNCHANGED source /\ Goto(b, "remove")
  BY DEF BeginVisit, Step
<1>2. RebuildOK(b, builder[b], source, file, history[source.at])
  BY DEF IInv, BuilderOK
<1>3. source # NoSource
  BY <1>1, <1>2 DEF RebuildOK, Running
<1>4. CASE ~Valid /\ UNCHANGED source /\ Goto(b, "remove")
  <2>1. ASSUME NEW new, new \in Rebuilds(new.count, new.rows), new.pc = "remove"
        PROVE  RebuildOK(b, new, source, file, history[source.at])
    BY <1>1, <1>2, <1>3, <2>1 DEF RebuildOK, Owning, Running
  <2>2. "remove" \in Pcs
    BY DEF Pcs, Running
  <2> QED
    BY <1>1, <1>4, <2>1, <2>2, PlainGoto
<1>5. CASE Valid /\ source' = [source EXCEPT !.active = @ + 1] /\ Goto(b, "visit")
  <2>1. "visit" \in Pcs
    BY DEF Pcs, Running
  <2>2. PICK new :
            /\ builder' = [builder EXCEPT ![b] = new]
            /\ new \in Rebuilds(new.count, new.rows) /\ new.pc = "visit"
            /\ new.folders = builder[b].folders /\ new.revisions = builder[b].revisions
            /\ new.seen = builder[b].seen /\ new.rows = builder[b].rows
    BY <1>5, <2>1, Moves
  <2>3. ~source.closed /\ source \in SourceType /\ source.active \in Nat
    BY <1>3, <1>5, SourceAt DEF Valid, SourceType
  <2>4. /\ source' \in SourceType /\ source'.at = source.at /\ source'.closed = source.closed
        /\ source'.contents = source.contents /\ source'.blobs = source.blobs
        /\ source'.closePending = source.closePending /\ source'.active = source.active + 1
    BY <1>5, <2>3 DEF SourceType
  <2>5. source' # NoSource
    <3>1. source.at # 0
      BY <1>3, SourceAt
    <3> QED
      BY <2>4, <3>1 DEF NoSource
  <2>6. Visiting' = Visiting \cup {b} /\ b \notin Visiting
    <3>1. builder = [c \in Builders |-> builder[c]]
      BY DEF IInv
    <3> QED
      BY <1>1, <2>2, <3>1 DEF Visiting
  <2>7. IsFiniteSet(Visiting') /\ source'.active = Cardinality(Visiting')
    BY <1>3, <2>4, <2>6, FS_AddElement DEF IInv, SourceOK
  <2>8. SourceOK'
    BY <1>1, <1>3, <2>3, <2>4, <2>7 DEF IInv, SourceOK, Whole
  <2>9. RebuildOK(b, new, source', file, history[source.at])
    <3>1. /\ new.seen = {} /\ new.rows = {}
          /\ new.folders = history[source.at].folders /\ new.revisions = history[source.at].revisions
          /\ file.by = b /\ file.at = source.at
      BY <1>1, <1>2, <2>2, <2>3 DEF RebuildOK, Owning
    <3>2. new.rows = UNION {RowsOf(history[source.at], v) : v \in new.seen}
      BY <3>1
    <3> QED
      BY <2>2, <2>3, <2>4, <2>5, <3>1, <3>2 DEF RebuildOK, Owning, Running
  <2>10. FileOK' /\ faults' \in 0 .. maxFaults
    BY <1>1 DEF IInv, FileOK
  <2> QED
    BY <1>1, <1>3, <2>2, <2>3, <2>4, <2>5, <2>8, <2>9, <2>10, BuildStep
<1> QED
  BY <1>1, <1>4, <1>5

\* The end of a visit: the last one clears a closed source
LEMMA VisitEnds ==
    ASSUME IInv, NEW b \in Builders, builder[b].pc = "visit",
           NEW new, new.pc # "visit", builder' = [builder EXCEPT ![b] = new],
           source' = finishVisit(source), UNCHANGED history
    PROVE  /\ SourceOK' /\ source'.at = source.at /\ source # NoSource /\ source' # NoSource
           /\ source'.closed = source.closed
           /\ \A c \in Builders \ {b} :
                builder[c].pc = "visit" /\ source.closed => source'.closePending
<1> DEFINE left == [source EXCEPT !.active = @ - 1]
           cleared == clearLocked(left)
<1>1. source # NoSource /\ Whole
  BY VisitWhole
<1>2. source \in SourceType /\ source.at # 0
  BY <1>1, SourceAt
<1>3. /\ b \in Visiting /\ IsFiniteSet(Visiting) /\ source.active = Cardinality(Visiting)
      /\ source.at \in DOMAIN history /\ Reducible(history[source.at])
      /\ (source.closePending => source.closed)
      /\ (~source.closed \/ source.closePending => Whole)
  BY <1>1 DEF IInv, SourceOK, Visiting
<1>4. Visiting' = Visiting \ {b}
  <2>1. builder = [c \in Builders |-> builder[c]]
    BY DEF IInv
  <2> QED
    BY <2>1 DEF Visiting
<1>5. /\ IsFiniteSet(Visiting') /\ Cardinality(Visiting') = source.active - 1
      /\ Cardinality(Visiting') \in Nat
  BY <1>3, <1>4, FS_RemoveElement, FS_CardinalityType
<1>6. /\ left \in SourceType /\ left.at = source.at /\ left.contents = source.contents
      /\ left.blobs = source.blobs /\ left.closed = source.closed
      /\ left.closePending = source.closePending /\ left.active = source.active - 1
  <2> DEFINE n == source.active - 1
  <2>1. n \in Nat
    BY <1>5
  <2> HIDE DEF n
  <2>2. left = [source EXCEPT !.active = n]
    BY DEF n
  <2>3. n = source.active - 1
    BY DEF n
  <2> QED
    BY <1>2, <2>1, <2>2, <2>3 DEF SourceType
<1>7. source' = IF left.active = 0 /\ left.closePending THEN cleared ELSE left
  BY DEF finishVisit
<1> HIDE DEF left
<1>8. /\ cleared \in SourceType /\ cleared.at = source.at /\ cleared.closed = source.closed
      /\ cleared.closePending = FALSE /\ cleared.active = source.active - 1
  BY <1>6, IdleReader DEF SourceType, clearLocked
<1> HIDE DEF cleared
<1>9. source'.at = source.at /\ source'.closed = source.closed /\ source' \in SourceType
      /\ source'.active = source.active - 1
  BY <1>6, <1>7, <1>8
<1>10. source' # NoSource
  BY <1>2, <1>9 DEF NoSource
<1>11. SourceOK'
  <2>1. CASE source' = left
    <3>1. Whole'
      BY <1>1, <1>6, <2>1 DEF Whole
    <3> QED
      BY <1>3, <1>5, <1>6, <1>9, <2>1, <3>1 DEF SourceOK
  <2>2. CASE source' = cleared /\ left.closePending
    BY <1>3, <1>5, <1>6, <1>8, <1>9, <2>2 DEF SourceOK
  <2> QED
    BY <1>7, <2>1, <2>2
<1>12. ASSUME NEW c \in Builders \ {b}, builder[c].pc = "visit", source.closed
       PROVE  source'.closePending
  <2>1. c \in Visiting'
    BY <1>4, <1>12 DEF Visiting
  <2>2. Cardinality(Visiting') # 0
    BY <1>5, <2>1, FS_EmptySet
  <2>3. source' = left
    BY <1>5, <1>6, <1>7, <2>2
  <2>4. source.closePending
    BY <1>12 DEF IInv, BuilderOK, RebuildOK
  <2> QED
    BY <1>6, <2>3, <2>4
<1> QED
  BY <1>1, <1>9, <1>10, <1>11, <1>12

\* A rebuild that ends its visit and leaves the file
LEMMA LeaveVisit ==
    ASSUME IInv, NEW b \in Builders, builder[b].pc = "visit",
           NEW label \in Pcs \ {"visit"}, Goto(b, label), source' = finishVisit(source),
           UNCHANGED <<history, reader, file>>, faults' \in 0 .. maxFaults,
           \A new, src : (/\ new \in Rebuilds(new.count, new.rows) /\ new.pc = label
                          /\ new.folders = builder[b].folders /\ new.revisions = builder[b].revisions
                          /\ new.seen = builder[b].seen /\ new.rows = builder[b].rows
                          /\ src # NoSource /\ src.at = source.at)
                         => RebuildOK(b, new, src, file, history[source.at])
    PROVE  IInv'
<1>1. PICK new :
            /\ builder' = [builder EXCEPT ![b] = new]
            /\ new \in Rebuilds(new.count, new.rows) /\ new.pc = label
            /\ new.folders = builder[b].folders /\ new.revisions = builder[b].revisions
            /\ new.seen = builder[b].seen /\ new.rows = builder[b].rows
  BY Moves
<1>2. /\ SourceOK' /\ source'.at = source.at /\ source # NoSource /\ source' # NoSource
      /\ source'.closed = source.closed
      /\ \A c \in Builders \ {b} :
           builder[c].pc = "visit" /\ source.closed => source'.closePending
  BY <1>1, VisitEnds
<1>3. RebuildOK(b, new, source', file, history[source.at])
  BY <1>1, <1>2
<1>4. FileOK'
  BY DEF IInv, FileOK
<1> QED
  BY <1>1, <1>2, <1>3, <1>4, BuildStep

\* EndVisit preserves the inductive invariant
LEMMA EndVisitOK == ASSUME IInv, NEW b \in Builders, EndVisit(b) PROVE IInv'
<1>1. /\ UNCHANGED <<history, reader, file, faults>> /\ builder[b].pc = "visit"
      /\ source.contents.versions \subseteq builder[b].seen
      /\ source' = finishVisit(source) /\ Goto(b, "complete")
  BY DEF EndVisit, Step
<1>2. RebuildOK(b, builder[b], source, file, history[source.at])
  BY DEF IInv, BuilderOK
<1>3. Whole
  BY <1>1, VisitWhole
<1>4. builder[b].seen = history[source.at].versions
  BY <1>1, <1>2, <1>3 DEF RebuildOK, Whole
<1>5. ASSUME NEW new, NEW src, new \in Rebuilds(new.count, new.rows), new.pc = "complete",
             new.folders = builder[b].folders, new.revisions = builder[b].revisions,
             new.seen = builder[b].seen, new.rows = builder[b].rows,
             src # NoSource, src.at = source.at
      PROVE  RebuildOK(b, new, src, file, history[source.at])
  BY <1>1, <1>2, <1>4, <1>5 DEF RebuildOK, Owning, Running
<1>6. "complete" \in Pcs \ {"visit"} /\ faults' \in 0 .. maxFaults
  BY <1>1 DEF Pcs, Running, IInv
<1> QED
  BY <1>1, <1>5, <1>6, LeaveVisit

\* A rebuild that fails during its visit removes the file
LEMMA VisitFails ==
    ASSUME IInv, NEW b \in Builders, builder[b].pc = "visit", Goto(b, "remove"),
           source' = finishVisit(source), UNCHANGED <<history, reader, file>>,
           faults' \in 0 .. maxFaults
    PROVE  IInv'
<1>1. RebuildOK(b, builder[b], source, file, history[source.at])
  BY DEF IInv, BuilderOK
<1>2. ASSUME NEW new, NEW src, new \in Rebuilds(new.count, new.rows), new.pc = "remove",
             src # NoSource
      PROVE  RebuildOK(b, new, src, file, history[source.at])
  BY <1>1, <1>2 DEF RebuildOK, Owning, Running
<1>3. "remove" \in Pcs \ {"visit"}
  BY DEF Pcs, Running
<1> QED
  BY <1>2, <1>3, LeaveVisit

\* VisitMessage preserves the inductive invariant
LEMMA VisitMessageOK == ASSUME IInv, NEW b \in Builders, VisitMessage(b) PROVE IInv'
<1> DEFINE j == builder[b]
           s == history[source.at]
<1>1. UNCHANGED <<history, reader, file, faults>> /\ j.pc = "visit"
  BY DEF VisitMessage, Step
<1>2. PICK v \in source.contents.versions \ j.seen :
        \/ /\ builder' = [builder EXCEPT ![b].seen = @ \cup {v}, ![b].rows = @ \cup RowsOf(Seen(b), v)]
           /\ UNCHANGED source
        \/ source' = finishVisit(source) /\ Goto(b, "remove")
  BY DEF VisitMessage
<1>3. faults' \in 0 .. maxFaults
  BY <1>1 DEF IInv
<1>4. CASE source' = finishVisit(source) /\ Goto(b, "remove")
  BY <1>1, <1>3, <1>4, VisitFails
<1>5. CASE /\ builder' = [builder EXCEPT ![b].seen = @ \cup {v}, ![b].rows = @ \cup RowsOf(Seen(b), v)]
           /\ UNCHANGED source
  <2>1. RebuildOK(b, j, source, file, s)
    BY DEF IInv, BuilderOK
  <2>2. source # NoSource /\ Whole
    BY <1>1, VisitWhole
  <2>3. v \in s.versions /\ v \in Versions
    BY <1>2, <2>2, SourceAt DEF Whole, Contents
  <2>4. RowsOf(Seen(b), v) = RowsOf(s, v)
    BY <1>1, SeenRows
  <2> DEFINE seen == j.seen \cup {v}
             rows == j.rows \cup RowsOf(s, v)
             new == [j EXCEPT !.seen = seen, !.rows = rows]
  <2>5. builder' = [builder EXCEPT ![b] = new]
    BY <1>5, <2>4
  <2>6. seen \subseteq s.versions /\ seen \subseteq Versions
    BY <1>1, <2>1, <2>3 DEF RebuildOK, Rebuilds
  <2>7. rows = UNION {RowsOf(s, w) : w \in seen}
    <3>1. j.rows = UNION {RowsOf(s, w) : w \in j.seen}
      BY <1>1, <2>1 DEF RebuildOK
    <3> HIDE DEF j, s
    <3> QED
      BY <3>1
  <2> HIDE DEF j, s, seen, rows
  <2>8. /\ new \in Rebuilds(new.count, new.rows) /\ new.pc = "visit" /\ new.seen = seen
        /\ new.rows = rows /\ new.folders = j.folders /\ new.revisions = j.revisions
    BY <1>1, <2>1, <2>6 DEF RebuildOK, Rebuilds
  <2> HIDE DEF new
  <2>9. RebuildOK(b, new, source, file, s)
    BY <1>1, <2>1, <2>6, <2>7, <2>8 DEF RebuildOK, Owning, Running
  <2>10. SourceOK'
    <3>1. builder = [c \in Builders |-> builder[c]]
      BY DEF IInv
    <3>2. Visiting' = Visiting
      BY <1>1, <2>5, <2>8, <3>1 DEF Visiting, j
    <3> QED
      BY <1>1, <1>5, <3>2 DEF IInv, SourceOK, Whole
  <2>11. FileOK'
    BY <1>1 DEF IInv, FileOK
  <2>12. ASSUME NEW c \in Builders \ {b}, builder[c].pc = "visit", source.closed
         PROVE  source.closePending
    BY <2>12 DEF IInv, BuilderOK, RebuildOK
  <2> QED
    BY <1>1, <1>3, <1>5, <2>5, <2>9, <2>10, <2>11, <2>12, BuildStep DEF s
<1> QED
  BY <1>2, <1>4, <1>5

\* A rebuild that does not visit gives its file up
LEMMA GotoRemove ==
    ASSUME IInv, NEW b \in Builders, builder[b].pc \in {"opened", "complete", "committed"},
           Goto(b, "remove"), UNCHANGED <<history, reader, source, file>>, faults' \in 0 .. maxFaults
    PROVE  IInv'
<1>1. RebuildOK(b, builder[b], source, file, history[source.at])
  BY DEF IInv, BuilderOK
<1>2. "remove" \in Pcs
  BY DEF Pcs, Running
<1>3. PICK new :
            /\ builder' = [builder EXCEPT ![b] = new]
            /\ new \in Rebuilds(new.count, new.rows) /\ new.pc = "remove"
  BY <1>2, Moves
<1>4. RebuildOK(b, new, source, file, history[source.at])
  BY <1>1, <1>3 DEF RebuildOK, Owning, Running
<1>5. SourceOK'
  BY <1>3, SameVisits
<1>6. FileOK'
  BY DEF IInv, FileOK
<1>7. ASSUME NEW c \in Builders \ {b}, builder[c].pc = "visit", source.closed
      PROVE  source.closePending
  BY <1>7 DEF IInv, BuilderOK, RebuildOK
<1> QED
  BY <1>3, <1>4, <1>5, <1>6, <1>7, BuildStep

\* Complete preserves the inductive invariant: what it commits is exact
LEMMA CompleteOK == ASSUME IInv, NEW b \in Builders, Complete(b) PROVE IInv'
<1> DEFINE s == history[source.at]
<1>1. /\ UNCHANGED <<history, reader, source, faults>> /\ builder[b].pc = "complete"
      /\ \/ /\ Goto(b, "committed")
            /\ file' = [file EXCEPT !.committed = TRUE, !.folders = FolderTable(Seen(b)),
                                    !.rows = builder[b].rows]
         \/ Goto(b, "remove") /\ UNCHANGED file
  BY DEF Complete, Step
<1>2. faults' \in 0 .. maxFaults
  BY <1>1 DEF IInv
<1>3. CASE Goto(b, "remove") /\ UNCHANGED file
  BY <1>1, <1>2, <1>3, GotoRemove
<1>4. CASE /\ Goto(b, "committed")
           /\ file' = [file EXCEPT !.committed = TRUE, !.folders = FolderTable(Seen(b)),
                                   !.rows = builder[b].rows]
  <2>1. RebuildOK(b, builder[b], source, file, s)
    BY DEF IInv, BuilderOK
  <2>2. /\ source # NoSource /\ file.by = b /\ file.at = source.at
        /\ builder[b].seen = s.versions
        /\ builder[b].rows = UNION {RowsOf(s, v) : v \in builder[b].seen}
    BY <1>1, <2>1 DEF RebuildOK, Running, Owning
  <2>3. builder[b].rows = Rows(s)
    BY <2>2 DEF Rows
  <2>4. FolderTable(Seen(b)) = FolderTable(s)
    BY <1>1, SeenRows
  <2> DEFINE folders == FolderTable(s)
             rows == Rows(s)
             new == [file EXCEPT !.committed = TRUE, !.folders = folders, !.rows = rows]
  <2>5. file' = new
    BY <1>4, <2>3, <2>4
  <2>6. file \in Files(file.folders, file.rows)
    BY DEF IInv, FileOK
  <2> HIDE DEF folders, rows
  <2>7. /\ new \in Files(new.folders, new.rows) /\ new.by = file.by /\ new.at = file.at
        /\ new.committed = TRUE /\ new.folders = folders /\ new.rows = rows
    BY <2>6 DEF Files
  <2> HIDE DEF new
  <2>8. source.at \in DOMAIN history /\ Reducible(s)
    BY <2>2 DEF IInv, SourceOK
  <2>9. FileOK'
    BY <1>1, <2>2, <2>5, <2>7, <2>8, RecoveryAssumption DEF FileOK, folders, rows
  <2>10. ASSUME NEW j, j \in Rebuilds(j.count, j.rows), j.pc = "committed"
         PROVE  RebuildOK(b, j, source, file', s)
    BY <2>2, <2>5, <2>7, <2>10 DEF RebuildOK, Owning, Running
  <2>11. "committed" \in Pcs
    BY DEF Pcs, Running
  <2> QED
    BY <1>1, <1>4, <2>2, <2>9, <2>10, <2>11, FileStep
<1> QED
  BY <1>1, <1>3, <1>4

\* BuildFails preserves the inductive invariant
LEMMA BuildFailsOK == ASSUME IInv, NEW b \in Builders, BuildFails(b) PROVE IInv'
<1>1. /\ UNCHANGED <<history, reader, file>> /\ Goto(b, "remove")
      /\ builder[b].pc \in {"opened", "visit", "complete", "committed"}
      /\ faults < maxFaults /\ faults' = faults + 1
      /\ source' = IF builder[b].pc = "visit" THEN finishVisit(source) ELSE source
  BY DEF BuildFails
<1>2. faults' \in 0 .. maxFaults
  BY <1>1, RecoveryAssumption DEF IInv
<1>3. CASE builder[b].pc = "visit"
  BY <1>1, <1>2, <1>3, VisitFails
<1>4. CASE builder[b].pc # "visit"
  BY <1>1, <1>2, <1>4, GotoRemove
<1> QED
  BY <1>3, <1>4

-----------------------------------------------------------------------------
(* The theorems.                                                            *)

\* The initial state satisfies the inductive invariant
LEMMA IInvInit == Init => IInv
<1> SUFFICES ASSUME Init PROVE IInv
  OBVIOUS
<1>1. HistoryOK
  <2>1. /\ history = Prior /\ Prior \in Seq(Contents) /\ Prior # <<>>
        /\ \A i \in DOMAIN Prior : IsFiniteSet(Prior[i].revisions) /\ IsFiniteSet(Prior[i].folders)
    BY RecoveryAssumption DEF Init
  <2>2. Len(Prior) > 0 /\ \A i \in DOMAIN Prior : Prior[i] \in Contents
    BY <2>1
  <2> QED
    BY <2>1, <2>2 DEF HistoryOK, Stored
<1>2. reader = Idle /\ source = NoSource /\ file = NoFile /\ faults = 0
      /\ builder = [b \in Builders |-> NoBuild]
  BY DEF Init
<1>3. ReaderOK
  BY <1>1, <1>2, IdleReader DEF ReaderOK, HistoryOK
<1>4. SourceOK
  <2>1. NoSource \in SourceType
    BY IdleReader DEF NoSource, SourceType
  <2> QED
    BY <1>2, <2>1 DEF SourceOK
<1>5. FileOK
  BY <1>2 DEF FileOK, NoFile, Files
<1>6. BuilderOK
  <2> DEFINE new == NoBuild
  <2>1. \A b \in Builders : builder[b] = new
    BY <1>2
  <2>2. new \in Rebuilds(new.count, new.rows) /\ new.pc = "idle" /\ new.seen = {} /\ new.rows = {}
    BY DEF NoBuild, Rebuilds
  <2> HIDE DEF new
  <2> QED
    BY <2>1, <2>2 DEF BuilderOK, RebuildOK, Running, Owning
<1>7. faults \in 0 .. maxFaults /\ builder = [b \in Builders |-> builder[b]]
  BY <1>2, RecoveryAssumption
<1> QED
  BY <1>1, <1>3, <1>4, <1>5, <1>6, <1>7 DEF IInv

\* Every step preserves the inductive invariant
LEMMA IInvStep == IInv /\ [Next]_vars => IInv'
<1> SUFFICES ASSUME IInv, [Next]_vars PROVE IInv'
  OBVIOUS
<1>1. CASE Commit \/ Close \/ Crash
  BY <1>1, CommitOK, CloseOK, CrashOK
<1>2. CASE Read \/ RequestFails
  BY <1>2, ReadOK, FinishOK DEF Read
<1>3. ASSUME NEW b \in Builders, Build(b) \/ BuildFails(b) PROVE IInv'
  BY <1>3, StartBuildOK, OpenOK, ReadFoldersOK, ReadStatesOK, CreateOK, BeginVisitOK, VisitMessageOK,
     EndVisitOK, CompleteOK, ReportOK, RemoveOK, BuildFailsOK DEF Build
<1>4. CASE UNCHANGED vars
  <2>1. UNCHANGED <<history, reader, source, builder, file, faults>>
    BY <1>4 DEF vars
  <2>2. ReaderOK' /\ faults' \in 0 .. maxFaults
    BY <2>1 DEF IInv, ReaderOK
  <2> QED
    BY <2>1, <2>2, ReaderStep
<1> QED
  BY <1>1, <1>2, <1>3, <1>4 DEF Next

(***************************************************************************)
(* The inductive invariant of the recovery: reads, sources, rebuilds and   *)
(* the file speak of positions of a history that only grows.               *)
(***************************************************************************)
THEOREM RecoveryInvariant == Spec => []IInv
  BY IInvInit, IInvStep, PTL DEF Spec

(***************************************************************************)
(* Types, and activeVisits is the number of visits underway.               *)
(***************************************************************************)
THEOREM RecoveryTypeCorrect == Spec => []TypeOK
<1>1. ASSUME IInv PROVE TypeOK
  <2>1. \A i \in DOMAIN history : /\ history[i].revisions \subseteq Revision
                                  /\ history[i].folders \subseteq FolderRevision
    BY <1>1 DEF IInv, HistoryOK, Stored, Contents
  <2>2. reader.at \in 0 .. Latest /\ reader.got \subseteq Versions
    BY <1>1 DEF IInv, ReaderOK, ReaderType, Latest
  <2>3. source # NoSource => source.active = Cardinality({b \in Builders : builder[b].pc = "visit"})
    BY <1>1 DEF IInv, SourceOK, Visiting
  <2> QED
    BY <1>1, <2>1, <2>2, <2>3 DEF TypeOK, IInv
<1> QED
  BY <1>1, RecoveryInvariant, PTL

(***************************************************************************)
(* A visit works on the whole content of its source to its end, although   *)
(* the source may be closed under it.                                      *)
(***************************************************************************)
THEOREM VisitsSeeContent == Spec => []VisitSeesContent
<1>1. ASSUME IInv PROVE VisitSeesContent
  BY <1>1, VisitWhole DEF VisitSeesContent, Whole
<1> QED
  BY <1>1, RecoveryInvariant, PTL

(***************************************************************************)
(* A reported projection stays and is exact, and so is any content at the  *)
(* destination: every live folder, every live message once in each of its  *)
(* folders, with UIDs that count.                                          *)
(***************************************************************************)
THEOREM ProjectionsExact == Spec => []ProjectionExact
<1>1. ASSUME IInv PROVE ProjectionExact
  <2>1. \A b \in Builders : builder[b].pc = "done" => file.by = b /\ file.committed
    BY <1>1 DEF IInv, BuilderOK, RebuildOK, Owning
  <2>2. file.committed =>
            /\ file.by # None /\ Stored(history[file.at]) /\ Reducible(history[file.at])
            /\ file.folders = FolderTable(history[file.at]) /\ file.rows = Rows(history[file.at])
    BY <1>1 DEF IInv, FileOK, HistoryOK
  <2>3. ASSUME file.committed
        PROVE  LET s == history[file.at]
                   Live == {m \in MessagesIn(s) : Undeleted(RevisionsOf(s.revisions, m))}
                   In(f) == {row \in file.rows : row.folder = f}
               IN  /\ {t.folder : t \in file.folders} =
                        {f \in FoldersIn(s) : Undeleted(FolderRevisionsOf(s.folders, f))}
                   /\ {Owner[row.version] : row \in file.rows} = Live
                   /\ \A f \in FoldersIn(s) :
                        /\ {row.uid : row \in In(f)} = 1..Cardinality(In(f))
                        /\ \A row, other \in In(f) :
                              Owner[row.version] = Owner[other.version] => row = other
    <3> DEFINE s == history[file.at]
               folders == file.folders
               rows == file.rows
    <3>1. Stored(s) /\ Reducible(s) /\ folders = FolderTable(s) /\ rows = Rows(s)
      BY <2>2, <2>3
    <3> HIDE DEF s, folders, rows
    <3>2. LET Live == {m \in MessagesIn(s) : Undeleted(RevisionsOf(s.revisions, m))}
              In(f) == {row \in rows : row.folder = f}
          IN  /\ {t.folder : t \in folders} =
                   {f \in FoldersIn(s) : Undeleted(FolderRevisionsOf(s.folders, f))}
              /\ {Owner[row.version] : row \in rows} = Live
              /\ \A f \in FoldersIn(s) :
                   /\ {row.uid : row \in In(f)} = 1..Cardinality(In(f))
                   /\ \A row, other \in In(f) :
                         Owner[row.version] = Owner[other.version] => row = other
      BY <3>1, ExactProjection
    <3> QED
      BY <3>2 DEF s, folders, rows
  <2> QED
    BY <2>1, <2>2, <2>3 DEF ProjectionExact
<1> QED
  BY <1>1, RecoveryInvariant, PTL

(***************************************************************************)
(* The replay order respects causality: in every accepted state the fields *)
(* come from writers that no other writer of the field had seen.           *)
(***************************************************************************)
THEOREM WinnersLatestAlways == Spec => []WinnersAreLatest
<1>1. ASSUME IInv PROVE WinnersAreLatest
  <2>1. Stored(Current)
    BY <1>1 DEF IInv, HistoryOK, Current
  <2> QED
    BY <2>1, WinnersLatest
<1> QED
  BY <1>1, RecoveryInvariant, PTL

-----------------------------------------------------------------------------
(* The refinement.                                                          *)

\* What SnapshotRead calls handed
HandedOut ==
    IF Valid THEN [at |-> source.at, contents |-> source.contents, blobs |-> source.blobs]
    ELSE NoSource

\* The end of a visit does not change a source that is still open
LEMMA EndKeepsHanded ==
    ASSUME IInv, source # NoSource, source'.at = source.at, source' = finishVisit(source),
           source' # NoSource, source'.closed = source.closed
    PROVE  HandedOut' = HandedOut
<1>1. source \in SourceType /\ (source.closePending => source.closed)
  BY SourceAt DEF IInv, SourceOK
<1> DEFINE left == [source EXCEPT !.active = @ - 1]
<1>2. left.contents = source.contents /\ left.blobs = source.blobs
      /\ left.closePending = source.closePending
  BY <1>1 DEF SourceType
<1>3. source' = IF left.active = 0 /\ left.closePending THEN clearLocked(left) ELSE left
  BY DEF finishVisit
<1> HIDE DEF left
<1>4. ~source.closed => source'.contents = source.contents /\ source'.blobs = source.blobs
  BY <1>1, <1>2, <1>3
<1>5. Valid' <=> Valid
  BY DEF Valid
<1> QED
  BY <1>4, <1>5 DEF HandedOut, Valid

\* A visit that ends hides nothing of an open source
LEMMA FinishKeepsHanded ==
    ASSUME IInv, NEW b \in Builders, builder[b].pc = "visit", NEW label \in Pcs \ {"visit"},
           Goto(b, label), source' = finishVisit(source), UNCHANGED history
    PROVE  HandedOut' = HandedOut
<1>1. PICK new : builder' = [builder EXCEPT ![b] = new] /\ new.pc = label
  BY Moves
<1>2. source'.at = source.at /\ source # NoSource /\ source' # NoSource /\ source'.closed = source.closed
  BY <1>1, VisitEnds
<1> QED
  BY <1>2, EndKeepsHanded

\* No step of a rebuild changes the history or what is handed out
LEMMA BuildStutters ==
    ASSUME IInv, NEW b \in Builders, Build(b) \/ BuildFails(b)
    PROVE  UNCHANGED <<history, HandedOut>>
<1>1. UNCHANGED history
  BY DEF Build, BuildFails, StartBuild, Open, ReadFolders, ReadStates, Create, BeginVisit,
         VisitMessage, EndVisit, Complete, Report, Remove, Step
<1>2. \/ UNCHANGED source
      \/ Valid /\ source' = [source EXCEPT !.active = @ + 1]
      \/ /\ builder[b].pc = "visit" /\ source' = finishVisit(source)
         /\ Goto(b, "remove") \/ Goto(b, "complete")
  BY DEF Build, BuildFails, StartBuild, Open, ReadFolders, ReadStates, Create, BeginVisit,
         VisitMessage, EndVisit, Complete, Report, Remove, Step
<1>3. CASE UNCHANGED source
  BY <1>1, <1>3 DEF HandedOut, Valid
<1>4. CASE Valid /\ source' = [source EXCEPT !.active = @ + 1]
  <2>1. source # NoSource /\ source \in SourceType /\ source.at # 0
    BY <1>4, SourceAt DEF Valid
  <2>2. /\ source'.at = source.at /\ source'.contents = source.contents
        /\ source'.blobs = source.blobs /\ source'.closed = source.closed
    BY <1>4, <2>1 DEF SourceType
  <2>3. source' # NoSource
    BY <2>1, <2>2 DEF NoSource
  <2> QED
    BY <1>1, <2>1, <2>2, <2>3 DEF HandedOut, Valid
<1>5. CASE /\ builder[b].pc = "visit" /\ source' = finishVisit(source)
           /\ Goto(b, "remove") \/ Goto(b, "complete")
  <2>1. {"remove", "complete"} \subseteq Pcs \ {"visit"}
    BY DEF Pcs, Running
  <2> QED
    BY <1>1, <1>5, <2>1, FinishKeepsHanded
<1> QED
  BY <1>2, <1>3, <1>4, <1>5

\* Every step is a step of SnapshotRead or leaves what it speaks of
LEMMA StepsRefine ==
    ASSUME IInv, [Next]_vars
    PROVE  \/ /\ Len(history') = Len(history) + 1 /\ SubSeq(history', 1, Len(history)) = history
              /\ UNCHANGED HandedOut
           \/ /\ HandedOut = NoSource /\ UNCHANGED history
              /\ HandedOut' = [at |-> Len(history), contents |-> history[Len(history)],
                               blobs |-> RawBlobs(history[Len(history)])]
           \/ HandedOut' = NoSource /\ UNCHANGED history
           \/ UNCHANGED <<history, HandedOut>>
<1>1. CASE Commit
  <2>1. UNCHANGED source
    BY <1>1 DEF Commit
  <2>2. HandedOut' = HandedOut
    BY <2>1 DEF HandedOut, Valid
  <2> QED
    BY <1>1, <2>2, Grows DEF IInv
<1>2. CASE Finish
  <2>1. /\ UNCHANGED history /\ reader.pc = "blobs" /\ reader.got = RawBlobs(reader.contents)
        /\ source' = IF reader.at = Latest THEN Handed ELSE NoSource
    BY <1>2 DEF Finish, Request
  <2>2. source = NoSource /\ reader.contents = history[reader.at] /\ reader.at \in DOMAIN history
    BY <2>1 DEF IInv, ReaderOK
  <2>3. HandedOut = NoSource
    BY <2>2 DEF HandedOut, Valid
  <2>4. CASE source' = NoSource
    BY <2>1, <2>4 DEF HandedOut, Valid
  <2>5. CASE source' # NoSource
    <3>1. source' = Handed /\ reader.at = Len(history)
      BY <2>1, <2>5 DEF Latest
    <3>2. /\ source'.at = reader.at /\ source'.contents = reader.contents /\ source'.blobs = reader.got
          /\ source'.closed = FALSE
      BY <3>1 DEF Handed
    <3>3. Valid'
      BY <2>5, <3>2 DEF Valid
    <3>4. HandedOut' = [at |-> source'.at, contents |-> source'.contents, blobs |-> source'.blobs]
      BY <3>3 DEF HandedOut
    <3> QED
      BY <2>1, <2>2, <2>3, <3>1, <3>2, <3>4
  <2> QED
    BY <2>4, <2>5
<1>3. CASE Close
  <2>1. UNCHANGED history /\ source # NoSource
    BY <1>3 DEF Close, Valid
  <2>2. source \in SourceType
    BY <2>1, SourceAt
  <2>3. source'.closed = TRUE
    BY <1>3, <2>2 DEF Close, clearLocked, SourceType
  <2>4. HandedOut' = NoSource
    BY <2>3 DEF HandedOut, Valid
  <2> QED
    BY <2>1, <2>4
<1>4. CASE Crash
  BY <1>4 DEF Crash, HandedOut, Valid
<1>5. CASE \/ ReadBefore \/ ReadCAR \/ ReadAfter \/ Reduce \/ StartBlobs \/ ReadBlob \/ RequestFails
           \/ UNCHANGED vars
  <2>1. UNCHANGED <<history, source>>
    BY <1>5 DEF ReadBefore, ReadCAR, ReadAfter, Reduce, StartBlobs, ReadBlob, RequestFails, Request, vars
  <2> QED
    BY <2>1 DEF HandedOut, Valid
<1>6. ASSUME NEW b \in Builders, Build(b) \/ BuildFails(b) PROVE UNCHANGED <<history, HandedOut>>
  BY <1>6, BuildStutters
<1> QED
  BY <1>1, <1>2, <1>3, <1>4, <1>5, <1>6 DEF Next, Read

(***************************************************************************)
(* The read of many requests is atomic: whatever is committed between its  *)
(* requests, the recovery implements SnapshotRead.                         *)
(***************************************************************************)
THEOREM RecoveryImplementsSnapshotRead == Spec => ImplementsSnapshotRead
<1>1. Init => Promise!Init
  BY RecoveryAssumption DEF Init, Promise!Init, Valid
<1>2. IInv /\ [Next]_vars => [Promise!Next]_<<history, HandedOut>>
  BY StepsRefine DEF Promise!Next, Promise!Commit, Promise!Latest, HandedOut
<1> QED
  BY <1>1, <1>2, RecoveryInvariant, PTL DEF Spec, ImplementsSnapshotRead, Promise!Spec, HandedOut

=============================================================================
