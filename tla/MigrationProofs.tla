---------------------------- MODULE MigrationProofs ----------------------------
(***************************************************************************)
(* A migration leaves no half message behind, passes only when the mailbox *)
(* is complete, and a rebuilt projection is faithful to the mailbox while  *)
(* others change it: for any snapshot, any number of importers, rebuilds   *)
(* and faults.                                                             *)
(*                                                                         *)
(* The inductive invariant says of the records: a message has its state    *)
(* and all parts of its body, an indexed body has all of its parts, and    *)
(* until another client writes every state is the imported one; of an      *)
(* importer: what it has passed is there; of a rebuild: its listing of the *)
(* states shows all that was there at its beginning up to its cursor, in   *)
(* the state of then or a later one.  Records are only added and states    *)
(* only move on (Grows), so that one lemma keeps every part.               *)
(***************************************************************************)
EXTENDS Migration, FiniteSetTheorems, SequenceTheorems, WellFoundedInduction, TLAPS

Addresses ==
    ({"folder"} \X SourceFolders) \cup ({"message", "state"} \X SourceMessages)
        \cup ({"chunk"} \X ChunkKeys) \cup ({"manifest", "index"} \X Bodies)

\* A state as it was, and as it is now
Older(s, t) == s.revision <= t.revision /\ (s.tombstone => t.tombstone)

StateFields == {"mailboxes", "keywords", "revision", "tombstone", "projection"}
StateShape(s) == DOMAIN s = StateFields /\ s.revision \in Nat /\ s.tombstone \in BOOLEAN

InStore(S, c, k) == <<c, k>> \in DOMAIN S
StateIn(S, m) == S[<<"state", m>>]
PlanIn(S, b) == \A i \in DOMAIN UploadPlan(b) : UploadPlan(b)[i] \in DOMAIN S

\* A message with its state and its body
MessageOK(S, t, m) ==
    /\ InStore(S, "message", m) <=> InStore(S, "state", m)
    /\ InStore(S, "message", m) => S[<<"message", m>>] = Message(m) /\ PlanIn(S, Source[m].body)
    /\ InStore(S, "state", m) => StateShape(StateIn(S, m)) /\ (~t => StateIn(S, m) = State(m))

StoreOK(S, t) ==
    /\ DOMAIN S \subseteq Addresses /\ IsFiniteSet(DOMAIN S)
    /\ \A m \in SourceMessages : MessageOK(S, t, m)
    /\ \A b \in Bodies : InStore(S, "index", b) => PlanIn(S, b)

\* What may happen to the records while a process does something else
Grows(S, N) ==
    /\ DOMAIN S \subseteq DOMAIN N
    /\ \A a \in DOMAIN S : a[1] # "state" => N[a] = S[a]
    /\ \A m \in SourceMessages : InStore(S, "state", m) => Older(StateIn(S, m), StateIn(N, m))

-----------------------------------------------------------------------------

ProcFields == {"pc", "n", "k", "list", "bad", "views"}
ListFields == {"of", "after", "page", "got", "last"}
ProcShape(j) == DOMAIN j = ProcFields /\ DOMAIN j.list = ListFields /\ j.n \in Nat /\ j.k \in Nat

AtFolders == {"folder", "newFolder"}
AtUpload == {"get", "put", "pair"}
AtMessages == {"message", "orphan", "check", "checkState"} \cup AtUpload
AtListing == {"page", "items", "listed"}
AtVerification == AtListing \cup {"verify", "verifyState", "passed"}

FolderIs(S, f) == InStore(S, "folder", f) /\ S[<<"folder", f>>] = Folder(f)

\* The parts of the body an importer has passed
PartsOK(j, S) ==
    LET plan == UploadPlan(Source[Messages[j.n]].body) IN
    /\ j.pc \in AtUpload => \A i \in DOMAIN plan : i < j.k => plan[i] \in DOMAIN S
    /\ j.pc \in {"get", "put"} => j.k \in DOMAIN plan
    /\ j.pc = "pair" => j.k > Len(plan)
    /\ j.pc \in {"message", "orphan"} => j.k = 1

\* What an importer has passed is there
ImporterOK(j, S, sp) ==
    /\ j.pc \in AtFolders \cup AtMessages \cup AtVerification => sp = "private"
    /\ j.pc \in AtFolders =>
        j.n \in DOMAIN Folders /\ \A i \in DOMAIN Folders : i < j.n => FolderIs(S, Folders[i])
    /\ j.pc \in AtMessages \cup AtVerification => \A f \in SourceFolders : FolderIs(S, f)
    /\ j.pc \in AtMessages =>
        /\ j.n \in DOMAIN Messages /\ PartsOK(j, S)
        /\ \A i \in DOMAIN Messages : i < j.n => InStore(S, "message", Messages[i])
    /\ j.pc \in AtVerification => \A m \in SourceMessages : InStore(S, "message", m)

-----------------------------------------------------------------------------

\* A collection of states that was read after the rebuild began
ReadAfter(V, before, S) ==
    /\ IsFiniteSet(DOMAIN V)
    /\ \A m \in DOMAIN V :
        /\ m \in SourceMessages /\ InStore(S, "state", m)
        /\ StateShape(V[m]) /\ Older(V[m], StateIn(S, m))
        /\ m \in DOMAIN before => Older(before[m], V[m])

\* The listing of the states, up to its cursor
ListingOK(j, S) ==
    LET before == j.views[1]
        list == j.list
    IN
    /\ list.after \in Nat
    /\ ReadAfter(list.got, before, S)
    /\ \A m \in DOMAIN list.got : Rank[m] <= list.after
    /\ \A m \in DOMAIN before : Rank[m] <= list.after => m \in DOMAIN list.got
    /\ j.pc = "items" =>
        /\ ReadAfter(list.page, before, S)
        /\ \A m \in DOMAIN before :
            Rank[m] > list.after /\ (list.last \/ \E x \in DOMAIN list.page : Rank[m] <= Rank[x])
                => m \in DOMAIN list.page
    /\ j.pc = "listed" => DOMAIN before \subseteq DOMAIN list.got

\* The collections a rebuild has read so far
Views(j) ==
    IF j.pc \in {"build", "passed"} \/ j.list.of = "message" THEN 3
    ELSE IF j.list.of = "state" THEN 2 ELSE 1

\* What a rebuild knows of the mailbox it began with
BuilderOK(j, S, rows) ==
    j.pc \in AtListing \cup {"build", "passed"} =>
        /\ j.list.of \in {"folder", "state", "message"}
        /\ Views(j) = 1 => j.views = <<j.views[1]>>
        /\ Views(j) = 2 => j.views = <<j.views[1], j.views[2]>> /\ ListingOK(j, S)
        /\ Views(j) = 3 => /\ j.views = <<j.views[1], j.views[2], j.views[3]>>
                           /\ ReadAfter(j.views[3], j.views[1], S)
                           /\ DOMAIN j.views[1] \subseteq DOMAIN j.views[3]
        /\ ReadAfter(j.views[1], j.views[1], S)
        /\ j.pc = "build" => GraphFits(j.views[2], j.views[3], j.list.got)
        /\ j.pc = "passed" => rows = Rows(j.views[3])

IInv ==
    /\ StoreOK(stored, touched)
    /\ DOMAIN proc = Processes /\ DOMAIN file = Builders
    /\ \A p \in Processes : ProcShape(proc[p])
    /\ \A p \in Importers : ImporterOK(proc[p], stored, space)
    /\ \A p \in Builders : BuilderOK(proc[p], stored, file[p])

-----------------------------------------------------------------------------
(* Counting in a finite set of numbers.                                     *)

\* The number of members of W below m
Below(W, m) == Cardinality({n \in W : n < m})

\* The n-th member of a finite set of numbers exists and is the only one
LEMMA BelowCounts ==
    ASSUME NEW W \in SUBSET Int, IsFiniteSet(W)
    PROVE  /\ \A m \in W : Below(W, m) \in 0 .. Cardinality(W) - 1
           /\ \A m, n \in W : m < n => Below(W, m) < Below(W, n)
           /\ \A k \in 0 .. Cardinality(W) - 1 : \E m \in W : Below(W, m) = k
<1> DEFINE N == Cardinality(W)
           Under(m) == {n \in W : n < m}
<1>1. N \in Nat
  BY FS_CardinalityType
<1>2. \A m \in W : Under(m) \in SUBSET W /\ m \notin Under(m)
  <2>1. \A m \in W : ~(m < m)
    OBVIOUS
  <2> QED
    BY <2>1
<1>3. \A m \in W : IsFiniteSet(Under(m)) /\ Below(W, m) \in 0 .. N - 1
  <2> SUFFICES ASSUME NEW m \in W PROVE IsFiniteSet(Under(m)) /\ Below(W, m) \in 0 .. N - 1
    OBVIOUS
  <2>1. IsFiniteSet(Under(m)) /\ Cardinality(Under(m)) <= N /\ (N = Cardinality(Under(m)) => W = Under(m))
    BY <1>2, FS_Subset
  <2>2. Cardinality(Under(m)) \in Nat
    BY <2>1, FS_CardinalityType
  <2>3. Cardinality(Under(m)) # N
    BY <1>2, <2>1
  <2> QED
    BY <1>1, <2>1, <2>2, <2>3 DEF Below
<1>4. \A m, n \in W : m < n => Below(W, m) < Below(W, n)
  <2> SUFFICES ASSUME NEW m \in W, NEW n \in W, m < n PROVE Below(W, m) < Below(W, n)
    OBVIOUS
  <2>1. Under(m) \in SUBSET Under(n)
    <3>1. \A k \in W : k < m => k < n
      OBVIOUS
    <3> QED
      BY <3>1
  <2>2. m \in Under(n) /\ m \notin Under(m)
    BY <1>2
  <2>3. IsFiniteSet(Under(n)) /\ IsFiniteSet(Under(m))
    BY <1>3
  <2>4. /\ Cardinality(Under(m)) <= Cardinality(Under(n))
        /\ Cardinality(Under(n)) = Cardinality(Under(m)) => Under(n) = Under(m)
    BY <2>1, <2>3, FS_Subset
  <2>5. Cardinality(Under(m)) # Cardinality(Under(n))
    BY <2>2, <2>4
  <2>6. Cardinality(Under(m)) \in Nat /\ Cardinality(Under(n)) \in Nat
    BY <2>3, FS_CardinalityType
  <2> QED
    BY <2>4, <2>5, <2>6 DEF Below
<1> DEFINE rank == [m \in W |-> Below(W, m)]
<1>5. rank \in Injection(W, 0 .. N - 1)
  <2>1. \A m, n \in W : Below(W, m) = Below(W, n) => m = n
    <3> SUFFICES ASSUME NEW m \in W, NEW n \in W, Below(W, m) = Below(W, n), m # n PROVE FALSE
      OBVIOUS
    <3>1. m < n \/ n < m
      OBVIOUS
    <3>2. Below(W, m) \in 0 .. N - 1 /\ Below(W, n) \in 0 .. N - 1
      BY <1>3
    <3> QED
      BY <1>1, <1>4, <3>1, <3>2
  <2> QED
    BY <1>3, <2>1 DEF Injection, IsInjective
<1>6. IsFiniteSet(0 .. N - 1) /\ Cardinality(0 .. N - 1) = N
  BY <1>1, FS_Interval
<1>7. rank \in Surjection(W, 0 .. N - 1)
  <2> HIDE DEF rank, N
  <2> QED
    BY <1>5, <1>6, FS_Injection DEF N
<1>8. \A k \in 0 .. N - 1 : \E m \in W : Below(W, m) = k
  BY <1>7 DEF Surjection
<1> QED
  BY <1>3, <1>4, <1>8

\* A finite set of numbers has its largest
LEMMA MaxOf ==
    ASSUME NEW T \in SUBSET Int, IsFiniteSet(T), T # {}
    PROVE  Max(T) \in T /\ \A t \in T : t <= Max(T)
<1> DEFINE N == Cardinality(T)
<1>1. N \in Nat /\ N # 0
  BY FS_CardinalityType, FS_EmptySet
<1>2. /\ \A m \in T : Below(T, m) \in 0 .. N - 1
      /\ \A m, n \in T : m < n => Below(T, m) < Below(T, n)
      /\ \A k \in 0 .. N - 1 : \E m \in T : Below(T, m) = k
  BY BelowCounts
<1>3. PICK m \in T : Below(T, m) = N - 1
  <2> HIDE DEF N
  <2>1. N - 1 \in 0 .. N - 1
    BY <1>1
  <2> QED
    BY <1>2, <2>1
<1>4. \A t \in T : t <= m
  <2> HIDE DEF N
  <2> SUFFICES ASSUME NEW t \in T, ~(t <= m) PROVE FALSE
    OBVIOUS
  <2>1. m < t
    OBVIOUS
  <2>2. Below(T, m) < Below(T, t) /\ Below(T, t) \in 0 .. N - 1
    BY <1>2, <2>1
  <2> QED
    BY <1>1, <1>3, <2>2
<1>5. \E x \in T : \A y \in T : x >= y
  BY <1>4
<1> QED
  BY <1>5 DEF Max

-----------------------------------------------------------------------------
(* The UIDs of a folder.                                                    *)

\* The listed keys of the messages come from the source, in a strict order
Listable(states) == DOMAIN states \subseteq SourceMessages /\ IsFiniteSet(DOMAIN states)

Others(states, f, m) == {x \in LiveIn(states, f) \ Kept(states, f) : Rank[x] < Rank[m]}
Free(states, f) == 1 .. (maxUID + Cardinality(DOMAIN states)) \ PreservedUIDs(states, f)

\* The preserved UIDs are no more than the messages that keep theirs
LEMMA PreservedCount ==
    ASSUME NEW states, NEW f, Listable(states)
    PROVE  LET kept == Kept(states, f)
               uids == PreservedUIDs(states, f) IN
           /\ IsFiniteSet(kept) /\ IsFiniteSet(uids) /\ Cardinality(uids) <= Cardinality(kept)
           /\ Cardinality(uids) = Cardinality(kept) =>
                \A m, x \in kept : states[m].projection.uid = states[x].projection.uid => m = x
<1> DEFINE kept == Kept(states, f)
           uids == PreservedUIDs(states, f)
           uid == [m \in kept |-> states[m].projection.uid]
<1>1. IsFiniteSet(kept)
  <2>1. kept \in SUBSET DOMAIN states
    BY DEF Kept, LiveIn
  <2> QED
    BY <2>1, FS_Subset DEF Listable
<1>2. uid \in Surjection(kept, uids)
  BY DEF Surjection, PreservedUIDs
<1>3. /\ IsFiniteSet(uids) /\ Cardinality(uids) <= Cardinality(kept)
      /\ Cardinality(uids) = Cardinality(kept) => uid \in Injection(kept, uids)
  <2> HIDE DEF kept, uids, uid
  <2> QED
    BY <1>1, <1>2, FS_Surjection
<1>4. uid \in Injection(kept, uids) =>
        \A m, x \in kept : states[m].projection.uid = states[x].projection.uid => m = x
  BY DEF Injection, IsInjective
<1> QED
  BY <1>1, <1>3, <1>4

\* A fresh UID exists: it is a free number with as many free numbers below it
\* as messages before it take one
LEMMA FreshExists ==
    ASSUME NEW states, NEW f, NEW m, Listable(states), m \in LiveIn(states, f) \ Kept(states, f)
    PROVE  /\ FreshUID(states, f, m) \in Free(states, f)
           /\ Below(Free(states, f), FreshUID(states, f, m)) = Cardinality(Others(states, f, m))
<1> DEFINE free == Free(states, f)
           others == Others(states, f, m)
           kept == Kept(states, f)
           uids == PreservedUIDs(states, f)
           D == Cardinality(DOMAIN states)
           range == 1 .. (maxUID + D)
<1>1. D \in Nat /\ maxUID \in Nat
  BY FS_CardinalityType, MigrationAssumption DEF Listable
<1>2. IsFiniteSet(range) /\ Cardinality(range) = maxUID + D
  <2> HIDE DEF D
  <2>1. PICK M \in Nat : M = maxUID + D
    BY <1>1
  <2>2. IsFiniteSet(1 .. M) /\ Cardinality(1 .. M) = M
    BY FS_Interval
  <2> QED
    BY <2>1, <2>2
<1>3. IsFiniteSet(kept) /\ IsFiniteSet(uids) /\ Cardinality(uids) <= Cardinality(kept)
  BY PreservedCount
<1>4. IsFiniteSet(free) /\ Cardinality(free) >= maxUID + D - Cardinality(kept)
  <2>1. free = range \ uids
    BY DEF Free
  <2>2. IsFiniteSet(free) /\ Cardinality(free) = Cardinality(range) - Cardinality(range \cap uids)
    <3> HIDE DEF range, uids, free
    <3> QED
      BY <1>2, <2>1, FS_Difference
  <2>3. Cardinality(range \cap uids) <= Cardinality(uids) /\ IsFiniteSet(range \cap uids)
    <3> HIDE DEF range, uids
    <3> QED
      BY <1>3, FS_Intersection
  <2>4. Cardinality(range \cap uids) \in Nat /\ Cardinality(uids) \in Nat /\ Cardinality(kept) \in Nat
    BY <1>3, <2>3, FS_CardinalityType
  <2> HIDE DEF free, range, uids, kept, D
  <2> QED
    BY <1>1, <1>2, <1>3, <2>2, <2>3, <2>4
<1>5. IsFiniteSet(others) /\ Cardinality(others) + Cardinality(kept) < D
  <2> DEFINE both == others \cup kept
  <2>1. both \subseteq DOMAIN states \ {m} /\ m \in DOMAIN states /\ others \cap kept = {}
    <3>1. ~(Rank[m] < Rank[m])
      <4>1. m \in SourceMessages
        BY DEF LiveIn, Listable
      <4>2. Rank[m] \in Nat
        BY <4>1, MigrationAssumption
      <4> QED
        BY <4>2
    <3> QED
      BY <3>1 DEF Others, Kept, LiveIn
  <2>2. IsFiniteSet(DOMAIN states \ {m}) /\ Cardinality(DOMAIN states \ {m}) = D - 1
    BY <2>1, FS_RemoveElement DEF Listable
  <2>3. IsFiniteSet(both) /\ Cardinality(both) <= D - 1
    <3> HIDE DEF both, D
    <3> QED
      BY <2>1, <2>2, FS_Subset
  <2>4. IsFiniteSet(others)
    BY <2>3, FS_Subset
  <2>5. Cardinality(both) = Cardinality(others) + Cardinality(kept) - Cardinality(others \cap kept)
    <3> HIDE DEF others, kept
    <3> QED
      BY <1>3, <2>4, FS_Union
  <2>6. Cardinality(others \cap kept) = 0
    BY <2>1, FS_EmptySet
  <2>7. Cardinality(others) \in Nat /\ Cardinality(kept) \in Nat
    BY <1>3, <2>4, FS_CardinalityType
  <2> HIDE DEF both, others, kept, D
  <2> QED
    BY <1>1, <2>3, <2>4, <2>5, <2>6, <2>7
<1>6. Cardinality(others) \in 0 .. Cardinality(free) - 1
  <2>1. Cardinality(others) \in Nat /\ Cardinality(kept) \in Nat /\ Cardinality(free) \in Nat
    BY <1>3, <1>4, <1>5, FS_CardinalityType
  <2> HIDE DEF others, kept, free, D
  <2> QED
    BY <1>1, <1>4, <1>5, <2>1
<1>7. free \in SUBSET Int
  <2> HIDE DEF D
  <2> QED
    BY <1>1 DEF Free
<1>8. \E u \in free : Below(free, u) = Cardinality(others)
  <2> HIDE DEF free, others
  <2> QED
    BY <1>4, <1>6, <1>7, BelowCounts
<1>9. FreshUID(states, f, m) = CHOOSE u \in free : Below(free, u) = Cardinality(others)
  BY DEF FreshUID, Free, Others, Below
<1> HIDE DEF free, others
<1>10. FreshUID(states, f, m) \in free /\ Below(free, FreshUID(states, f, m)) = Cardinality(others)
  BY <1>8, <1>9
<1> QED
  BY <1>10 DEF free, others

\* No UID of a folder is given twice
LEMMA UIDsApart ==
    ASSUME NEW states, NEW f, Listable(states), Allocatable(states, f),
           NEW m \in LiveIn(states, f), NEW x \in LiveIn(states, f), m # x
    PROVE  UID(states, f, m) # UID(states, f, x)
<1> DEFINE kept == Kept(states, f)
<1>1. m \in SourceMessages /\ x \in SourceMessages
  BY DEF LiveIn, Listable
<1>2. Rank[m] \in Nat /\ Rank[x] \in Nat /\ Rank[m] # Rank[x]
  BY <1>1, MigrationAssumption
<1>3. CASE m \in kept /\ x \in kept
  <2>1. \A a, b \in kept : states[a].projection.uid = states[b].projection.uid => a = b
    BY PreservedCount DEF Allocatable
  <2> QED
    BY <1>3, <2>1 DEF UID
<1>4. ASSUME NEW a \in LiveIn(states, f), NEW b \in LiveIn(states, f), a \in kept, b \notin kept
      PROVE  UID(states, f, a) # UID(states, f, b)
  <2>1. UID(states, f, a) \in PreservedUIDs(states, f)
    BY <1>4 DEF UID, PreservedUIDs
  <2>2. UID(states, f, b) \in Free(states, f)
    BY <1>4, FreshExists DEF UID
  <2> QED
    BY <2>1, <2>2 DEF Free
<1>5. ASSUME NEW a \in LiveIn(states, f), NEW b \in LiveIn(states, f), a \notin kept, b \notin kept,
             Rank[a] \in Nat, Rank[b] \in Nat, Rank[a] < Rank[b]
      PROVE  UID(states, f, a) # UID(states, f, b)
  <2>1. /\ UID(states, f, a) = FreshUID(states, f, a) /\ UID(states, f, b) = FreshUID(states, f, b)
        /\ Below(Free(states, f), FreshUID(states, f, a)) = Cardinality(Others(states, f, a))
        /\ Below(Free(states, f), FreshUID(states, f, b)) = Cardinality(Others(states, f, b))
    BY <1>5, FreshExists DEF UID
  <2>2. IsFiniteSet(Others(states, f, b))
    <3>1. Others(states, f, b) \in SUBSET DOMAIN states
      BY DEF Others, LiveIn
    <3> QED
      BY <3>1, FS_Subset DEF Listable
  <2>3. Others(states, f, a) \in SUBSET Others(states, f, b)
    <3>1. \A y \in LiveIn(states, f) : Rank[y] \in Nat
      BY MigrationAssumption DEF LiveIn, Listable
    <3>2. \A y \in LiveIn(states, f) : Rank[y] < Rank[a] => Rank[y] < Rank[b]
      BY <1>5, <3>1
    <3> QED
      BY <3>2 DEF Others
  <2>4. a \in Others(states, f, b) /\ a \notin Others(states, f, a)
    BY <1>5 DEF Others
  <2>5. Cardinality(Others(states, f, a)) # Cardinality(Others(states, f, b))
    BY <2>2, <2>3, <2>4, FS_Subset
  <2> QED
    BY <2>1, <2>5
<1>6. CASE m \notin kept /\ x \notin kept
  <2>1. Rank[m] < Rank[x] \/ Rank[x] < Rank[m]
    BY <1>2
  <2> QED
    BY <1>2, <1>5, <1>6, <2>1
<1> QED
  BY <1>3, <1>4, <1>6

\* allocateProjectionIdentities satisfies the schema's UNIQUE(mailbox, uid)
LEMMA RowsApart ==
    ASSUME NEW folders, NEW states, NEW messages, Listable(states),
           GraphFits(folders, states, messages),
           \A f \in DOMAIN folders : Allocatable(states, f)
    PROVE  DistinctUIDs(Rows(states))
<1> DEFINE rows == Rows(states)
<1> SUFFICES ASSUME NEW m \in DOMAIN rows, NEW x \in DOMAIN rows,
                    NEW f \in DOMAIN rows[m].uid \cap DOMAIN rows[x].uid, m # x
             PROVE  rows[m].uid[f] # rows[x].uid[f]
  BY DEF DistinctUIDs
<1>1. /\ m \in DOMAIN states /\ ~states[m].tombstone
      /\ x \in DOMAIN states /\ ~states[x].tombstone
  BY DEF Rows
<1>2. /\ rows[m].uid = [g \in states[m].mailboxes |-> UID(states, g, m)]
      /\ rows[x].uid = [g \in states[x].mailboxes |-> UID(states, g, x)]
  BY <1>1 DEF Rows
<1>3. f \in states[m].mailboxes /\ f \in states[x].mailboxes
  BY <1>2
<1>4. rows[m].uid[f] = UID(states, f, m) /\ rows[x].uid[f] = UID(states, f, x)
  BY <1>2, <1>3
<1>5. m \in LiveIn(states, f) /\ x \in LiveIn(states, f)
  BY <1>1, <1>3 DEF LiveIn
<1>6. f \in DOMAIN folders
  BY <1>1, <1>3 DEF GraphFits
<1>7. UID(states, f, m) # UID(states, f, x)
  BY <1>5, <1>6, UIDsApart
<1> QED
  BY <1>4, <1>7

-----------------------------------------------------------------------------
(* The records of a body.                                                   *)

\* UploadBlob makes sure of the chunks, then the manifest, then the index
LEMMA PlanParts ==
    ASSUME NEW b \in Bodies
    PROVE  /\ Chunks[b] \in Seq(ChunkKeys)
           /\ UploadPlan(b) \in Seq(Addresses)
           /\ Len(UploadPlan(b)) = Len(Chunks[b]) + 2
           /\ \A i \in DOMAIN Chunks[b] :
                i \in DOMAIN UploadPlan(b) /\ UploadPlan(b)[i] = <<"chunk", Chunks[b][i]>>
           /\ UploadPlan(b)[Len(Chunks[b]) + 1] = <<"manifest", b>>
           /\ UploadPlan(b)[Len(Chunks[b]) + 2] = <<"index", b>>
<1>1. Chunks[b] \in Seq(ChunkKeys)
  BY HappyViewAssumption
<1>2. PICK c \in Seq(ChunkKeys) : c = Chunks[b]
  BY <1>1
<1> DEFINE parts == [i \in DOMAIN c |-> <<"chunk", c[i]>>]
           ends == <<<<"manifest", b>>, <<"index", b>>>>
<1>3. DOMAIN c = 1 .. Len(c) /\ Len(c) \in Nat /\ \A i \in DOMAIN c : c[i] \in ChunkKeys
  OBVIOUS
<1>4. \A i \in DOMAIN c : <<"chunk", c[i]>> \in Addresses
  BY <1>3 DEF Addresses
<1>5. <<"manifest", b>> \in Addresses /\ <<"index", b>> \in Addresses
  BY DEF Addresses
<1>6. parts \in Seq(Addresses) /\ Len(parts) = Len(c)
  <2>1. parts \in [1 .. Len(c) -> Addresses]
    BY <1>3, <1>4
  <2> HIDE DEF parts
  <2>2. parts \in Seq(Addresses)
    BY <1>3, <2>1
  <2> QED
    BY <1>3, <2>1, <2>2
<1>7. ends \in Seq(Addresses) /\ Len(ends) = 2 /\ ends[1] = <<"manifest", b>> /\ ends[2] = <<"index", b>>
  BY <1>5
<1>8. UploadPlan(b) = parts \o ends
  BY <1>2 DEF UploadPlan
<1>9. \A i \in DOMAIN c : parts[i] = <<"chunk", c[i]>>
  OBVIOUS
<1> HIDE DEF parts, ends
<1>10. /\ parts \o ends \in Seq(Addresses) /\ Len(parts \o ends) = Len(c) + 2
       /\ \A i \in 1 .. Len(c) : (parts \o ends)[i] = parts[i]
       /\ (parts \o ends)[Len(c) + 1] = ends[1]
       /\ (parts \o ends)[Len(c) + 2] = ends[2]
  <2>1. PICK n \in Nat : n = Len(c)
    BY <1>3
  <2>2. /\ parts \o ends \in Seq(Addresses) /\ Len(parts \o ends) = n + 2
        /\ \A i \in 1 .. n + 2 : (parts \o ends)[i] = IF i <= n THEN parts[i] ELSE ends[i - n]
    <3>1. /\ parts \o ends \in Seq(Addresses)
          /\ Len(parts \o ends) = Len(parts) + Len(ends)
          /\ \A i \in 1 .. Len(parts) + Len(ends) :
                (parts \o ends)[i] = IF i <= Len(parts) THEN parts[i] ELSE ends[i - Len(parts)]
      BY <1>6, <1>7, ConcatProperties
    <3>2. Len(parts) = n /\ Len(ends) = 2
      BY <1>6, <1>7, <2>1
    <3> QED
      BY <3>1, <3>2
  <2>3. n + 1 \in 1 .. n + 2 /\ ~(n + 1 <= n) /\ (n + 1) - n = 1
    OBVIOUS
  <2>4. n + 2 \in 1 .. n + 2 /\ ~(n + 2 <= n) /\ (n + 2) - n = 2
    OBVIOUS
  <2>5. \A i \in 1 .. n : i \in 1 .. n + 2 /\ i <= n
    OBVIOUS
  <2> QED
    BY <2>1, <2>2, <2>3, <2>4, <2>5
<1>11. 1 .. Len(c) \subseteq DOMAIN (parts \o ends)
  BY <1>3, <1>10
<1> QED
  BY <1>1, <1>2, <1>3, <1>7, <1>8, <1>9, <1>10, <1>11

\* A body whose records are all there can be read back
LEMMA PlanReadable ==
    ASSUME NEW b \in Bodies, PlanIn(stored, b)
    PROVE  Readable(b)
<1> DEFINE plan == UploadPlan(b)
           n == Len(Chunks[b])
<1>1. /\ Chunks[b] \in Seq(ChunkKeys) /\ plan \in Seq(Addresses) /\ Len(plan) = n + 2
      /\ \A i \in DOMAIN Chunks[b] : i \in DOMAIN plan /\ plan[i] = <<"chunk", Chunks[b][i]>>
      /\ plan[n + 1] = <<"manifest", b>> /\ plan[n + 2] = <<"index", b>>
  BY PlanParts
<1>2. n \in Nat /\ n + 1 \in DOMAIN plan /\ n + 2 \in DOMAIN plan
  <2>1. n \in Nat
    BY <1>1
  <2> HIDE DEF n
  <2> QED
    BY <1>1, <2>1
<1>3. \A i \in DOMAIN plan : plan[i] \in DOMAIN stored
  BY DEF PlanIn
<1> HIDE DEF plan, n
<1>4. <<"manifest", b>> \in DOMAIN stored /\ <<"index", b>> \in DOMAIN stored
  BY <1>1, <1>2, <1>3
<1>5. \A i \in DOMAIN Chunks[b] : <<"chunk", Chunks[b][i]>> \in DOMAIN stored
  BY <1>1, <1>3
<1> QED
  BY <1>4, <1>5 DEF Readable, Has

-----------------------------------------------------------------------------
(* The records only grow, and their states only move on.                    *)

LEMMA OlderTransitive ==
    ASSUME NEW s, NEW t, NEW u, s.revision \in Nat, t.revision \in Nat, u.revision \in Nat,
           Older(s, t), Older(t, u)
    PROVE  Older(s, u)
BY DEF Older

LEMMA StateOf ==
    ASSUME NEW S, NEW t, StoreOK(S, t), NEW m \in SourceMessages, InStore(S, "state", m)
    PROVE  StateShape(StateIn(S, m)) /\ InStore(S, "message", m) /\ (~t => StateIn(S, m) = State(m))
BY DEF StoreOK, MessageOK

LEMMA GrowsSame ==
    ASSUME NEW S, NEW t, StoreOK(S, t)
    PROVE  Grows(S, S)
<1>1. ASSUME NEW m \in SourceMessages, InStore(S, "state", m)
      PROVE  Older(StateIn(S, m), StateIn(S, m))
  <2>1. StateShape(StateIn(S, m))
    BY <1>1, StateOf
  <2> QED
    BY <2>1 DEF StateShape, Older
<1> QED
  BY <1>1 DEF Grows

\* A record that is neither message nor state is added
LEMMA AddPlain ==
    ASSUME NEW S, NEW t, StoreOK(S, t), NEW a \in Addresses, a \notin DOMAIN S,
           a[1] \notin {"message", "state"},
           \A b \in Bodies : a = <<"index", b>> =>
                \A i \in DOMAIN UploadPlan(b) : UploadPlan(b)[i] \in DOMAIN S \cup {a},
           NEW N, DOMAIN N = DOMAIN S \cup {a}, \A x \in DOMAIN S : N[x] = S[x]
    PROVE  StoreOK(N, t) /\ Grows(S, N)
<1>1. \A m \in SourceMessages : a # <<"message", m>> /\ a # <<"state", m>>
  OBVIOUS
<1>2. \A m \in SourceMessages :
        /\ InStore(N, "message", m) <=> InStore(S, "message", m)
        /\ InStore(N, "state", m) <=> InStore(S, "state", m)
        /\ InStore(S, "message", m) => N[<<"message", m>>] = S[<<"message", m>>]
        /\ InStore(S, "state", m) => StateIn(N, m) = StateIn(S, m)
  BY <1>1 DEF InStore, StateIn
<1>3. \A b \in Bodies : PlanIn(S, b) => PlanIn(N, b)
  BY DEF PlanIn
<1>4. DOMAIN N \subseteq Addresses /\ IsFiniteSet(DOMAIN N)
  <2>1. DOMAIN S \subseteq Addresses /\ IsFiniteSet(DOMAIN S)
    BY DEF StoreOK
  <2> QED
    BY <2>1, FS_AddElement
<1>5. ASSUME NEW m \in SourceMessages PROVE MessageOK(N, t, m)
  <2>1. MessageOK(S, t, m)
    BY DEF StoreOK
  <2>2. Source[m].body \in Bodies
    BY MigrationAssumption
  <2> QED
    BY <1>2, <1>3, <2>1, <2>2 DEF MessageOK
<1>6. ASSUME NEW b \in Bodies, InStore(N, "index", b) PROVE PlanIn(N, b)
  <2>1. CASE InStore(S, "index", b)
    BY <1>3, <2>1 DEF StoreOK
  <2>2. CASE ~InStore(S, "index", b)
    <3>1. a = <<"index", b>>
      BY <1>6, <2>2 DEF InStore
    <3> QED
      BY <3>1 DEF PlanIn
  <2> QED
    BY <2>1, <2>2
<1>7. StoreOK(N, t)
  BY <1>4, <1>5, <1>6 DEF StoreOK
<1>8. \A m \in SourceMessages : InStore(S, "state", m) => Older(StateIn(S, m), StateIn(N, m))
  <2>1. Grows(S, S)
    BY GrowsSame
  <2> QED
    BY <1>2, <2>1 DEF Grows
<1>9. Grows(S, N)
  BY <1>8 DEF Grows
<1> QED
  BY <1>7, <1>9

\* A message whose body is there is added with its state
LEMMA AddPair ==
    ASSUME NEW S, NEW t, StoreOK(S, t), NEW m \in SourceMessages,
           ~InStore(S, "message", m), ~InStore(S, "state", m), PlanIn(S, Source[m].body),
           NEW N, DOMAIN N = DOMAIN S \cup {<<"message", m>>, <<"state", m>>},
           N[<<"message", m>>] = Message(m), StateIn(N, m) = State(m),
           \A x \in DOMAIN S : N[x] = S[x]
    PROVE  StoreOK(N, t) /\ Grows(S, N)
<1>1. \A x \in SourceMessages : x # m =>
        /\ InStore(N, "message", x) <=> InStore(S, "message", x)
        /\ InStore(N, "state", x) <=> InStore(S, "state", x)
        /\ InStore(S, "message", x) => N[<<"message", x>>] = S[<<"message", x>>]
        /\ InStore(S, "state", x) => StateIn(N, x) = StateIn(S, x)
  BY DEF InStore, StateIn
<1>2. \A b \in Bodies : PlanIn(S, b) => PlanIn(N, b)
  BY DEF PlanIn
<1>3. DOMAIN N \subseteq Addresses /\ IsFiniteSet(DOMAIN N)
  <2>1. DOMAIN S \subseteq Addresses /\ IsFiniteSet(DOMAIN S)
    BY DEF StoreOK
  <2>2. IsFiniteSet(DOMAIN S \cup {<<"message", m>>})
    BY <2>1, FS_AddElement
  <2>3. IsFiniteSet((DOMAIN S \cup {<<"message", m>>}) \cup {<<"state", m>>})
    BY <2>2, FS_AddElement
  <2>4. DOMAIN N = (DOMAIN S \cup {<<"message", m>>}) \cup {<<"state", m>>}
    OBVIOUS
  <2>5. <<"message", m>> \in Addresses /\ <<"state", m>> \in Addresses
    BY DEF Addresses
  <2> QED
    BY <2>1, <2>3, <2>4, <2>5
<1>4. ASSUME NEW x \in SourceMessages PROVE MessageOK(N, t, x)
  <2>1. MessageOK(S, t, x) /\ Source[x].body \in Bodies
    BY MigrationAssumption DEF StoreOK
  <2>2. CASE x # m
    BY <1>1, <1>2, <2>1, <2>2 DEF MessageOK
  <2>3. CASE x = m
    <3>1. StateShape(State(m))
      BY DEF StateShape, StateFields, State
    <3>2. InStore(N, "message", m) /\ InStore(N, "state", m)
      BY DEF InStore
    <3> QED
      BY <1>2, <2>1, <2>3, <3>1, <3>2 DEF MessageOK
  <2> QED
    BY <2>2, <2>3
<1>5. \A b \in Bodies : InStore(N, "index", b) => PlanIn(N, b)
  <2>1. \A b \in Bodies : InStore(N, "index", b) <=> InStore(S, "index", b)
    BY DEF InStore
  <2> QED
    BY <1>2, <2>1 DEF StoreOK
<1>6. StoreOK(N, t)
  BY <1>3, <1>4, <1>5 DEF StoreOK
<1>7. \A x \in SourceMessages : InStore(S, "state", x) => Older(StateIn(S, x), StateIn(N, x))
  <2>1. Grows(S, S)
    BY GrowsSame
  <2> QED
    BY <1>1, <2>1 DEF Grows
<1>8. Grows(S, N)
  BY <1>7 DEF Grows
<1> QED
  BY <1>6, <1>8

\* Another client moves a state on
LEMMA MoveState ==
    ASSUME NEW S, NEW t, StoreOK(S, t), NEW m \in SourceMessages, InStore(S, "state", m),
           NEW N, DOMAIN N = DOMAIN S, \A x \in DOMAIN S : x # <<"state", m>> => N[x] = S[x],
           StateShape(StateIn(N, m)), Older(StateIn(S, m), StateIn(N, m))
    PROVE  StoreOK(N, TRUE) /\ Grows(S, N)
<1>1. \A x \in SourceMessages :
        /\ InStore(N, "message", x) <=> InStore(S, "message", x)
        /\ InStore(N, "state", x) <=> InStore(S, "state", x)
        /\ InStore(S, "message", x) => N[<<"message", x>>] = S[<<"message", x>>]
        /\ InStore(S, "state", x) /\ x # m => StateIn(N, x) = StateIn(S, x)
  BY DEF InStore, StateIn
<1>2. \A b \in Bodies : PlanIn(S, b) => PlanIn(N, b)
  BY DEF PlanIn
<1>3. ASSUME NEW x \in SourceMessages PROVE MessageOK(N, TRUE, x)
  <2>1. MessageOK(S, t, x) /\ Source[x].body \in Bodies
    BY MigrationAssumption DEF StoreOK
  <2> QED
    BY <1>1, <1>2, <2>1 DEF MessageOK
<1>4. StoreOK(N, TRUE)
  <2>1. \A b \in Bodies : InStore(N, "index", b) <=> InStore(S, "index", b)
    BY DEF InStore
  <2> QED
    BY <1>2, <1>3, <2>1 DEF StoreOK
<1>5. \A x \in SourceMessages : InStore(S, "state", x) => Older(StateIn(S, x), StateIn(N, x))
  <2>1. Grows(S, S)
    BY GrowsSame
  <2> QED
    BY <1>1, <2>1 DEF Grows
<1>6. Grows(S, N)
  BY <1>5 DEF Grows
<1> QED
  BY <1>4, <1>6

-----------------------------------------------------------------------------
(* What a process knows stays true while the records grow.                  *)

LEMMA ImporterKept ==
    ASSUME NEW j, NEW S, NEW sp, NEW N, NEW tp, ImporterOK(j, S, sp), Grows(S, N),
           sp = "private" => tp = "private"
    PROVE  ImporterOK(j, N, tp)
<1>1. \A f : FolderIs(S, f) => FolderIs(N, f)
  BY DEF FolderIs, InStore, Grows
<1>2. \A m : InStore(S, "message", m) => InStore(N, "message", m)
  BY DEF InStore, Grows
<1>3. PartsOK(j, S) => PartsOK(j, N)
  BY DEF PartsOK, Grows
<1> QED
  BY <1>1, <1>2, <1>3 DEF ImporterOK

LEMMA ReadKept ==
    ASSUME NEW V, NEW before, NEW S, NEW t, NEW N, NEW u, ReadAfter(V, before, S),
           StoreOK(S, t), StoreOK(N, u), Grows(S, N)
    PROVE  ReadAfter(V, before, N)
<1> SUFFICES ASSUME NEW m \in DOMAIN V
             PROVE  InStore(N, "state", m) /\ Older(V[m], StateIn(N, m))
  BY DEF ReadAfter
<1>1. m \in SourceMessages /\ InStore(S, "state", m) /\ StateShape(V[m]) /\ Older(V[m], StateIn(S, m))
  BY DEF ReadAfter
<1>2. InStore(N, "state", m)
  BY <1>1 DEF InStore, Grows
<1>3. StateShape(StateIn(S, m)) /\ StateShape(StateIn(N, m))
  BY <1>1, <1>2, StateOf
<1>4. Older(StateIn(S, m), StateIn(N, m))
  BY <1>1 DEF Grows
<1>5. Older(V[m], StateIn(N, m))
  BY <1>1, <1>3, <1>4, OlderTransitive DEF StateShape
<1> QED
  BY <1>2, <1>5

LEMMA BuilderKept ==
    ASSUME NEW j, NEW S, NEW t, NEW N, NEW u, NEW rows, BuilderOK(j, S, rows),
           StoreOK(S, t), StoreOK(N, u), Grows(S, N)
    PROVE  BuilderOK(j, N, rows)
<1>1. \A V, before : ReadAfter(V, before, S) => ReadAfter(V, before, N)
  BY ReadKept
<1>2. ListingOK(j, S) => ListingOK(j, N)
  BY <1>1 DEF ListingOK
<1> QED
  BY <1>1, <1>2 DEF BuilderOK

-----------------------------------------------------------------------------
(* A step of one process leaves what the others know.                       *)

LEMMA ImporterStep ==
    ASSUME IInv, NEW p \in Importers, NEW j, proc' = [proc EXCEPT ![p] = j], UNCHANGED file,
           ProcShape(j), ImporterOK(j, stored', space'),
           StoreOK(stored', touched'), Grows(stored, stored'),
           space = "private" => space' = "private"
    PROVE  IInv'
<1>1. DOMAIN proc' = Processes /\ proc'[p] = j /\ \A q \in Processes : q # p => proc'[q] = proc[q]
  BY DEF IInv, Processes
<1>2. \A q \in Processes : ProcShape(proc'[q])
  BY <1>1 DEF IInv
<1>3. \A q \in Importers : ImporterOK(proc'[q], stored', space')
  <2> SUFFICES ASSUME NEW q \in Importers, q # p PROVE ImporterOK(proc'[q], stored', space')
    BY <1>1
  <2>1. proc'[q] = proc[q] /\ ImporterOK(proc[q], stored, space)
    BY <1>1 DEF IInv, Processes
  <2>2. ImporterOK(proc[q], stored', space')
    BY <2>1, ImporterKept
  <2> QED
    BY <2>1, <2>2
<1>4. \A q \in Builders : BuilderOK(proc'[q], stored', file'[q])
  <2> SUFFICES ASSUME NEW q \in Builders PROVE BuilderOK(proc'[q], stored', file'[q])
    OBVIOUS
  <2>1. proc'[q] = proc[q] /\ file'[q] = file[q] /\ BuilderOK(proc[q], stored, file[q])
    BY <1>1, MigrationAssumption DEF IInv, Processes
  <2>2. StoreOK(stored, touched)
    BY DEF IInv
  <2>3. BuilderOK(proc[q], stored', file[q])
    BY <2>1, <2>2, BuilderKept
  <2> QED
    BY <2>1, <2>3
<1> QED
  BY <1>1, <1>2, <1>3, <1>4 DEF IInv

\* A step that changes nothing but the importer
LEMMA ImporterReads ==
    ASSUME IInv, NEW p \in Importers, NEW j, proc' = [proc EXCEPT ![p] = j],
           UNCHANGED <<space, stored, file, touched>>,
           ProcShape(j), ImporterOK(j, stored, space)
    PROVE  IInv'
<1>1. StoreOK(stored, touched)
  BY DEF IInv
<1>2. Grows(stored, stored)
  BY <1>1, GrowsSame
<1>3. StoreOK(stored', touched') /\ Grows(stored, stored') /\ ImporterOK(j, stored', space')
  BY <1>1, <1>2
<1> QED
  BY <1>3, ImporterStep

LEMMA BuilderStep ==
    ASSUME IInv, NEW p \in Builders, NEW j, proc' = [proc EXCEPT ![p] = j],
           UNCHANGED <<space, stored, touched>>,
           DOMAIN file' = Builders, \A q \in Builders : q # p => file'[q] = file[q],
           ProcShape(j), BuilderOK(j, stored, file'[p])
    PROVE  IInv'
<1>1. DOMAIN proc' = Processes /\ proc'[p] = j /\ \A q \in Processes : q # p => proc'[q] = proc[q]
  BY DEF IInv, Processes
<1>2. \A q \in Processes : ProcShape(proc'[q])
  BY <1>1 DEF IInv
<1>3. \A q \in Importers : ImporterOK(proc'[q], stored', space')
  BY <1>1, MigrationAssumption DEF IInv, Processes
<1>4. \A q \in Builders : BuilderOK(proc'[q], stored', file'[q])
  BY <1>1 DEF IInv, Processes
<1>5. StoreOK(stored', touched')
  BY DEF IInv
<1> QED
  BY <1>1, <1>2, <1>3, <1>4, <1>5 DEF IInv

LEMMA ClientStep ==
    ASSUME IInv, UNCHANGED <<space, proc, file>>, StoreOK(stored', touched'), Grows(stored, stored')
    PROVE  IInv'
<1>1. StoreOK(stored, touched)
  BY DEF IInv
<1>2. \A q \in Importers : ImporterOK(proc[q], stored', space)
  <2> SUFFICES ASSUME NEW q \in Importers PROVE ImporterOK(proc[q], stored', space)
    OBVIOUS
  <2>1. ImporterOK(proc[q], stored, space)
    BY DEF IInv
  <2> QED
    BY <2>1, ImporterKept
<1>3. \A q \in Builders : BuilderOK(proc[q], stored', file[q])
  <2> SUFFICES ASSUME NEW q \in Builders PROVE BuilderOK(proc[q], stored', file[q])
    OBVIOUS
  <2>1. BuilderOK(proc[q], stored, file[q])
    BY DEF IInv
  <2> QED
    BY <1>1, <2>1, BuilderKept
<1> QED
  BY <1>2, <1>3 DEF IInv

-----------------------------------------------------------------------------
(* The places an importer goes to.                                          *)

ImporterPlaces == AtFolders \cup AtMessages \cup AtVerification

\* Nowhere in the run, nothing to know
LEMMA OutsideOK ==
    ASSUME NEW j, NEW S, NEW sp, j.pc \notin ImporterPlaces
    PROVE  ImporterOK(j, S, sp)
BY DEF ImporterOK, ImporterPlaces

LEMMA EndShape ==
    ASSUME NEW label
    PROVE  ProcShape([NoProc EXCEPT !.pc = label]) /\ [NoProc EXCEPT !.pc = label].pc = label
BY DEF ProcShape, NoProc, NoList, ProcFields, ListFields

LEMMA EndImporter ==
    ASSUME NEW label, label \in {"failed", "spaces", "idle"}, NEW S, NEW sp
    PROVE  LET j == [NoProc EXCEPT !.pc = label] IN ProcShape(j) /\ ImporterOK(j, S, sp)
<1> DEFINE j == [NoProc EXCEPT !.pc = label]
<1>1. ProcShape(j) /\ j.pc = label
  BY EndShape
<1> HIDE DEF j
<1>2. j.pc \notin ImporterPlaces
  BY <1>1 DEF ImporterPlaces, AtFolders, AtMessages, AtUpload, AtVerification, AtListing
<1>3. ImporterOK(j, S, sp)
  BY <1>2, OutsideOK
<1> QED
  BY <1>1, <1>3 DEF j

\* Everything of the source is there
AllFolders(S) == \A f \in SourceFolders : FolderIs(S, f)
AllMessages(S) == \A m \in SourceMessages : InStore(S, "message", m)

LEMMA VerifyingOK ==
    ASSUME NEW j, NEW S, NEW sp, sp = "private", AllFolders(S), AllMessages(S),
           j.pc \in AtVerification
    PROVE  ImporterOK(j, S, sp)
BY DEF ImporterOK, AtVerification, AtListing, AtFolders, AtMessages, AtUpload, AllFolders, AllMessages

LEMMA ListShape == ASSUME NEW c PROVE DOMAIN ListOf(c) = ListFields
BY DEF ListOf, NoList, ListFields

LEMMA AtMessageOK ==
    ASSUME NEW j, NEW n, ProcShape(j), n \in Nat \ {0}, NEW S, NEW sp, sp = "private", AllFolders(S),
           \A i \in DOMAIN Messages : i < n => InStore(S, "message", Messages[i])
    PROVE  ProcShape(AtMessage(j, n)) /\ ImporterOK(AtMessage(j, n), S, sp)
<1> DEFINE k == AtMessage(j, n)
<1>0. Messages \in Seq(SourceMessages)
  BY MigrationAssumption
<1>1. CASE n <= Len(Messages)
  <2>1. k = [j EXCEPT !.pc = "message", !.n = n, !.k = 1]
    BY <1>1 DEF AtMessage
  <2>2. k.pc = "message" /\ k.n = n /\ k.k = 1 /\ k.list = j.list /\ DOMAIN k = DOMAIN j
    BY <2>1 DEF ProcShape, ProcFields
  <2> HIDE DEF k
  <2>3. n \in DOMAIN Messages
    BY <1>0, <1>1
  <2>4. ProcShape(k)
    BY <2>2 DEF ProcShape
  <2>5. PartsOK(k, S)
    BY <2>2 DEF PartsOK, AtUpload
  <2>6. ImporterOK(k, S, sp)
    BY <2>2, <2>3, <2>5
    DEF ImporterOK, AllFolders, AtFolders, AtMessages, AtUpload, AtVerification, AtListing
  <2> QED
    BY <2>4, <2>6 DEF k
<1>2. CASE ~(n <= Len(Messages))
  <2>1. k = [j EXCEPT !.pc = "page", !.n = 1, !.k = 1, !.list = ListOf("message")]
    BY <1>2 DEF AtMessage
  <2>2. k.pc = "page" /\ k.n = 1 /\ k.k = 1 /\ k.list = ListOf("message") /\ DOMAIN k = DOMAIN j
    BY <2>1 DEF ProcShape, ProcFields
  <2> HIDE DEF k
  <2>3. ProcShape(k)
    BY <2>2, ListShape DEF ProcShape
  <2>4. \A i \in DOMAIN Messages : i < n
    BY <1>0, <1>2
  <2>5. AllMessages(S)
    BY <2>4 DEF AllMessages, SourceMessages
  <2>6. k.pc \in AtVerification
    BY <2>2 DEF AtVerification, AtListing
  <2>7. ImporterOK(k, S, sp)
    BY <2>5, <2>6, VerifyingOK
  <2> QED
    BY <2>3, <2>7 DEF k
<1> QED
  BY <1>1, <1>2

LEMMA AtFolderOK ==
    ASSUME NEW j, NEW n, ProcShape(j), n \in Nat \ {0}, NEW S, NEW sp, sp = "private",
           \A i \in DOMAIN Folders : i < n => FolderIs(S, Folders[i])
    PROVE  ProcShape(AtFolder(j, n)) /\ ImporterOK(AtFolder(j, n), S, sp)
<1>0. Folders \in Seq(SourceFolders)
  BY MigrationAssumption
<1>1. CASE n <= Len(Folders)
  <2> DEFINE k == AtFolder(j, n)
  <2>1. k = [j EXCEPT !.pc = "folder", !.n = n]
    BY <1>1 DEF AtFolder
  <2>2. k.pc = "folder" /\ k.n = n /\ k.k = j.k /\ k.list = j.list /\ DOMAIN k = DOMAIN j
    BY <2>1 DEF ProcShape, ProcFields
  <2> HIDE DEF k
  <2>3. n \in DOMAIN Folders
    BY <1>0, <1>1
  <2>4. ProcShape(k)
    BY <2>2 DEF ProcShape
  <2>5. ImporterOK(k, S, sp)
    BY <2>2, <2>3 DEF ImporterOK, AtFolders, AtMessages, AtUpload, AtVerification, AtListing
  <2> QED
    BY <2>4, <2>5 DEF k
<1>2. CASE ~(n <= Len(Folders))
  <2>1. AtFolder(j, n) = AtMessage(j, 1)
    BY <1>2 DEF AtFolder
  <2>2. \A i \in DOMAIN Folders : i < n
    BY <1>0, <1>2
  <2>3. AllFolders(S)
    BY <2>2 DEF AllFolders, SourceFolders
  <2>4. \A i \in DOMAIN Messages : ~(i < 1)
    BY MigrationAssumption
  <2>5. ProcShape(AtMessage(j, 1)) /\ ImporterOK(AtMessage(j, 1), S, sp)
    BY <2>3, <2>4, AtMessageOK
  <2> QED
    BY <2>1, <2>5
<1> QED
  BY <1>1, <1>2

LEMMA AtVerifyOK ==
    ASSUME NEW j, NEW n, ProcShape(j), n \in Nat, NEW S, NEW sp, sp = "private",
           AllFolders(S), AllMessages(S)
    PROVE  ProcShape(AtVerify(j, n)) /\ ImporterOK(AtVerify(j, n), S, sp)
<1> DEFINE k == AtVerify(j, n)
<1>1. \/ k = [j EXCEPT !.pc = "verify", !.n = n]
      \/ k = [j EXCEPT !.pc = "page", !.n = 1, !.list = ListOf("folder")]
  BY DEF AtVerify
<1>2. /\ k.pc \in {"verify", "page"} /\ k.n \in Nat /\ k.k = j.k /\ DOMAIN k = DOMAIN j
      /\ k.list \in {j.list, ListOf("folder")}
  <2> HIDE DEF k
  <2>1. CASE k = [j EXCEPT !.pc = "verify", !.n = n]
    BY <2>1 DEF ProcShape, ProcFields
  <2>2. CASE k = [j EXCEPT !.pc = "page", !.n = 1, !.list = ListOf("folder")]
    BY <2>2 DEF ProcShape, ProcFields
  <2> QED
    BY <1>1, <2>1, <2>2
<1> HIDE DEF k
<1>3. ProcShape(k)
  BY <1>2, ListShape DEF ProcShape
<1>4. k.pc \in AtVerification
  BY <1>2 DEF AtVerification, AtListing
<1>5. ImporterOK(k, S, sp)
  BY <1>4, VerifyingOK
<1> QED
  BY <1>3, <1>5 DEF k

-----------------------------------------------------------------------------
(* The steps of an importer.                                                *)

LEMMA GotoFields ==
    ASSUME NEW j, ProcShape(j), NEW label
    PROVE  LET k == [j EXCEPT !.pc = label] IN
           /\ ProcShape(k) /\ k.pc = label /\ k.n = j.n /\ k.k = j.k
           /\ k.list = j.list /\ k.views = j.views
BY DEF ProcShape, ProcFields

LEMMA GotoIs ==
    ASSUME IInv, NEW p \in Processes, NEW label, Goto(p, label)
    PROVE  proc' = [proc EXCEPT ![p] = [proc[p] EXCEPT !.pc = label]]
BY DEF Goto

LEMMA ImporterGoto ==
    ASSUME IInv, NEW p \in Importers, NEW label, Goto(p, label),
           UNCHANGED <<space, stored, file, touched>>,
           ImporterOK([proc[p] EXCEPT !.pc = label], stored, space)
    PROVE  IInv'
<1>1. p \in Processes /\ ProcShape(proc[p])
  BY DEF IInv, Processes
<1>2. proc' = [proc EXCEPT ![p] = [proc[p] EXCEPT !.pc = label]]
  BY <1>1, GotoIs
<1>3. ProcShape([proc[p] EXCEPT !.pc = label])
  BY <1>1, GotoFields
<1> QED
  BY <1>2, <1>3, ImporterReads

LEMMA ImporterFails ==
    ASSUME IInv, NEW p \in Importers, End(p, "failed"), UNCHANGED <<space, stored, file, touched>>
    PROVE  IInv'
<1> DEFINE j == [NoProc EXCEPT !.pc = "failed"]
<1>1. proc' = [proc EXCEPT ![p] = j]
  BY DEF End
<1>2. ProcShape(j) /\ ImporterOK(j, stored, space)
  BY EndImporter
<1> HIDE DEF j
<1> QED
  BY <1>1, <1>2, ImporterReads

LEMMA ReadOnlyRest == ASSUME ReadOnly PROVE UNCHANGED <<space, stored, file, touched>>
BY DEF ReadOnly, Provider, Rest, providerVars

LEMMA BeginOK == ASSUME IInv, NEW p \in Importers, Begin(p) PROVE IInv'
<1> DEFINE j == [NoProc EXCEPT !.pc = "spaces"]
<1>1. proc' = [proc EXCEPT ![p] = j] /\ UNCHANGED <<space, stored, file, touched>>
  BY ReadOnlyRest DEF Begin
<1>2. ProcShape(j) /\ ImporterOK(j, stored, space)
  BY EndImporter
<1> HIDE DEF j
<1> QED
  BY <1>1, <1>2, ImporterReads

LEMMA OutsideGoto ==
    ASSUME NEW p \in Importers, IInv, NEW label, label \in {"createSpace", "verifySpace"}, NEW S, NEW sp
    PROVE  /\ ProcShape([proc[p] EXCEPT !.pc = label])
           /\ ImporterOK([proc[p] EXCEPT !.pc = label], S, sp)
<1> DEFINE j == [proc[p] EXCEPT !.pc = label]
<1>1. ProcShape(proc[p])
  BY DEF IInv, Processes
<1>2. ProcShape(j) /\ j.pc = label
  BY <1>1, GotoFields
<1> HIDE DEF j
<1>3. j.pc \notin ImporterPlaces
  BY <1>2 DEF ImporterPlaces, AtFolders, AtMessages, AtUpload, AtVerification, AtListing
<1>4. ImporterOK(j, S, sp)
  BY <1>3, OutsideOK
<1> QED
  BY <1>2, <1>4 DEF j

LEMMA ListSpacesOK == ASSUME IInv, NEW p \in Importers, ListSpaces(p) PROVE IInv'
<1>1. PICK label \in {"createSpace", "verifySpace"} : Goto(p, label)
  BY DEF ListSpaces
<1>2. UNCHANGED <<space, stored, file, touched>>
  BY ReadOnlyRest DEF ListSpaces
<1>3. ImporterOK([proc[p] EXCEPT !.pc = label], stored, space)
  BY OutsideGoto
<1> QED
  BY <1>1, <1>2, <1>3, ImporterGoto

LEMMA CreateSpaceOK == ASSUME IInv, NEW p \in Importers, CreateSpace(p) PROVE IInv'
<1>1. UNCHANGED <<stored, file, touched>> /\ (space = "private" => space' = "private")
  BY DEF CreateSpace
<1>2. StoreOK(stored, touched)
  BY DEF IInv
<1>3. StoreOK(stored', touched') /\ Grows(stored, stored')
  BY <1>1, <1>2, GrowsSame
<1>4. CASE Goto(p, "verifySpace")
  <2> DEFINE j == [proc[p] EXCEPT !.pc = "verifySpace"]
  <2>1. proc' = [proc EXCEPT ![p] = j]
    BY <1>4, GotoIs DEF Processes
  <2>2. ProcShape(j) /\ ImporterOK(j, stored', space')
    BY OutsideGoto
  <2> HIDE DEF j
  <2> QED
    BY <1>1, <1>3, <2>1, <2>2, ImporterStep
<1>5. CASE End(p, "failed")
  <2> DEFINE j == [NoProc EXCEPT !.pc = "failed"]
  <2>1. proc' = [proc EXCEPT ![p] = j]
    BY <1>5 DEF End
  <2>2. ProcShape(j) /\ ImporterOK(j, stored', space')
    BY EndImporter
  <2> HIDE DEF j
  <2> QED
    BY <1>1, <1>3, <2>1, <2>2, ImporterStep
<1> QED
  BY <1>4, <1>5 DEF CreateSpace, Lost

LEMMA VerifySpaceOK == ASSUME IInv, NEW p \in Importers, VerifySpace(p) PROVE IInv'
<1>1. UNCHANGED <<space, stored, file, touched>>
  BY ReadOnlyRest DEF VerifySpace
<1>2. CASE space = "private"
  <2> DEFINE j == AtFolder(proc[p], 1)
  <2>1. proc' = [proc EXCEPT ![p] = j]
    BY <1>2 DEF VerifySpace
  <2>2. ProcShape(proc[p]) /\ \A i \in DOMAIN Folders : ~(i < 1)
    BY MigrationAssumption DEF IInv, Processes
  <2>3. ProcShape(j) /\ ImporterOK(j, stored, space)
    BY <1>2, <2>2, AtFolderOK
  <2> HIDE DEF j
  <2> QED
    BY <1>1, <2>1, <2>3, ImporterReads
<1>3. CASE space # "private"
  BY <1>1, <1>3, ImporterFails DEF VerifySpace
<1> QED
  BY <1>2, <1>3

\* An importer at a folder
LEMMA AtFoldersFacts ==
    ASSUME IInv, NEW p \in Importers, proc[p].pc \in AtFolders
    PROVE  /\ p \in Processes /\ ProcShape(proc[p]) /\ proc[p].n \in Nat \ {0} /\ space = "private"
           /\ proc[p].n \in DOMAIN Folders /\ Folders[proc[p].n] \in SourceFolders
           /\ \A i \in DOMAIN Folders : i < proc[p].n => FolderIs(stored, Folders[i])
<1>1. p \in Processes /\ ProcShape(proc[p]) /\ ImporterOK(proc[p], stored, space)
  BY DEF IInv, Processes
<1>2. /\ space = "private" /\ proc[p].n \in DOMAIN Folders
      /\ \A i \in DOMAIN Folders : i < proc[p].n => FolderIs(stored, Folders[i])
  BY <1>1 DEF ImporterOK
<1>3. proc[p].n \in Nat \ {0}
  BY <1>2, MigrationAssumption
<1> QED
  BY <1>1, <1>2, <1>3 DEF SourceFolders

\* The next folder, once this one is there
LEMMA NextFolderOK ==
    ASSUME NEW j, NEW S, NEW sp, ProcShape(j), j.n \in Nat \ {0}, sp = "private",
           \A i \in DOMAIN Folders : i < j.n => FolderIs(S, Folders[i]),
           j.n \in DOMAIN Folders, FolderIs(S, Folders[j.n])
    PROVE  ProcShape(AtFolder(j, j.n + 1)) /\ ImporterOK(AtFolder(j, j.n + 1), S, sp)
<1>1. \A i \in DOMAIN Folders : i < j.n + 1 => i < j.n \/ i = j.n
  BY MigrationAssumption
<1>2. \A i \in DOMAIN Folders : i < j.n + 1 => FolderIs(S, Folders[i])
  BY <1>1
<1>3. j.n + 1 \in Nat \ {0}
  OBVIOUS
<1> QED
  BY <1>2, <1>3, AtFolderOK

LEMMA FolderHeldOK ==
    ASSUME IInv, NEW p \in Importers, proc[p].pc \in AtFolders,
           Has(<<"folder", Folders[proc[p].n]>>), FolderHeld(p),
           UNCHANGED <<space, stored, file, touched>>
    PROVE  IInv'
<1>1. CASE stored[<<"folder", Folders[proc[p].n]>>] = Folder(Folders[proc[p].n])
  <2> DEFINE j == AtFolder(proc[p], proc[p].n + 1)
  <2>1. proc' = [proc EXCEPT ![p] = j]
    BY <1>1 DEF FolderHeld, NextFolder
  <2>2. FolderIs(stored, Folders[proc[p].n])
    BY <1>1 DEF FolderIs, InStore, Has
  <2>3. ProcShape(j) /\ ImporterOK(j, stored, space)
    BY <2>2, AtFoldersFacts, NextFolderOK
  <2> HIDE DEF j
  <2> QED
    BY <2>1, <2>3, ImporterReads
<1>2. CASE stored[<<"folder", Folders[proc[p].n]>>] # Folder(Folders[proc[p].n])
  BY <1>2, ImporterFails DEF FolderHeld
<1> QED
  BY <1>1, <1>2

LEMMA GetFolderOK == ASSUME IInv, NEW p \in Importers, GetFolder(p) PROVE IInv'
<1>1. UNCHANGED <<space, stored, file, touched>> /\ proc[p].pc \in AtFolders
  BY ReadOnlyRest DEF GetFolder, AtFolders
<1>2. CASE Has(<<"folder", Folders[proc[p].n]>>)
  BY <1>1, <1>2, FolderHeldOK DEF GetFolder
<1>3. CASE ~Has(<<"folder", Folders[proc[p].n]>>)
  <2> DEFINE j == [proc[p] EXCEPT !.pc = "newFolder"]
  <2>1. Goto(p, "newFolder")
    BY <1>3 DEF GetFolder
  <2>2. j.pc = "newFolder" /\ j.n = proc[p].n
    BY <1>1, AtFoldersFacts, GotoFields
  <2>3. ImporterOK(j, stored, space)
    <3> HIDE DEF j
    <3> QED
      BY <1>1, <2>2, AtFoldersFacts
      DEF ImporterOK, AtFolders, AtMessages, AtUpload, AtVerification, AtListing
  <2> QED
    BY <1>1, <2>1, <2>3, ImporterGoto
<1> QED
  BY <1>2, <1>3

\* Create adds its records to those that are there
LEMMA Created ==
    ASSUME NEW writes, CanCreate(writes), Create(writes)
    PROVE  /\ DOMAIN stored' = DOMAIN stored \cup DOMAIN writes
           /\ \A a \in DOMAIN writes : a \notin DOMAIN stored /\ stored'[a] = writes[a]
           /\ \A a \in DOMAIN stored : stored'[a] = stored[a]
BY DEF CanCreate, Create, Has

\* A folder is added
LEMMA FolderAdded ==
    ASSUME IInv, NEW f \in SourceFolders, NEW v,
           CanCreate([a \in {<<"folder", f>>} |-> v]), Create([a \in {<<"folder", f>>} |-> v])
    PROVE  /\ StoreOK(stored', touched) /\ Grows(stored, stored')
           /\ InStore(stored', "folder", f) /\ stored'[<<"folder", f>>] = v
<1> DEFINE writes == [a \in {<<"folder", f>>} |-> v]
<1>1. DOMAIN writes = {<<"folder", f>>} /\ writes[<<"folder", f>>] = v
  OBVIOUS
<1>2. /\ DOMAIN stored' = DOMAIN stored \cup {<<"folder", f>>}
      /\ <<"folder", f>> \notin DOMAIN stored /\ stored'[<<"folder", f>>] = v
      /\ \A a \in DOMAIN stored : stored'[a] = stored[a]
  <2> HIDE DEF writes
  <2>1. CanCreate(writes) /\ Create(writes)
    BY DEF writes
  <2> QED
    BY <1>1, <2>1, Created
<1>3. <<"folder", f>> \in Addresses
  BY DEF Addresses
<1>4. StoreOK(stored, touched)
  BY DEF IInv
<1>5. StoreOK(stored', touched) /\ Grows(stored, stored')
  <2>1. PICK a : a = <<"folder", f>>
    OBVIOUS
  <2>2. a \in Addresses /\ a \notin DOMAIN stored /\ a[1] \notin {"message", "state"}
    BY <1>2, <1>3, <2>1
  <2>3. \A b \in Bodies : a # <<"index", b>>
    BY <2>1
  <2>4. DOMAIN stored' = DOMAIN stored \cup {a}
    BY <1>2, <2>1
  <2> QED
    BY <1>2, <1>4, <2>2, <2>3, <2>4, AddPlain
<1> QED
  BY <1>2, <1>5 DEF InStore

LEMMA CreateFolderOK == ASSUME IInv, NEW p \in Importers, CreateFolder(p) PROVE IInv'
<1> DEFINE f == Folders[proc[p].n]
           writes == [a \in {<<"folder", f>>} |-> Folder(f)]
<1>1. UNCHANGED <<space, file, touched>> /\ proc[p].pc \in AtFolders
  BY DEF CreateFolder, Written, AtFolders
<1>2. /\ p \in Processes /\ ProcShape(proc[p]) /\ proc[p].n \in Nat \ {0} /\ space = "private"
      /\ proc[p].n \in DOMAIN Folders /\ f \in SourceFolders
  BY <1>1, AtFoldersFacts
<1>3. CASE CanCreate(writes) /\ Create(writes) /\ (NextFolder(p) \/ End(p, "failed"))
  <2>1. /\ StoreOK(stored', touched) /\ Grows(stored, stored')
        /\ InStore(stored', "folder", f) /\ stored'[<<"folder", f>>] = Folder(f)
    BY <1>2, <1>3, FolderAdded
  <2>2. FolderIs(stored', f)
    BY <2>1 DEF FolderIs
  <2>3. \A i \in DOMAIN Folders : i < proc[p].n => FolderIs(stored', Folders[i])
    <3>1. \A g : FolderIs(stored, g) => FolderIs(stored', g)
      BY <2>1 DEF FolderIs, InStore, Grows
    <3> QED
      BY <1>1, <3>1, AtFoldersFacts
  <2>4. StoreOK(stored', touched') /\ space' = "private"
    BY <1>1, <1>2, <2>1
  <2>5. CASE NextFolder(p)
    <3> DEFINE j == AtFolder(proc[p], proc[p].n + 1)
    <3>1. proc' = [proc EXCEPT ![p] = j]
      BY <2>5 DEF NextFolder
    <3>2. ProcShape(j) /\ ImporterOK(j, stored', space')
      BY <1>2, <2>2, <2>3, <2>4, NextFolderOK
    <3> HIDE DEF j
    <3> QED
      BY <1>1, <2>1, <2>4, <3>1, <3>2, ImporterStep
  <2>6. CASE End(p, "failed")
    <3> DEFINE j == [NoProc EXCEPT !.pc = "failed"]
    <3>1. proc' = [proc EXCEPT ![p] = j]
      BY <2>6 DEF End
    <3>2. ProcShape(j) /\ ImporterOK(j, stored', space')
      BY EndImporter
    <3> HIDE DEF j
    <3> QED
      BY <1>1, <2>1, <2>4, <3>1, <3>2, ImporterStep
  <2> QED
    BY <1>3, <2>5, <2>6
<1>4. CASE ~CanCreate(writes) /\ (FolderHeld(p) \/ End(p, "failed")) /\ UNCHANGED stored
  <2>1. Has(<<"folder", f>>)
    BY <1>4 DEF CanCreate
  <2>2. CASE FolderHeld(p)
    BY <1>1, <1>4, <2>1, <2>2, FolderHeldOK
  <2>3. CASE End(p, "failed")
    BY <1>1, <1>4, <2>3, ImporterFails
  <2> QED
    BY <1>4, <2>2, <2>3
<1> QED
  BY <1>3, <1>4 DEF CreateFolder, Lost

\* An importer at a message
LEMMA AtMessagesFacts ==
    ASSUME IInv, NEW p \in Importers, proc[p].pc \in AtMessages
    PROVE  /\ p \in Processes /\ ProcShape(proc[p]) /\ proc[p].n \in Nat \ {0} /\ proc[p].k \in Nat
           /\ space = "private" /\ AllFolders(stored)
           /\ proc[p].n \in DOMAIN Messages /\ Now(p) = Messages[proc[p].n] /\ Now(p) \in SourceMessages
           /\ Source[Now(p)].body \in Bodies /\ Plan(p) = UploadPlan(Source[Now(p)].body)
           /\ \A i \in DOMAIN Messages : i < proc[p].n => InStore(stored, "message", Messages[i])
           /\ PartsOK(proc[p], stored)
<1>1. p \in Processes /\ ProcShape(proc[p]) /\ ImporterOK(proc[p], stored, space)
  BY DEF IInv, Processes
<1>2. /\ space = "private" /\ AllFolders(stored) /\ proc[p].n \in DOMAIN Messages
      /\ \A i \in DOMAIN Messages : i < proc[p].n => InStore(stored, "message", Messages[i])
      /\ PartsOK(proc[p], stored)
  BY <1>1 DEF ImporterOK, AllFolders
<1>3. proc[p].n \in Nat \ {0} /\ proc[p].k \in Nat
  BY <1>1, <1>2, MigrationAssumption DEF ProcShape
<1>4. Now(p) = Messages[proc[p].n] /\ Now(p) \in SourceMessages
  BY <1>2 DEF Now, SourceMessages
<1>5. Source[Now(p)].body \in Bodies /\ Plan(p) = UploadPlan(Source[Now(p)].body)
  BY <1>4, MigrationAssumption DEF Plan, Message
<1> QED
  BY <1>1, <1>2, <1>3, <1>4, <1>5

LEMMA MessagePlaceOK ==
    ASSUME NEW j, NEW S, NEW sp, sp = "private", AllFolders(S), j.pc \in AtMessages,
           j.n \in DOMAIN Messages, PartsOK(j, S),
           \A i \in DOMAIN Messages : i < j.n => InStore(S, "message", Messages[i])
    PROVE  ImporterOK(j, S, sp)
BY DEF ImporterOK, AllFolders, AtFolders, AtMessages, AtUpload, AtVerification, AtListing

LEMMA MessageGoto ==
    ASSUME IInv, NEW p \in Importers, proc[p].pc \in AtMessages, NEW label, label \in AtMessages,
           Goto(p, label), UNCHANGED <<space, stored, file, touched>>,
           PartsOK([proc[p] EXCEPT !.pc = label], stored)
    PROVE  IInv'
<1> DEFINE j == [proc[p] EXCEPT !.pc = label]
<1>1. j.pc = label /\ j.n = proc[p].n
  BY AtMessagesFacts, GotoFields
<1>2. ImporterOK(j, stored, space)
  <2>1. PartsOK(j, stored)
    OBVIOUS
  <2> HIDE DEF j
  <2> QED
    BY <1>1, <2>1, AtMessagesFacts, MessagePlaceOK
<1> QED
  BY <1>2, ImporterGoto

\* The next message, once this one is there
LEMMA NextMessageOK ==
    ASSUME NEW j, NEW S, NEW sp, ProcShape(j), j.n \in Nat \ {0}, sp = "private", AllFolders(S),
           \A i \in DOMAIN Messages : i < j.n => InStore(S, "message", Messages[i]),
           j.n \in DOMAIN Messages, InStore(S, "message", Messages[j.n])
    PROVE  ProcShape(AtMessage(j, j.n + 1)) /\ ImporterOK(AtMessage(j, j.n + 1), S, sp)
<1>1. \A i \in DOMAIN Messages : i < j.n + 1 => i < j.n \/ i = j.n
  BY MigrationAssumption
<1>2. \A i \in DOMAIN Messages : i < j.n + 1 => InStore(S, "message", Messages[i])
  BY <1>1
<1>3. j.n + 1 \in Nat \ {0}
  OBVIOUS
<1> QED
  BY <1>2, <1>3, AtMessageOK

LEMMA GetMessageOK == ASSUME IInv, NEW p \in Importers, GetMessage(p) PROVE IInv'
<1>1. UNCHANGED <<space, stored, file, touched>> /\ proc[p].pc = "message"
  BY ReadOnlyRest DEF GetMessage
<1>2. proc[p].pc \in AtMessages
  BY <1>1 DEF AtMessages
<1>3. PICK label \in {"check", "orphan"} : Goto(p, label)
  BY DEF GetMessage
<1>4. PartsOK([proc[p] EXCEPT !.pc = label], stored)
  <2> DEFINE j == [proc[p] EXCEPT !.pc = label]
  <2>1. j.pc = label /\ j.n = proc[p].n /\ j.k = proc[p].k
    BY <1>2, AtMessagesFacts, GotoFields
  <2>2. proc[p].k = 1
    BY <1>1, <1>2, AtMessagesFacts DEF PartsOK
  <2> HIDE DEF j
  <2>3. PartsOK(j, stored)
    BY <2>1, <2>2 DEF PartsOK, AtUpload
  <2> QED
    BY <2>3 DEF j
<1> QED
  BY <1>1, <1>2, <1>3, <1>4, MessageGoto DEF AtMessages

\* A body has at least its manifest and its index
LEMMA PlanBegins ==
    ASSUME NEW b \in Bodies
    PROVE  /\ UploadPlan(b) \in Seq(Addresses) /\ Len(UploadPlan(b)) \in Nat
           /\ DOMAIN UploadPlan(b) = 1 .. Len(UploadPlan(b)) /\ 1 \in DOMAIN UploadPlan(b)
<1>1. /\ Chunks[b] \in Seq(ChunkKeys) /\ UploadPlan(b) \in Seq(Addresses)
      /\ Len(UploadPlan(b)) = Len(Chunks[b]) + 2
  BY PlanParts
<1>2. Len(Chunks[b]) \in Nat /\ DOMAIN UploadPlan(b) = 1 .. Len(UploadPlan(b))
  BY <1>1
<1> QED
  BY <1>1, <1>2

LEMMA GetOrphanOK == ASSUME IInv, NEW p \in Importers, GetOrphan(p) PROVE IInv'
<1>1. UNCHANGED <<space, stored, file, touched>> /\ proc[p].pc = "orphan"
  BY ReadOnlyRest DEF GetOrphan
<1>2. proc[p].pc \in AtMessages
  BY <1>1 DEF AtMessages
<1>3. CASE Goto(p, "get")
  <2> DEFINE j == [proc[p] EXCEPT !.pc = "get"]
  <2>1. j.pc = "get" /\ j.n = proc[p].n /\ j.k = proc[p].k
    BY <1>2, AtMessagesFacts, GotoFields
  <2>2. proc[p].k = 1
    BY <1>1, <1>2, AtMessagesFacts DEF PartsOK
  <2>3. /\ Source[Messages[proc[p].n]].body \in Bodies
        /\ 1 \in DOMAIN UploadPlan(Source[Messages[proc[p].n]].body)
        /\ \A i \in DOMAIN UploadPlan(Source[Messages[proc[p].n]].body) : ~(i < 1)
    <3>1. PICK b \in Bodies : b = Source[Messages[proc[p].n]].body
      BY <1>2, AtMessagesFacts
    <3>2. 1 \in DOMAIN UploadPlan(b) /\ \A i \in DOMAIN UploadPlan(b) : ~(i < 1)
      BY PlanBegins
    <3> QED
      BY <3>1, <3>2
  <2>4. PartsOK(j, stored)
    <3> HIDE DEF j
    <3> QED
      BY <2>1, <2>2, <2>3 DEF PartsOK
  <2> QED
    BY <1>1, <1>2, <1>3, <2>4, MessageGoto DEF AtMessages, AtUpload
<1>4. CASE End(p, "failed")
  BY <1>1, <1>4, ImporterFails
<1> QED
  BY <1>3, <1>4 DEF GetOrphan

\* The parts before k and part k are there: on to the next, or to the pair
LEMMA NextPartOK ==
    ASSUME NEW j, NEW S, NEW sp, ProcShape(j), sp = "private", AllFolders(S),
           j.n \in DOMAIN Messages, Source[Messages[j.n]].body \in Bodies,
           \A i \in DOMAIN Messages : i < j.n => InStore(S, "message", Messages[i]),
           j.pc \in {"get", "put"}, PartsOK(j, S),
           UploadPlan(Source[Messages[j.n]].body)[j.k] \in DOMAIN S,
           NEW label, label = IF j.k < Len(UploadPlan(Source[Messages[j.n]].body)) THEN "get" ELSE "pair"
    PROVE  LET next == [j EXCEPT !.k = @ + 1, !.pc = label] IN
           ProcShape(next) /\ ImporterOK(next, S, sp)
<1> DEFINE next == [j EXCEPT !.k = @ + 1, !.pc = label]
           plan == UploadPlan(Source[Messages[j.n]].body)
<1>1. /\ next.k = j.k + 1 /\ next.pc = label /\ next.n = j.n /\ next.list = j.list
      /\ DOMAIN next = DOMAIN j /\ j.k \in Nat
  BY DEF ProcShape, ProcFields
<1>2. Len(plan) \in Nat /\ DOMAIN plan = 1 .. Len(plan)
  BY PlanBegins
<1>3. j.k \in DOMAIN plan /\ \A i \in DOMAIN plan : i < j.k => plan[i] \in DOMAIN S
  BY DEF PartsOK, AtUpload
<1> HIDE DEF next, plan
<1>4. \A i \in DOMAIN plan : i < j.k + 1 => plan[i] \in DOMAIN S
  <2>1. \A i \in DOMAIN plan : i < j.k + 1 => i < j.k \/ i = j.k
    BY <1>1, <1>2
  <2>2. plan[j.k] \in DOMAIN S
    BY DEF plan
  <2> QED
    BY <1>3, <2>1, <2>2
<1>5. label = "get" => j.k + 1 \in DOMAIN plan
  BY <1>1, <1>2, <1>3 DEF plan
<1>6. label = "pair" => j.k + 1 > Len(plan)
  BY <1>1, <1>2, <1>3 DEF plan
<1>7. label \in {"get", "pair"}
  OBVIOUS
<1>8. PartsOK(next, S)
  <2>1. UploadPlan(Source[Messages[next.n]].body) = plan
    BY <1>1 DEF plan
  <2> QED
    BY <1>1, <1>4, <1>5, <1>6, <1>7, <2>1 DEF PartsOK, AtUpload
<1>9. ProcShape(next)
  BY <1>1 DEF ProcShape
<1>10. next.pc \in AtMessages
  BY <1>1, <1>7 DEF AtMessages, AtUpload
<1>11. ImporterOK(next, S, sp)
  BY <1>1, <1>8, <1>10, MessagePlaceOK
<1> QED
  BY <1>9, <1>11 DEF next

LEMMA NextPartIs ==
    ASSUME IInv, NEW p \in Importers, proc[p].pc \in AtMessages, NextPart(p)
    PROVE  proc' = [proc EXCEPT ![p] =
                [proc[p] EXCEPT !.k = @ + 1, !.pc =
                    IF proc[p].k < Len(UploadPlan(Source[Messages[proc[p].n]].body)) THEN "get" ELSE "pair"]]
<1>1. Plan(p) = UploadPlan(Source[Messages[proc[p].n]].body)
  BY AtMessagesFacts
<1>2. p \in DOMAIN proc /\ DOMAIN proc[p] = ProcFields
  BY AtMessagesFacts DEF IInv, ProcShape
<1> QED
  BY <1>1, <1>2 DEF NextPart, ProcFields

\* A step to the next part, with this one in the records
LEMMA PartStep ==
    ASSUME IInv, NEW p \in Importers, proc[p].pc \in {"get", "put"}, NextPart(p),
           UNCHANGED <<space, file, touched>>, StoreOK(stored', touched), Grows(stored, stored'),
           Plan(p)[proc[p].k] \in DOMAIN stored'
    PROVE  IInv'
<1>1. proc[p].pc \in AtMessages
  BY DEF AtMessages, AtUpload
<1>2. PICK j, N, sp, label :
        /\ j = proc[p] /\ N = stored' /\ sp = space
        /\ label = IF j.k < Len(UploadPlan(Source[Messages[j.n]].body)) THEN "get" ELSE "pair"
  OBVIOUS
<1> DEFINE next == [j EXCEPT !.k = @ + 1, !.pc = label]
<1>3. proc' = [proc EXCEPT ![p] = next]
  BY <1>1, <1>2, NextPartIs
<1>4. /\ ProcShape(j) /\ sp = "private" /\ j.n \in DOMAIN Messages /\ j.pc \in {"get", "put"}
      /\ Source[Messages[j.n]].body \in Bodies /\ UploadPlan(Source[Messages[j.n]].body)[j.k] \in DOMAIN N
  BY <1>1, <1>2, AtMessagesFacts
<1>5. Grows(stored, N)
  BY <1>2
<1>6. AllFolders(N) /\ PartsOK(j, N)
      /\ \A i \in DOMAIN Messages : i < j.n => InStore(N, "message", Messages[i])
  <2>1. \A g : FolderIs(stored, g) => FolderIs(N, g)
    BY <1>5 DEF FolderIs, InStore, Grows
  <2>2. \A m : InStore(stored, "message", m) => InStore(N, "message", m)
    BY <1>5 DEF InStore, Grows
  <2>3. PartsOK(j, stored) => PartsOK(j, N)
    BY <1>5 DEF PartsOK, Grows
  <2> QED
    BY <1>1, <1>2, <2>1, <2>2, <2>3, AtMessagesFacts DEF AllFolders
<1>7. ProcShape(next) /\ ImporterOK(next, N, sp)
  BY <1>2, <1>4, <1>6, NextPartOK
<1> HIDE DEF next
<1>8. ImporterOK(next, stored', space') /\ StoreOK(stored', touched')
  BY <1>2, <1>7
<1> QED
  BY <1>3, <1>7, <1>8, ImporterStep

LEMMA GetPartOK == ASSUME IInv, NEW p \in Importers, GetPart(p) PROVE IInv'
<1> DEFINE a == Plan(p)[proc[p].k]
<1>1. UNCHANGED <<space, stored, file, touched>> /\ proc[p].pc = "get"
  BY ReadOnlyRest DEF GetPart
<1>2. proc[p].pc \in AtMessages
  BY <1>1 DEF AtMessages, AtUpload
<1>3. CASE Goto(p, "put")
  <2> DEFINE j == [proc[p] EXCEPT !.pc = "put"]
  <2>1. j.pc = "put" /\ j.n = proc[p].n /\ j.k = proc[p].k
    BY <1>2, AtMessagesFacts, GotoFields
  <2>2. PartsOK(proc[p], stored)
    BY <1>2, AtMessagesFacts
  <2>3. PartsOK(j, stored)
    <3> HIDE DEF j
    <3> QED
      BY <1>1, <2>1, <2>2 DEF PartsOK, AtUpload
  <2> QED
    BY <1>1, <1>2, <1>3, <2>3, MessageGoto DEF AtMessages, AtUpload
<1>4. CASE Has(a) /\ NextPart(p)
  <2>1. StoreOK(stored, touched)
    BY DEF IInv
  <2>2. StoreOK(stored', touched) /\ Grows(stored, stored') /\ a \in DOMAIN stored'
    BY <1>1, <1>4, <2>1, GrowsSame DEF Has
  <2> QED
    BY <1>1, <1>4, <2>2, PartStep
<1>5. CASE End(p, "failed")
  BY <1>1, <1>5, ImporterFails
<1> QED
  BY <1>3, <1>4, <1>5 DEF GetPart

\* The index is the last part, and it names its own body
LEMMA PlanKinds ==
    ASSUME NEW b \in Bodies, NEW i \in DOMAIN UploadPlan(b)
    PROVE  /\ UploadPlan(b)[i] \in Addresses /\ UploadPlan(b)[i][1] \notin {"message", "state"}
           /\ \A c \in Bodies : UploadPlan(b)[i] = <<"index", c>> => c = b /\ i = Len(UploadPlan(b))
<1> DEFINE plan == UploadPlan(b)
<1>1. /\ Chunks[b] \in Seq(ChunkKeys) /\ plan \in Seq(Addresses) /\ Len(plan) = Len(Chunks[b]) + 2
      /\ \A x \in DOMAIN Chunks[b] : plan[x] = <<"chunk", Chunks[b][x]>>
      /\ plan[Len(Chunks[b]) + 1] = <<"manifest", b>> /\ plan[Len(Chunks[b]) + 2] = <<"index", b>>
  BY PlanParts
<1>2. PICK n \in Nat : n = Len(Chunks[b])
  BY <1>1
<1>3. DOMAIN Chunks[b] = 1 .. n /\ DOMAIN plan = 1 .. n + 2
  BY <1>1, <1>2
<1>4. i \in 1 .. n \/ i = n + 1 \/ i = n + 2
  BY <1>3
<1>5. plan[i] \in Addresses
  BY <1>1
<1> HIDE DEF plan
<1>6. CASE i \in 1 .. n
  <2>1. plan[i] = <<"chunk", Chunks[b][i]>>
    BY <1>1, <1>3, <1>6
  <2> QED
    BY <1>5, <2>1 DEF plan
<1>7. CASE i = n + 1
  <2>1. plan[i] = <<"manifest", b>>
    BY <1>1, <1>2, <1>7
  <2> QED
    BY <1>5, <2>1 DEF plan
<1>8. CASE i = n + 2
  <2>1. plan[i] = <<"index", b>> /\ i = Len(plan)
    BY <1>1, <1>2, <1>8
  <2> QED
    BY <1>5, <2>1 DEF plan
<1> QED
  BY <1>4, <1>6, <1>7, <1>8

\* A part is added, the index only to a body that is there
LEMMA PartAdded ==
    ASSUME IInv, NEW p \in Importers, proc[p].pc = "put", NEW v,
           CanCreate([x \in {Plan(p)[proc[p].k]} |-> v]), Create([x \in {Plan(p)[proc[p].k]} |-> v])
    PROVE  StoreOK(stored', touched) /\ Grows(stored, stored') /\ Plan(p)[proc[p].k] \in DOMAIN stored'
<1>1. proc[p].pc \in AtMessages
  BY DEF AtMessages, AtUpload
<1>2. PICK b, k, a : /\ b \in Bodies /\ b = Source[Messages[proc[p].n]].body /\ k = proc[p].k
                     /\ Plan(p) = UploadPlan(b) /\ a = UploadPlan(b)[k]
  BY <1>1, AtMessagesFacts
<1>3. k \in DOMAIN UploadPlan(b) /\ \A i \in DOMAIN UploadPlan(b) : i < k => UploadPlan(b)[i] \in DOMAIN stored
  BY <1>1, <1>2, AtMessagesFacts DEF PartsOK, AtUpload
<1> DEFINE writes == [x \in {a} |-> v]
<1>4. DOMAIN writes = {a}
  OBVIOUS
<1>5. /\ DOMAIN stored' = DOMAIN stored \cup {a} /\ a \notin DOMAIN stored
      /\ \A x \in DOMAIN stored : stored'[x] = stored[x]
  <2>1. CanCreate(writes) /\ Create(writes)
    BY <1>2
  <2> HIDE DEF writes
  <2> QED
    BY <1>4, <2>1, Created
<1>6. /\ a \in Addresses /\ a[1] \notin {"message", "state"}
      /\ \A c \in Bodies : a = <<"index", c>> => c = b /\ k = Len(UploadPlan(b))
  BY <1>2, <1>3, PlanKinds
<1>7. \A c \in Bodies : a = <<"index", c>> =>
        \A i \in DOMAIN UploadPlan(c) : UploadPlan(c)[i] \in DOMAIN stored \cup {a}
  <2> SUFFICES ASSUME NEW c \in Bodies, a = <<"index", c>>, NEW i \in DOMAIN UploadPlan(c)
               PROVE  UploadPlan(c)[i] \in DOMAIN stored \cup {a}
    OBVIOUS
  <2>1. c = b /\ k = Len(UploadPlan(b))
    BY <1>6
  <2>2. i < k \/ i = k
    BY <2>1, PlanBegins
  <2> QED
    BY <1>2, <1>3, <2>1, <2>2
<1>8. StoreOK(stored, touched)
  BY DEF IInv
<1>9. StoreOK(stored', touched) /\ Grows(stored, stored')
  <2>1. PICK S, t, N : S = stored /\ t = touched /\ N = stored'
    OBVIOUS
  <2>2. /\ StoreOK(S, t) /\ a \in Addresses /\ a \notin DOMAIN S /\ a[1] \notin {"message", "state"}
        /\ \A c \in Bodies : a = <<"index", c>> =>
                \A i \in DOMAIN UploadPlan(c) : UploadPlan(c)[i] \in DOMAIN S \cup {a}
        /\ DOMAIN N = DOMAIN S \cup {a} /\ \A x \in DOMAIN S : N[x] = S[x]
    BY <1>5, <1>6, <1>7, <1>8, <2>1
  <2>3. StoreOK(N, t) /\ Grows(S, N)
    BY <2>2, AddPlain
  <2> QED
    BY <2>1, <2>3
<1> QED
  BY <1>2, <1>5, <1>9

\* A failure after the records grew
LEMMA ImporterFailsAfter ==
    ASSUME IInv, NEW p \in Importers, End(p, "failed"), UNCHANGED <<space, file, touched>>,
           StoreOK(stored', touched), Grows(stored, stored')
    PROVE  IInv'
<1> DEFINE j == [NoProc EXCEPT !.pc = "failed"]
<1>1. proc' = [proc EXCEPT ![p] = j]
  BY DEF End
<1>2. ProcShape(j) /\ ImporterOK(j, stored', space')
  BY EndImporter
<1> HIDE DEF j
<1>3. StoreOK(stored', touched')
  OBVIOUS
<1> QED
  BY <1>1, <1>2, <1>3, ImporterStep

LEMMA PutPartOK == ASSUME IInv, NEW p \in Importers, PutPart(p) PROVE IInv'
<1> DEFINE a == Plan(p)[proc[p].k]
           writes == [x \in {a} |-> Part(a)]
<1>1. UNCHANGED <<space, file, touched>> /\ proc[p].pc = "put"
  BY DEF PutPart, Written
<1>2. CASE CanCreate(writes) /\ Create(writes) /\ (NextPart(p) \/ End(p, "failed"))
  <2>1. StoreOK(stored', touched) /\ Grows(stored, stored') /\ a \in DOMAIN stored'
    BY <1>1, <1>2, PartAdded
  <2> QED
    BY <1>1, <1>2, <2>1, PartStep, ImporterFailsAfter
<1>3. CASE ~CanCreate(writes) /\ (NextPart(p) \/ End(p, "failed")) /\ UNCHANGED stored
  <2>1. StoreOK(stored, touched) /\ a \in DOMAIN stored
    BY <1>3 DEF IInv, CanCreate, Has
  <2>2. StoreOK(stored', touched) /\ Grows(stored, stored') /\ a \in DOMAIN stored'
    BY <1>3, <2>1, GrowsSame
  <2> QED
    BY <1>1, <1>3, <2>2, PartStep, ImporterFailsAfter
<1> QED
  BY <1>2, <1>3 DEF PutPart, Lost

LEMMA PairIs ==
    ASSUME NEW m
    PROVE  /\ DOMAIN Pair(m) = {<<"message", m>>, <<"state", m>>}
           /\ Pair(m)[<<"message", m>>] = Message(m) /\ Pair(m)[<<"state", m>>] = State(m)
BY DEF Pair

\* The pair is added to a body that is there
LEMMA PairAdded ==
    ASSUME IInv, NEW p \in Importers, proc[p].pc = "pair", NEW m, m = Now(p),
           CanCreate(Pair(m)), Create(Pair(m))
    PROVE  /\ m \in SourceMessages /\ ~InStore(stored, "message", m) /\ ~InStore(stored, "state", m)
           /\ StoreOK(stored', touched) /\ Grows(stored, stored') /\ InStore(stored', "message", m)
           /\ DOMAIN stored' = DOMAIN stored \cup {<<"message", m>>, <<"state", m>>}
           /\ stored'[<<"state", m>>] = State(m)
           /\ \A x \in DOMAIN stored : stored'[x] = stored[x]
<1>1. proc[p].pc \in AtMessages
  BY DEF AtMessages, AtUpload
<1>2. PICK w : w = Pair(m) /\ DOMAIN w = {<<"message", m>>, <<"state", m>>}
               /\ w[<<"message", m>>] = Message(m) /\ w[<<"state", m>>] = State(m)
  BY PairIs
<1>3. /\ DOMAIN stored' = DOMAIN stored \cup {<<"message", m>>, <<"state", m>>}
      /\ stored'[<<"message", m>>] = Message(m) /\ stored'[<<"state", m>>] = State(m)
      /\ <<"message", m>> \notin DOMAIN stored /\ <<"state", m>> \notin DOMAIN stored
      /\ \A x \in DOMAIN stored : stored'[x] = stored[x]
  <2>1. CanCreate(w) /\ Create(w)
    BY <1>2
  <2> QED
    BY <1>2, <2>1, Created
<1>4. m \in SourceMessages /\ StoreOK(stored, touched)
  BY <1>1, AtMessagesFacts DEF IInv
<1>5. PlanIn(stored, Source[m].body)
  <2>1. PICK b \in Bodies, k \in Nat : b = Source[Messages[proc[p].n]].body /\ k = proc[p].k /\ b = Source[m].body
    BY <1>1, AtMessagesFacts
  <2>2. k > Len(UploadPlan(b)) /\ \A i \in DOMAIN UploadPlan(b) : i < k => UploadPlan(b)[i] \in DOMAIN stored
    BY <1>1, <2>1, AtMessagesFacts DEF PartsOK, AtUpload
  <2>3. \A i \in DOMAIN UploadPlan(b) : i < k
    BY <2>2, PlanBegins
  <2> QED
    BY <2>1, <2>2, <2>3 DEF PlanIn
<1>6. StoreOK(stored', touched) /\ Grows(stored, stored')
  BY <1>3, <1>4, <1>5, AddPair DEF InStore, StateIn
<1> QED
  BY <1>3, <1>4, <1>6 DEF InStore

\* A step to the next message, with this one in the records
LEMMA MessageStep ==
    ASSUME IInv, NEW p \in Importers, proc[p].pc \in AtMessages, NextMessage(p),
           UNCHANGED <<space, file, touched>>, StoreOK(stored', touched), Grows(stored, stored'),
           InStore(stored', "message", Now(p))
    PROVE  IInv'
<1>1. PICK j, N, sp : j = proc[p] /\ N = stored' /\ sp = space
  OBVIOUS
<1> DEFINE next == AtMessage(j, j.n + 1)
<1>2. proc' = [proc EXCEPT ![p] = next]
  BY <1>1 DEF NextMessage
<1>3. /\ ProcShape(j) /\ sp = "private" /\ j.n \in DOMAIN Messages /\ j.n \in Nat \ {0}
      /\ InStore(N, "message", Messages[j.n])
  BY <1>1, AtMessagesFacts
<1>4. Grows(stored, N)
  BY <1>1
<1>5. AllFolders(N) /\ \A i \in DOMAIN Messages : i < j.n => InStore(N, "message", Messages[i])
  <2>1. \A g : FolderIs(stored, g) => FolderIs(N, g)
    BY <1>4 DEF FolderIs, InStore, Grows
  <2>2. \A m : InStore(stored, "message", m) => InStore(N, "message", m)
    BY <1>4 DEF InStore, Grows
  <2> QED
    BY <1>1, <2>1, <2>2, AtMessagesFacts DEF AllFolders
<1>6. ProcShape(next) /\ ImporterOK(next, N, sp)
  BY <1>3, <1>5, NextMessageOK
<1> HIDE DEF next
<1>7. ImporterOK(next, stored', space') /\ StoreOK(stored', touched')
  BY <1>1, <1>6
<1> QED
  BY <1>2, <1>6, <1>7, ImporterStep

\* An importer that looks at what it found
LEMMA CheckGoto ==
    ASSUME IInv, NEW p \in Importers, proc[p].pc \in AtMessages, NEW label,
           label \in {"check", "checkState"}, Goto(p, label), UNCHANGED <<space, stored, file, touched>>
    PROVE  IInv'
<1> DEFINE j == [proc[p] EXCEPT !.pc = label]
<1>1. j.pc = label
  BY AtMessagesFacts, GotoFields
<1>2. PartsOK(j, stored)
  <2> HIDE DEF j
  <2> QED
    BY <1>1 DEF PartsOK, AtUpload
<1> QED
  BY <1>2, MessageGoto DEF AtMessages

LEMMA PutPairOK == ASSUME IInv, NEW p \in Importers, PutPair(p) PROVE IInv'
<1>1. UNCHANGED <<space, file, touched>> /\ proc[p].pc = "pair" /\ proc[p].pc \in AtMessages
  BY DEF PutPair, Written, AtMessages, AtUpload
<1>2. PICK m : m = Now(p)
  OBVIOUS
<1>3. CASE CanCreate(Pair(m)) /\ Create(Pair(m)) /\ (NextMessage(p) \/ End(p, "failed"))
  <2>1. StoreOK(stored', touched) /\ Grows(stored, stored') /\ InStore(stored', "message", m)
    BY <1>1, <1>2, <1>3, PairAdded
  <2> QED
    BY <1>1, <1>2, <1>3, <2>1, MessageStep, ImporterFailsAfter
<1>4. CASE (Goto(p, "check") \/ End(p, "failed")) /\ UNCHANGED stored
  BY <1>1, <1>4, CheckGoto, ImporterFails
<1> QED
  BY <1>2, <1>3, <1>4 DEF PutPair, Lost

LEMMA CheckMessageOK == ASSUME IInv, NEW p \in Importers, CheckMessage(p) PROVE IInv'
<1>1. UNCHANGED <<space, stored, file, touched>> /\ proc[p].pc \in AtMessages
  BY ReadOnlyRest DEF CheckMessage, AtMessages
<1> QED
  BY <1>1, CheckGoto, ImporterFails DEF CheckMessage

LEMMA CheckStateOK == ASSUME IInv, NEW p \in Importers, CheckState(p) PROVE IInv'
<1>1. UNCHANGED <<space, stored, file, touched>> /\ proc[p].pc \in AtMessages
  BY ReadOnlyRest DEF CheckState, AtMessages
<1>2. CASE StateHeld(Now(p)) /\ NextMessage(p)
  <2>1. StoreOK(stored, touched) /\ Now(p) \in SourceMessages /\ InStore(stored, "state", Now(p))
    BY <1>1, <1>2, AtMessagesFacts DEF IInv, StateHeld, Has, InStore
  <2>2. InStore(stored, "message", Now(p))
    BY <2>1, StateOf
  <2>3. StoreOK(stored', touched) /\ Grows(stored, stored') /\ InStore(stored', "message", Now(p))
    BY <1>1, <2>1, <2>2, GrowsSame
  <2> QED
    BY <1>1, <1>2, <2>3, MessageStep
<1>3. CASE End(p, "failed")
  BY <1>1, <1>3, ImporterFails
<1> QED
  BY <1>2, <1>3 DEF CheckState

-----------------------------------------------------------------------------
(* Verification.                                                            *)

LEMMA VerifyingFacts ==
    ASSUME IInv, NEW p \in Importers, proc[p].pc \in AtVerification
    PROVE  /\ p \in Processes /\ ProcShape(proc[p]) /\ proc[p].n + 1 \in Nat
           /\ space = "private" /\ AllFolders(stored) /\ AllMessages(stored)
<1>1. p \in Processes /\ ProcShape(proc[p]) /\ ImporterOK(proc[p], stored, space)
  BY DEF IInv, Processes
<1>2. proc[p].n + 1 \in Nat
  BY <1>1 DEF ProcShape
<1> QED
  BY <1>1, <1>2 DEF ImporterOK, AllFolders, AllMessages

\* A step from one place of the verification to another
LEMMA VerifyingStep ==
    ASSUME IInv, NEW p \in Importers, proc[p].pc \in AtVerification, NEW j,
           proc' = [proc EXCEPT ![p] = j], ProcShape(j), j.pc \in AtVerification,
           UNCHANGED <<space, stored, file, touched>>
    PROVE  IInv'
<1>1. ImporterOK(j, stored, space)
  BY VerifyingFacts, VerifyingOK
<1> QED
  BY <1>1, ImporterReads

LEMMA VerifyingAt ==
    ASSUME IInv, NEW p \in Importers, proc[p].pc \in AtVerification, NEW bad, NEW n \in Nat,
           proc' = [proc EXCEPT ![p] = AtVerify([proc[p] EXCEPT !.bad = bad], n)],
           UNCHANGED <<space, stored, file, touched>>
    PROVE  IInv'
<1> DEFINE j == [proc[p] EXCEPT !.bad = bad]
<1>1. ProcShape(j)
  BY VerifyingFacts DEF ProcShape, ProcFields
<1> HIDE DEF j
<1>2. ProcShape(AtVerify(j, n)) /\ ImporterOK(AtVerify(j, n), stored, space)
  BY <1>1, VerifyingFacts, AtVerifyOK
<1>3. proc' = [proc EXCEPT ![p] = AtVerify(j, n)]
  BY DEF j
<1> QED
  BY <1>2, <1>3, ImporterReads

\* The fields of a process that lists
LEMMA ListFieldsKept ==
    ASSUME NEW j, ProcShape(j)
    PROVE  /\ DOMAIN NextPage(j.list) = ListFields /\ DOMAIN WithPage(j.list) = ListFields
<1>1. DOMAIN NextPage(j.list) = ListFields
  BY DEF NextPage, ProcShape
<1>2. DOMAIN WithPage(j.list) = ListFields
  BY DEF WithPage, ProcShape
<1> QED
  BY <1>1, <1>2

LEMMA ListPageIs ==
    ASSUME IInv, NEW p \in Processes, ListPage(p)
    PROVE  proc' = [proc EXCEPT ![p] = [proc[p] EXCEPT !.list = NextPage(proc[p].list), !.pc = "items"]]
<1>1. p \in DOMAIN proc /\ DOMAIN proc[p] = ProcFields
  BY DEF IInv, ProcShape
<1> QED
  BY <1>1 DEF ListPage, ProcFields

LEMMA ListItemsIs ==
    ASSUME IInv, NEW p \in Processes, ListItems(p), Unchanged(proc[p].list)
    PROVE  proc' = [proc EXCEPT ![p] = [proc[p] EXCEPT !.list = WithPage(proc[p].list),
                                            !.pc = IF proc[p].list.last THEN "listed" ELSE "page"]]
<1>1. p \in DOMAIN proc /\ DOMAIN proc[p] = ProcFields
  BY DEF IInv, ProcShape
<1> QED
  BY <1>1 DEF ListItems, ProcFields

LEMMA ImporterPageOK == ASSUME IInv, NEW p \in Importers, ListPage(p) PROVE IInv'
<1>1. p \in Processes /\ UNCHANGED <<space, stored, file, touched>> /\ proc[p].pc \in AtVerification
  BY ReadOnlyRest DEF ListPage, AtVerification, AtListing, Processes
<1> DEFINE j == [proc[p] EXCEPT !.list = NextPage(proc[p].list), !.pc = "items"]
<1>2. proc' = [proc EXCEPT ![p] = j]
  BY <1>1, ListPageIs
<1>3. ProcShape(j) /\ j.pc = "items"
  <2>1. PICK i, list : i = proc[p] /\ list = NextPage(i.list) /\ ProcShape(i) /\ DOMAIN list = ListFields
    BY <1>1, VerifyingFacts, ListFieldsKept
  <2>2. j = [i EXCEPT !.list = list, !.pc = "items"]
    BY <2>1
  <2> HIDE DEF j
  <2>3. LET k == [i EXCEPT !.list = list, !.pc = "items"] IN ProcShape(k) /\ k.pc = "items"
    BY <2>1 DEF ProcShape, ProcFields
  <2> QED
    BY <2>2, <2>3
<1> HIDE DEF j
<1>4. j.pc \in AtVerification
  BY <1>3 DEF AtVerification, AtListing
<1> QED
  BY <1>1, <1>2, <1>3, <1>4, VerifyingStep

LEMMA ImporterItemsOK == ASSUME IInv, NEW p \in Importers, ListItems(p) PROVE IInv'
<1>1. p \in Processes /\ UNCHANGED <<space, stored, file, touched>> /\ proc[p].pc \in AtVerification
  BY ReadOnlyRest DEF ListItems, AtVerification, AtListing, Processes
<1>2. CASE Unchanged(proc[p].list)
  <2>1. PICK label \in {"listed", "page"} : label = IF proc[p].list.last THEN "listed" ELSE "page"
    OBVIOUS
  <2> DEFINE j == [proc[p] EXCEPT !.list = WithPage(proc[p].list), !.pc = label]
  <2>2. proc' = [proc EXCEPT ![p] = j]
    BY <1>1, <1>2, <2>1, ListItemsIs
  <2>3. ProcShape(j) /\ j.pc = label
    <3>1. PICK i, list : i = proc[p] /\ list = WithPage(i.list) /\ ProcShape(i) /\ DOMAIN list = ListFields
      BY <1>1, VerifyingFacts, ListFieldsKept
    <3>2. j = [i EXCEPT !.list = list, !.pc = label]
      BY <3>1
    <3> HIDE DEF j
    <3>3. LET k == [i EXCEPT !.list = list, !.pc = label] IN ProcShape(k) /\ k.pc = label
      BY <3>1 DEF ProcShape, ProcFields
    <3> QED
      BY <3>2, <3>3
  <2> HIDE DEF j
  <2>4. j.pc \in AtVerification
    BY <2>1, <2>3 DEF AtVerification, AtListing
  <2> QED
    BY <1>1, <2>2, <2>3, <2>4, VerifyingStep
<1>3. CASE ~Unchanged(proc[p].list)
  BY <1>1, <1>3, ImporterFails DEF ListItems
<1> QED
  BY <1>2, <1>3

LEMMA VerifyMessagesOK == ASSUME IInv, NEW p \in Importers, VerifyMessages(p) PROVE IInv'
<1>1. UNCHANGED <<space, stored, file, touched>> /\ proc[p].pc \in AtVerification
  BY ReadOnlyRest DEF VerifyMessages, Listed, AtVerification, AtListing
<1>2. PICK bad : proc' = [proc EXCEPT ![p] = AtVerify([proc[p] EXCEPT !.bad = bad], 1)]
  BY DEF VerifyMessages
<1> QED
  BY <1>1, <1>2, VerifyingAt

LEMMA AfterVerifiedOK ==
    ASSUME IInv, NEW p \in Importers, proc[p].pc \in AtVerification, NEW good, AfterVerified(p, good),
           UNCHANGED <<space, stored, file, touched>>
    PROVE  IInv'
<1> DEFINE bad == proc[p].bad \/ ~good
           n == proc[p].n + 1
<1>2. n \in Nat
  BY VerifyingFacts
<1>3. proc' = [proc EXCEPT ![p] = AtVerify([proc[p] EXCEPT !.bad = bad], n)]
  BY Zenon DEF AfterVerified
<1> HIDE DEF bad, n
<1> QED
  BY <1>2, <1>3, VerifyingAt

LEMMA VerifyMessageOK == ASSUME IInv, NEW p \in Importers, VerifyMessage(p) PROVE IInv'
<1>1. UNCHANGED <<space, stored, file, touched>> /\ proc[p].pc \in AtVerification
  BY ReadOnlyRest DEF VerifyMessage, AtVerification
<1>2. CASE Goto(p, "verifyState")
  <2> DEFINE j == [proc[p] EXCEPT !.pc = "verifyState"]
  <2>1. proc' = [proc EXCEPT ![p] = j]
    BY <1>2, GotoIs DEF Processes
  <2>2. ProcShape(j) /\ j.pc = "verifyState"
    BY <1>1, VerifyingFacts, GotoFields
  <2> HIDE DEF j
  <2>3. j.pc \in AtVerification
    BY <2>2 DEF AtVerification
  <2> QED
    BY <1>1, <2>1, <2>2, <2>3, VerifyingStep
<1> QED
  BY <1>1, <1>2, AfterVerifiedOK DEF VerifyMessage

LEMMA VerifyStateOK == ASSUME IInv, NEW p \in Importers, VerifyState(p) PROVE IInv'
<1>1. UNCHANGED <<space, stored, file, touched>> /\ proc[p].pc \in AtVerification
  BY ReadOnlyRest DEF VerifyState, AtVerification
<1> QED
  BY <1>1, AfterVerifiedOK DEF VerifyState

LEMMA VerifyFoldersOK == ASSUME IInv, NEW p \in Importers, VerifyFolders(p) PROVE IInv'
<1>1. /\ UNCHANGED <<space, stored, file, touched>> /\ proc[p].pc \in AtVerification
      /\ p \in DOMAIN proc /\ DOMAIN proc[p] = ProcFields /\ proc[p].k \in Nat /\ proc[p].n \in Nat
  BY ReadOnlyRest
  DEF VerifyFolders, Listed, AtVerification, AtListing, IInv, Processes, ProcShape
<1>2. PICK bad : proc' = [proc EXCEPT ![p] = [proc[p] EXCEPT !.pc = "page", !.bad = bad, !.list = ListOf("state")]]
  <2> DEFINE good == Got(p) = [f \in SourceFolders |-> Folder(f)]
  <2>1. proc' = [proc EXCEPT ![p] = [proc[p] EXCEPT !.pc = "page", !.bad = proc[p].bad \/ ~good,
                                                    !.list = ListOf("state")]]
    <3> HIDE DEF good
    <3>1. proc' = [proc EXCEPT ![p].pc = "page", ![p].bad = @ \/ ~good, ![p].list = ListOf("state")]
      BY DEF VerifyFolders, good
    <3> QED
      BY <1>1, <3>1 DEF ProcFields
  <2> QED
    BY <2>1
<1> DEFINE j == [proc[p] EXCEPT !.pc = "page", !.bad = bad, !.list = ListOf("state")]
<1>3. j.pc = "page" /\ ProcShape(j)
  BY <1>1, ListShape DEF ProcShape, ProcFields
<1>4. proc' = [proc EXCEPT ![p] = j]
  BY <1>2
<1> HIDE DEF j
<1>5. j.pc \in AtVerification
  BY <1>3 DEF AtVerification, AtListing
<1> QED
  BY <1>1, <1>3, <1>4, <1>5, VerifyingStep

LEMMA VerifyStatesOK == ASSUME IInv, NEW p \in Importers, VerifyStates(p) PROVE IInv'
<1>1. UNCHANGED <<space, stored, file, touched>> /\ proc[p].pc \in AtVerification
  BY ReadOnlyRest DEF VerifyStates, Listed, AtVerification, AtListing
<1>2. CASE End(p, "passed")
  <2> DEFINE j == [NoProc EXCEPT !.pc = "passed"]
  <2>1. proc' = [proc EXCEPT ![p] = j]
    BY <1>2 DEF End
  <2>2. ProcShape(j) /\ j.pc = "passed"
    BY EndShape
  <2> HIDE DEF j
  <2>3. j.pc \in AtVerification
    BY <2>2 DEF AtVerification
  <2> QED
    BY <1>1, <2>1, <2>2, <2>3, VerifyingStep
<1>3. CASE End(p, "failed")
  BY <1>1, <1>3, ImporterFails
<1> QED
  BY <1>2, <1>3 DEF VerifyStates

LEMMA ImportOK == ASSUME IInv, NEW p \in Importers, Import(p) PROVE IInv'
BY BeginOK, ListSpacesOK, CreateSpaceOK, VerifySpaceOK, GetFolderOK, CreateFolderOK, GetMessageOK,
   GetOrphanOK, GetPartOK, PutPartOK, PutPairOK, CheckMessageOK, CheckStateOK, ImporterPageOK,
   ImporterItemsOK, VerifyMessagesOK, VerifyMessageOK, VerifyStateOK, VerifyFoldersOK, VerifyStatesOK
   DEF Import

-----------------------------------------------------------------------------
(* What a rebuild reads.                                                    *)

LEMMA ImageFinite ==
    ASSUME NEW D, IsFiniteSet(D), NEW g
    PROVE  IsFiniteSet({g[x] : x \in D})
<1> DEFINE f == [x \in D |-> g[x]]
           T == {g[x] : x \in D}
<1>1. f \in Surjection(D, T)
  BY DEF Surjection
<1> HIDE DEF f, T
<1>2. IsFiniteSet(T)
  BY <1>1, FS_Surjection
<1> QED
  BY <1>2 DEF T

\* The messages that have a state, and their states
LEMMA StateKeys ==
    ASSUME NEW t, StoreOK(stored, t)
    PROVE  /\ Keys("state") = {m \in SourceMessages : InStore(stored, "state", m)}
           /\ IsFiniteSet(Keys("state"))
           /\ \A m \in Keys("state") : Rank[m] \in Nat \ {0}
<1> DEFINE D == {a \in DOMAIN stored : a[1] = "state"}
<1>1. DOMAIN stored \subseteq Addresses /\ IsFiniteSet(DOMAIN stored)
  BY DEF StoreOK
<1>2. \A a \in D : a[2] \in SourceMessages /\ a = <<"state", a[2]>>
  BY <1>1 DEF Addresses
<1>3. Keys("state") = {a[2] : a \in D}
  BY DEF Keys
<1>4. \A m \in SourceMessages : InStore(stored, "state", m) => <<"state", m>> \in D /\ <<"state", m>>[2] = m
  BY DEF InStore
<1>5. \A a \in D : InStore(stored, "state", a[2])
  BY <1>2 DEF InStore
<1>6. Keys("state") = {m \in SourceMessages : InStore(stored, "state", m)}
  <2> HIDE DEF D
  <2>1. \A m \in Keys("state") : m \in SourceMessages /\ InStore(stored, "state", m)
    BY <1>2, <1>3, <1>5
  <2>2. \A m \in SourceMessages : InStore(stored, "state", m) => m \in Keys("state")
    BY <1>3, <1>4
  <2> QED
    BY <2>1, <2>2
<1>7. IsFiniteSet(Keys("state"))
  <2> DEFINE f == [a \in D |-> a[2]]
  <2>1. IsFiniteSet(D)
    BY <1>1, FS_Subset
  <2>2. f \in Surjection(D, Keys("state"))
    BY <1>3 DEF Surjection
  <2> HIDE DEF f, D
  <2> QED
    BY <2>1, <2>2, FS_Surjection
<1>8. \A m \in Keys("state") : Rank[m] \in Nat \ {0}
  BY <1>6, MigrationAssumption
<1> QED
  BY <1>6, <1>7, <1>8

\* States read now are states of now
LEMMA ReadNow ==
    ASSUME NEW t, StoreOK(stored, t), NEW V, DOMAIN V \subseteq Keys("state"),
           \A m \in DOMAIN V : V[m] = stored[<<"state", m>>],
           NEW before, \A m \in DOMAIN before : Older(before[m], StateIn(stored, m))
    PROVE  ReadAfter(V, before, stored)
<1>1. IsFiniteSet(DOMAIN V)
  BY StateKeys, FS_Subset
<1> SUFFICES ASSUME NEW m \in DOMAIN V
             PROVE  /\ m \in SourceMessages /\ InStore(stored, "state", m)
                    /\ StateShape(V[m]) /\ Older(V[m], StateIn(stored, m))
                    /\ m \in DOMAIN before => Older(before[m], V[m])
  BY <1>1 DEF ReadAfter
<1>2. m \in SourceMessages /\ InStore(stored, "state", m) /\ V[m] = StateIn(stored, m)
  BY StateKeys DEF StateIn
<1>3. StateShape(V[m])
  BY <1>2, StateOf
<1>4. Older(V[m], StateIn(stored, m))
  BY <1>2, <1>3 DEF Older, StateShape
<1> QED
  BY <1>2, <1>3, <1>4

\* The next page of states
LEMMA PageOK ==
    ASSUME NEW t, StoreOK(stored, t), NEW before, ReadAfter(before, before, stored),
           NEW list, DOMAIN list = ListFields, list.of = "state", list.after \in Nat
    PROVE  LET next == NextPage(list) IN
           /\ next.after = list.after /\ next.got = list.got /\ next.of = list.of
           /\ ReadAfter(next.page, before, stored)
           /\ \A m \in DOMAIN before :
                Rank[m] > list.after /\ (next.last \/ \E x \in DOMAIN next.page : Rank[m] <= Rank[x])
                    => m \in DOMAIN next.page
<1> DEFINE next == NextPage(list)
           page == PageKeys(list)
           beyond == Beyond(list)
           Under(m) == {j \in beyond : Rank[j] < Rank[m]}
<1>1. /\ next.after = list.after /\ next.got = list.got /\ next.of = list.of
      /\ next.page = [k \in page |-> stored[<<"state", k>>]] /\ next.last = (page = beyond)
  BY DEF NextPage, ListFields
<1>2. beyond = {k \in Keys("state") : Rank[k] > list.after}
  BY DEF Beyond
<1>3. page = {k \in beyond : Cardinality(Under(k)) < pageSize}
  BY DEF PageKeys
<1>4. page \subseteq beyond /\ beyond \subseteq Keys("state") /\ IsFiniteSet(beyond)
  <2>1. page \subseteq beyond /\ beyond \subseteq Keys("state")
    BY <1>2, <1>3
  <2> HIDE DEF page, beyond
  <2> QED
    BY <2>1, StateKeys, FS_Subset
<1>5. DOMAIN next.page = page
  BY <1>1
<1>6. ReadAfter(next.page, before, stored)
  <2>1. \A m \in DOMAIN before : Older(before[m], StateIn(stored, m))
    BY DEF ReadAfter
  <2>2. \A m \in DOMAIN next.page : next.page[m] = stored[<<"state", m>>]
    BY <1>1
  <2>3. DOMAIN next.page \subseteq Keys("state")
    BY <1>4, <1>5
  <2>4. PICK V : V = next.page
    OBVIOUS
  <2>5. ReadAfter(V, before, stored)
    BY <2>1, <2>2, <2>3, <2>4, ReadNow
  <2> QED
    BY <2>4, <2>5
<1> HIDE DEF next
<1>7. ASSUME NEW m \in DOMAIN before, Rank[m] > list.after PROVE m \in beyond
  <2>1. m \in SourceMessages /\ InStore(stored, "state", m)
    BY DEF ReadAfter
  <2> QED
    BY <1>2, <1>7, <2>1, StateKeys
<1>8. ASSUME NEW m \in beyond, NEW x \in page, Rank[m] <= Rank[x] PROVE m \in page
  <2>1. \A k \in beyond : Rank[k] \in Nat
    BY <1>4, StateKeys
  <2>2. Under(m) \in SUBSET Under(x)
    <3>1. \A j \in beyond : Rank[j] < Rank[m] => Rank[j] < Rank[x]
      BY <1>4, <1>8, <2>1
    <3> QED
      BY <3>1
  <2>3. IsFiniteSet(Under(x))
    <3>1. Under(x) \in SUBSET beyond
      OBVIOUS
    <3> HIDE DEF Under, beyond
    <3> QED
      BY <1>4, <3>1, FS_Subset
  <2>4. IsFiniteSet(Under(m)) /\ Cardinality(Under(m)) <= Cardinality(Under(x))
    BY <2>2, <2>3, FS_Subset
  <2>5. Cardinality(Under(m)) \in Nat /\ Cardinality(Under(x)) \in Nat
    BY <2>3, <2>4, FS_CardinalityType
  <2>6. Cardinality(Under(x)) < pageSize
    BY <1>3
  <2>7. Cardinality(Under(m)) < pageSize
    <3> HIDE DEF Under
    <3> QED
      BY <2>4, <2>5, <2>6, HappyViewAssumption
  <2> QED
    BY <1>3, <2>7
<1> HIDE DEF page, beyond, Under
<1>9. ASSUME NEW m \in DOMAIN before, Rank[m] > list.after,
             next.last \/ \E x \in DOMAIN next.page : Rank[m] <= Rank[x]
      PROVE  m \in DOMAIN next.page
  <2>1. m \in beyond
    BY <1>7, <1>9
  <2> QED
    BY <1>1, <1>5, <1>8, <1>9, <2>1
<1>10. \A m \in DOMAIN before :
        Rank[m] > list.after /\ (next.last \/ \E x \in DOMAIN next.page : Rank[m] <= Rank[x])
            => m \in DOMAIN next.page
  BY <1>9
<1> QED
  BY <1>1, <1>6, <1>10 DEF next

\* The page is added to what was listed
LEMMA WithPageOK ==
    ASSUME NEW S, NEW before, ReadAfter(before, before, S),
           NEW list, DOMAIN list = ListFields, list.after \in Nat,
           ReadAfter(list.got, before, S), ReadAfter(list.page, before, S),
           \A m \in DOMAIN list.got : Rank[m] <= list.after,
           \A m \in DOMAIN before : Rank[m] <= list.after => m \in DOMAIN list.got,
           \A m \in DOMAIN before :
                Rank[m] > list.after /\ (list.last \/ \E x \in DOMAIN list.page : Rank[m] <= Rank[x])
                    => m \in DOMAIN list.page
    PROVE  LET next == WithPage(list) IN
           /\ next.of = list.of /\ next.after \in Nat /\ ReadAfter(next.got, before, S)
           /\ \A m \in DOMAIN next.got : Rank[m] <= next.after
           /\ \A m \in DOMAIN before : Rank[m] <= next.after => m \in DOMAIN next.got
           /\ list.last => DOMAIN before \subseteq DOMAIN next.got
<1> DEFINE next == WithPage(list)
           D == DOMAIN list.got \cup DOMAIN list.page
           got == [k \in D |-> IF k \in DOMAIN list.page THEN list.page[k] ELSE list.got[k]]
           T == {Rank[k] : k \in D} \cup {0}
<1>1. next.got = got /\ next.of = list.of /\ next.after = Max(T)
  <2>1. next = [list EXCEPT !.got = got, !.page = <<>>, !.after = Max({Rank[k] : k \in DOMAIN got} \cup {0})]
    BY DEF WithPage
  <2>2. {Rank[k] : k \in DOMAIN got} \cup {0} = T
    OBVIOUS
  <2> HIDE DEF next, got, T
  <2> QED
    BY <2>1, <2>2 DEF ListFields
<1>2. ReadAfter(got, before, S)
  <2>1. IsFiniteSet(DOMAIN got)
    BY FS_Union DEF ReadAfter
  <2>2. ASSUME NEW m \in DOMAIN got
        PROVE  /\ m \in SourceMessages /\ InStore(S, "state", m)
               /\ StateShape(got[m]) /\ Older(got[m], StateIn(S, m))
               /\ m \in DOMAIN before => Older(before[m], got[m])
    <3>1. CASE m \in DOMAIN list.page
      <4>1. got[m] = list.page[m]
        BY <3>1
      <4> HIDE DEF got
      <4> QED
        BY <3>1, <4>1 DEF ReadAfter
    <3>2. CASE m \notin DOMAIN list.page
      <4>1. got[m] = list.got[m] /\ m \in DOMAIN list.got
        BY <3>2
      <4> HIDE DEF got
      <4> QED
        BY <4>1 DEF ReadAfter
    <3> QED
      BY <3>1, <3>2
  <2> HIDE DEF got
  <2> QED
    BY <2>1, <2>2 DEF ReadAfter
<1>3. D \subseteq SourceMessages /\ IsFiniteSet(D)
  BY <1>2 DEF ReadAfter
<1>4. \A m \in SourceMessages : Rank[m] \in Nat \ {0}
  BY MigrationAssumption
<1>5. T \in SUBSET Nat /\ IsFiniteSet(T) /\ T # {}
  <2>1. IsFiniteSet({Rank[k] : k \in D})
    BY <1>3, ImageFinite
  <2>2. IsFiniteSet(T)
    <3> HIDE DEF D
    <3> QED
      BY <2>1, FS_AddElement
  <2>3. T \in SUBSET Nat
    <3> HIDE DEF D
    <3> QED
      BY <1>3, <1>4
  <2> QED
    BY <2>2, <2>3
<1>6. Max(T) \in T /\ Max(T) \in Nat /\ \A r \in T : r <= Max(T)
  <2> HIDE DEF T
  <2>1. T \in SUBSET Int
    BY <1>5
  <2> QED
    BY <1>5, <2>1, MaxOf
<1>7. DOMAIN next.got = D
  BY <1>1
<1> HIDE DEF next, got
<1>8. PICK top \in Nat : top = next.after /\ top \in T /\ \A r \in T : r <= top
  BY <1>1, <1>6
<1>9. \A m \in D : Rank[m] <= top
  BY <1>8
<1>10. ASSUME NEW m \in DOMAIN before, Rank[m] <= top PROVE m \in D
  <2>1. m \in SourceMessages
    BY DEF ReadAfter
  <2>2. Rank[m] \in Nat \ {0}
    BY <1>4, <2>1
  <2>3. CASE Rank[m] <= list.after
    BY <2>3
  <2>4. CASE ~(Rank[m] <= list.after)
    <3>1. Rank[m] > list.after
      BY <2>2, <2>4
    <3>2. PICK x \in D : top = Rank[x]
      BY <1>8, <1>10, <2>2
    <3>3. Rank[x] \in Nat
      BY <1>3, <1>4
    <3>4. x \notin DOMAIN list.got
      <4>1. ~(Rank[x] <= list.after)
        BY <1>10, <2>2, <3>1, <3>2, <3>3
      <4> QED
        BY <4>1
    <3>5. x \in DOMAIN list.page /\ Rank[m] <= Rank[x]
      BY <1>10, <3>2, <3>4
    <3> QED
      BY <3>1, <3>5
  <2> QED
    BY <2>3, <2>4
<1>11. ASSUME list.last, NEW m \in DOMAIN before PROVE m \in D
  <2>1. m \in SourceMessages
    BY DEF ReadAfter
  <2>2. Rank[m] <= list.after \/ Rank[m] > list.after
    BY <1>4, <2>1
  <2> QED
    BY <1>11, <2>2
<1>12. ReadAfter(next.got, before, S)
  BY <1>1, <1>2
<1> HIDE DEF D, T
<1>13. /\ next.of = list.of /\ next.after \in Nat /\ ReadAfter(next.got, before, S)
       /\ \A m \in DOMAIN next.got : Rank[m] <= next.after
       /\ \A m \in DOMAIN before : Rank[m] <= next.after => m \in DOMAIN next.got
       /\ list.last => DOMAIN before \subseteq DOMAIN next.got
  BY <1>1, <1>7, <1>8, <1>9, <1>10, <1>11, <1>12
<1> QED
  BY <1>13 DEF next

-----------------------------------------------------------------------------
(* The steps of a rebuild.                                                  *)

\* What a rebuild that lists knows
ListsOK(j, S) ==
    /\ ReadAfter(j.views[1], j.views[1], S)
    /\ j.list.of \in {"folder", "state", "message"}
    /\ j.list.of = "folder" => j.views = <<j.views[1]>>
    /\ j.list.of = "state" => j.views = <<j.views[1], j.views[2]>> /\ ListingOK(j, S)
    /\ j.list.of = "message" =>
        /\ j.views = <<j.views[1], j.views[2], j.views[3]>>
        /\ ReadAfter(j.views[3], j.views[1], S)
        /\ DOMAIN j.views[1] \subseteq DOMAIN j.views[3]

LEMMA ListsBuilder ==
    ASSUME NEW j, NEW S, NEW rows, j.pc \in AtListing
    PROVE  BuilderOK(j, S, rows) <=> ListsOK(j, S)
BY DEF BuilderOK, ListsOK, AtListing, Views

LEMMA OutsideBuilder ==
    ASSUME NEW j, NEW S, NEW rows, j.pc \notin AtListing \cup {"build", "passed"}
    PROVE  BuilderOK(j, S, rows)
BY DEF BuilderOK

\* A failure, with or without the removal of a file that was begun
LEMMA BuilderFails ==
    ASSUME IInv, NEW p \in Builders, NEW label, label \in {"failed", "refused"}, End(p, label),
           UNCHANGED <<space, stored, touched>>, file' \in {file, Cleaned(p)}
    PROVE  IInv'
<1> DEFINE j == [NoProc EXCEPT !.pc = label]
<1>1. proc' = [proc EXCEPT ![p] = j]
  BY DEF End
<1>2. ProcShape(j) /\ j.pc = label
  BY EndShape
<1> HIDE DEF j
<1>3. BuilderOK(j, stored, file'[p])
  BY <1>2, OutsideBuilder DEF AtListing
<1>4. DOMAIN file' = Builders /\ \A q \in Builders : q # p => file'[q] = file[q]
  <2>1. DOMAIN file = Builders
    BY DEF IInv
  <2> QED
    BY <2>1 DEF Cleaned
<1> QED
  BY <1>1, <1>2, <1>3, <1>4, BuilderStep

LEMMA BuilderListing ==
    ASSUME IInv, NEW p \in Builders, proc[p].pc \in AtListing
    PROVE  /\ p \in Processes /\ p \in DOMAIN proc /\ ProcShape(proc[p]) /\ ListsOK(proc[p], stored)
           /\ StoreOK(stored, touched)
<1>1. p \in Processes /\ BuilderOK(proc[p], stored, file[p])
  BY DEF IInv, Processes
<1> QED
  BY <1>1, ListsBuilder DEF IInv

\* A step from one place of the listings to another
LEMMA BuilderLists ==
    ASSUME IInv, NEW p \in Builders, NEW j, proc' = [proc EXCEPT ![p] = j],
           UNCHANGED <<space, stored, file, touched>>,
           ProcShape(j), j.pc \in AtListing, ListsOK(j, stored)
    PROVE  IInv'
<1>1. BuilderOK(j, stored, file'[p])
  BY ListsBuilder
<1>2. DOMAIN file' = Builders /\ \A q \in Builders : q # p => file'[q] = file[q]
  BY DEF IInv
<1> QED
  BY <1>1, <1>2, BuilderStep

LEMMA BeginBuildOK == ASSUME IInv, NEW p \in Builders, BeginBuild(p) PROVE IInv'
<1>1. UNCHANGED <<space, stored, file, touched>>
  BY ReadOnlyRest DEF BeginBuild
<1>2. CASE file[p] # "none"
  BY <1>1, <1>2, BuilderFails DEF BeginBuild
<1>3. CASE file[p] = "none"
  <2>1. PICK before : before = RecordsOf("state")
    OBVIOUS
  <2> DEFINE j == [NoProc EXCEPT !.pc = "page", !.list = ListOf("folder"), !.views = <<before>>]
  <2>2. proc' = [proc EXCEPT ![p] = j]
    BY <1>3, <2>1 DEF BeginBuild
  <2>3. ProcShape(j) /\ j.pc = "page" /\ j.list.of = "folder" /\ j.views = <<before>>
    BY DEF ProcShape, NoProc, NoList, ListOf, ProcFields, ListFields
  <2> HIDE DEF j
  <2>4. DOMAIN before = Keys("state") /\ \A m \in DOMAIN before : before[m] = stored[<<"state", m>>]
    BY <2>1 DEF RecordsOf
  <2>5. StoreOK(stored, touched)
    BY DEF IInv
  <2>6. \A m \in DOMAIN before : Older(before[m], StateIn(stored, m))
    <3> SUFFICES ASSUME NEW m \in DOMAIN before PROVE Older(before[m], StateIn(stored, m))
      OBVIOUS
    <3>1. m \in SourceMessages /\ InStore(stored, "state", m) /\ before[m] = StateIn(stored, m)
      BY <2>4, <2>5, StateKeys DEF StateIn
    <3>2. StateShape(StateIn(stored, m))
      BY <2>5, <3>1, StateOf
    <3> QED
      BY <3>1, <3>2 DEF Older, StateShape
  <2>7. ReadAfter(before, before, stored)
    BY <2>4, <2>5, <2>6, ReadNow
  <2>8. j.views[1] = before
    BY <2>3
  <2>9. ListsOK(j, stored)
    BY <2>3, <2>7, <2>8 DEF ListsOK
  <2> QED
    BY <1>1, <2>2, <2>3, <2>9, BuilderLists DEF AtListing
<1> QED
  BY <1>2, <1>3

LEMMA BuilderPageOK == ASSUME IInv, NEW p \in Builders, ListPage(p) PROVE IInv'
<1>1. UNCHANGED <<space, stored, file, touched>> /\ proc[p].pc = "page" /\ proc[p].pc \in AtListing
  BY ReadOnlyRest DEF ListPage, AtListing
<1>2. PICK i, list, next : i = proc[p] /\ list = i.list /\ next = NextPage(list)
  OBVIOUS
<1>3. ProcShape(i) /\ DOMAIN list = ListFields /\ ListsOK(i, stored) /\ p \in Processes
  BY <1>1, <1>2, BuilderListing DEF ProcShape
<1>4. DOMAIN next = ListFields /\ next.of = list.of
  BY <1>2, <1>3 DEF NextPage, ListFields
<1> DEFINE j == [i EXCEPT !.list = next, !.pc = "items"]
<1>5. proc' = [proc EXCEPT ![p] = j]
  BY <1>2, <1>3, ListPageIs
<1>6. ProcShape(j) /\ j.pc = "items" /\ j.list = next /\ j.views = i.views
  BY <1>3, <1>4 DEF ProcShape, ProcFields
<1> HIDE DEF j
<1>7. ASSUME list.of = "state" PROVE ListingOK(j, stored)
  <2>1. PICK before : before = i.views[1]
    OBVIOUS
  <2>2. /\ ReadAfter(before, before, stored) /\ list.after \in Nat /\ ReadAfter(list.got, before, stored)
        /\ \A m \in DOMAIN list.got : Rank[m] <= list.after
        /\ \A m \in DOMAIN before : Rank[m] <= list.after => m \in DOMAIN list.got
    BY <1>2, <1>3, <1>7, <2>1 DEF ListsOK, ListingOK
  <2>3. StoreOK(stored, touched)
    BY DEF IInv
  <2>4. /\ next.after = list.after /\ next.got = list.got
        /\ ReadAfter(next.page, before, stored)
        /\ \A m \in DOMAIN before :
            Rank[m] > list.after /\ (next.last \/ \E x \in DOMAIN next.page : Rank[m] <= Rank[x])
                => m \in DOMAIN next.page
    BY <1>2, <1>3, <1>7, <2>2, <2>3, PageOK
  <2>5. j.views[1] = before /\ j.list = next /\ j.pc = "items"
    BY <1>6, <2>1
  <2> QED
    BY <2>2, <2>4, <2>5 DEF ListingOK
<1>8. ListsOK(j, stored)
  BY <1>2, <1>3, <1>4, <1>6, <1>7 DEF ListsOK
<1> QED
  BY <1>1, <1>5, <1>6, <1>8, BuilderLists DEF AtListing

LEMMA BuilderItemsOK == ASSUME IInv, NEW p \in Builders, ListItems(p) PROVE IInv'
<1>1. UNCHANGED <<space, stored, file, touched>> /\ proc[p].pc = "items" /\ proc[p].pc \in AtListing
  BY ReadOnlyRest DEF ListItems, AtListing
<1>2. CASE Unchanged(proc[p].list)
  <2>1. PICK i, list, next, label :
            /\ i = proc[p] /\ list = i.list /\ next = WithPage(list)
            /\ label = IF list.last THEN "listed" ELSE "page"
    OBVIOUS
  <2>2. ProcShape(i) /\ DOMAIN list = ListFields /\ ListsOK(i, stored) /\ p \in Processes /\ i.pc = "items"
    BY <1>1, <2>1, BuilderListing DEF ProcShape
  <2>3. DOMAIN next = ListFields /\ next.of = list.of
    BY <2>1, <2>2 DEF WithPage, ListFields
  <2> DEFINE j == [i EXCEPT !.list = next, !.pc = label]
  <2>4. proc' = [proc EXCEPT ![p] = j]
    BY <1>2, <2>1, <2>2, ListItemsIs
  <2>5. ProcShape(j) /\ j.pc = label /\ j.list = next /\ j.views = i.views
    BY <2>2, <2>3 DEF ProcShape, ProcFields
  <2> HIDE DEF j
  <2>6. ASSUME list.of = "state" PROVE ListingOK(j, stored)
    <3>1. PICK before : before = i.views[1]
      OBVIOUS
    <3>2. /\ ReadAfter(before, before, stored) /\ list.after \in Nat /\ ReadAfter(list.got, before, stored)
          /\ \A m \in DOMAIN list.got : Rank[m] <= list.after
          /\ \A m \in DOMAIN before : Rank[m] <= list.after => m \in DOMAIN list.got
          /\ ReadAfter(list.page, before, stored)
          /\ \A m \in DOMAIN before :
                Rank[m] > list.after /\ (list.last \/ \E x \in DOMAIN list.page : Rank[m] <= Rank[x])
                    => m \in DOMAIN list.page
      BY <2>1, <2>2, <2>6, <3>1 DEF ListsOK, ListingOK
    <3>3. /\ next.after \in Nat /\ ReadAfter(next.got, before, stored)
          /\ \A m \in DOMAIN next.got : Rank[m] <= next.after
          /\ \A m \in DOMAIN before : Rank[m] <= next.after => m \in DOMAIN next.got
          /\ list.last => DOMAIN before \subseteq DOMAIN next.got
      BY <2>1, <2>2, <3>2, WithPageOK
    <3>4. /\ j.views[1] = before /\ j.list = next /\ j.pc # "items"
          /\ j.pc = "listed" => list.last
      BY <2>1, <2>5, <3>1
    <3> QED
      BY <3>3, <3>4 DEF ListingOK
  <2>7. ListsOK(j, stored)
    BY <2>1, <2>2, <2>3, <2>5, <2>6 DEF ListsOK
  <2>8. j.pc \in AtListing
    BY <2>1, <2>5 DEF AtListing
  <2> QED
    BY <1>1, <2>4, <2>5, <2>7, <2>8, BuilderLists
<1>3. CASE ~Unchanged(proc[p].list)
  BY <1>1, <1>3, BuilderFails DEF ListItems
<1> QED
  BY <1>2, <1>3

\* The views with one more, and a new listing
LEMMA BuildListIs ==
    ASSUME IInv, NEW p \in Builders, NEW c, NEW next, BuildList(p, c, next)
    PROVE  /\ proc[p].pc = "listed" /\ proc[p].pc \in AtListing /\ proc[p].list.of = c
           /\ UNCHANGED <<space, stored, file, touched>>
           /\ proc' = [proc EXCEPT ![p] = [proc[p] EXCEPT !.views = Append(proc[p].views, proc[p].list.got),
                                                          !.pc = "page", !.list = ListOf(next)]]
<1>1. p \in DOMAIN proc /\ DOMAIN proc[p] = ProcFields
  BY DEF IInv, Processes, ProcShape
<1>2. proc[p].pc = "listed" /\ proc[p].list.of = c /\ UNCHANGED <<space, stored, file, touched>>
  BY ReadOnlyRest DEF BuildList, Listed
<1> QED
  BY <1>1, <1>2 DEF BuildList, Got, ProcFields, AtListing

LEMMA AppendSecond ==
    ASSUME NEW a, NEW b
    PROVE  Append(<<a>>, b) = <<a, b>>
<1> DEFINE s == Append(<<a>>, b)
           t == <<a, b>>
<1>1. <<a>> \in Seq({a, b}) /\ Len(<<a>>) = 1 /\ t \in Seq({a, b}) /\ Len(t) = 2 /\ t[1] = a /\ t[2] = b
  OBVIOUS
<1>2. s \in Seq({a, b}) /\ Len(s) = 2 /\ s[1] = a /\ s[2] = b
  BY <1>1, AppendProperties
<1>3. \A i \in 1 .. 2 : s[i] = t[i]
  BY <1>1, <1>2
<1> HIDE DEF s, t
<1>4. s = t
  BY <1>1, <1>2, <1>3, SeqEqual
<1> QED
  BY <1>4 DEF s, t

LEMMA AppendThird ==
    ASSUME NEW a, NEW b, NEW c
    PROVE  Append(<<a, b>>, c) = <<a, b, c>>
<1> DEFINE s == Append(<<a, b>>, c)
           t == <<a, b, c>>
<1>1. /\ <<a, b>> \in Seq({a, b, c}) /\ Len(<<a, b>>) = 2
      /\ t \in Seq({a, b, c}) /\ Len(t) = 3 /\ t[1] = a /\ t[2] = b /\ t[3] = c
  OBVIOUS
<1>2. s \in Seq({a, b, c}) /\ Len(s) = 3 /\ s[1] = a /\ s[2] = b /\ s[3] = c
  BY <1>1, AppendProperties
<1>3. \A i \in 1 .. 3 : s[i] = t[i]
  BY <1>1, <1>2
<1> HIDE DEF s, t
<1>4. s = t
  BY <1>1, <1>2, <1>3, SeqEqual
<1> QED
  BY <1>4 DEF s, t

LEMMA FoldersListedOK == ASSUME IInv, NEW p \in Builders, BuildList(p, "folder", "state") PROVE IInv'
<1>1. PICK i, got, views : i = proc[p] /\ got = i.list.got /\ views = Append(i.views, got)
  OBVIOUS
<1> DEFINE j == [i EXCEPT !.views = views, !.pc = "page", !.list = ListOf("state")]
<1>2. proc[p].pc \in AtListing /\ UNCHANGED <<space, stored, file, touched>> /\ proc' = [proc EXCEPT ![p] = j]
      /\ i.list.of = "folder"
  BY <1>1, BuildListIs
<1>3. ProcShape(i) /\ ListsOK(i, stored)
  BY <1>1, <1>2, BuilderListing
<1>4. ProcShape(j) /\ j.pc = "page" /\ j.views = views /\ j.list = ListOf("state")
  BY <1>3, ListShape DEF ProcShape, ProcFields
<1> HIDE DEF j
<1>5. PICK before : i.views = <<before>> /\ ReadAfter(before, before, stored)
  BY <1>2, <1>3 DEF ListsOK
<1>6. views = <<before, got>> /\ views[1] = before /\ views[2] = got
  BY <1>1, <1>5, AppendSecond
<1>7. ListOf("state").of = "state" /\ ListOf("state").after = 0 /\ DOMAIN ListOf("state").got = {}
  BY DEF ListOf, NoList
<1>8. ListingOK(j, stored)
  <2>1. \A m \in DOMAIN before : ~(Rank[m] <= 0)
    <3> SUFFICES ASSUME NEW m \in DOMAIN before PROVE ~(Rank[m] <= 0)
      OBVIOUS
    <3>1. m \in SourceMessages
      BY <1>5 DEF ReadAfter
    <3>2. Rank[m] \in Nat \ {0}
      BY <3>1, MigrationAssumption
    <3> QED
      BY <3>2
  <2>2. ReadAfter(ListOf("state").got, before, stored)
    BY <1>7, FS_EmptySet DEF ReadAfter
  <2> QED
    BY <1>4, <1>6, <1>7, <2>1, <2>2 DEF ListingOK
<1>9. ListsOK(j, stored)
  BY <1>4, <1>5, <1>6, <1>7, <1>8 DEF ListsOK
<1> QED
  BY <1>2, <1>4, <1>9, BuilderLists DEF AtListing

LEMMA StatesListedOK == ASSUME IInv, NEW p \in Builders, BuildList(p, "state", "message") PROVE IInv'
<1>1. PICK i, got, views : i = proc[p] /\ got = i.list.got /\ views = Append(i.views, got)
  OBVIOUS
<1> DEFINE j == [i EXCEPT !.views = views, !.pc = "page", !.list = ListOf("message")]
<1>2. proc[p].pc \in AtListing /\ UNCHANGED <<space, stored, file, touched>> /\ proc' = [proc EXCEPT ![p] = j]
      /\ i.list.of = "state" /\ i.pc = "listed"
  BY <1>1, BuildListIs
<1>3. ProcShape(i) /\ ListsOK(i, stored)
  BY <1>1, <1>2, BuilderListing
<1>4. ProcShape(j) /\ j.pc = "page" /\ j.views = views /\ j.list = ListOf("message")
  BY <1>3, ListShape DEF ProcShape, ProcFields
<1> HIDE DEF j
<1>5. PICK before, folders : i.views = <<before, folders>> /\ ReadAfter(before, before, stored)
  BY <1>2, <1>3 DEF ListsOK
<1>6. views = <<before, folders, got>> /\ views[1] = before /\ views[2] = folders /\ views[3] = got
  BY <1>1, <1>5, AppendThird
<1>7. ListOf("message").of = "message"
  BY DEF ListOf, NoList
<1>8. ReadAfter(got, before, stored) /\ DOMAIN before \subseteq DOMAIN got
  <2>1. ListingOK(i, stored) /\ i.views[1] = before
    BY <1>2, <1>3, <1>5 DEF ListsOK
  <2> QED
    BY <1>1, <1>2, <2>1 DEF ListingOK
<1>9. ListsOK(j, stored)
  BY <1>4, <1>5, <1>6, <1>7, <1>8 DEF ListsOK
<1> QED
  BY <1>2, <1>4, <1>9, BuilderLists DEF AtListing

\* What a rebuild that writes knows
ReadOK(j, S) ==
    /\ j.views = <<j.views[1], j.views[2], j.views[3]>> /\ j.list.of \in {"folder", "state", "message"}
    /\ ReadAfter(j.views[1], j.views[1], S) /\ ReadAfter(j.views[3], j.views[1], S)
    /\ DOMAIN j.views[1] \subseteq DOMAIN j.views[3]

LEMMA BuildingBuilder ==
    ASSUME NEW j, NEW S, NEW rows, ReadOK(j, S), j.pc \in {"build", "passed"},
           j.pc = "build" => GraphFits(j.views[2], j.views[3], j.list.got),
           j.pc = "passed" => rows = Rows(j.views[3])
    PROVE  BuilderOK(j, S, rows)
BY DEF BuilderOK, ReadOK, Views

LEMMA CheckGraphOK == ASSUME IInv, NEW p \in Builders, CheckGraph(p) PROVE IInv'
<1>1. /\ UNCHANGED <<space, stored, touched>> /\ proc[p].pc = "listed" /\ proc[p].list.of = "message"
      /\ proc[p].pc \in AtListing
  BY DEF CheckGraph, Listed, Provider, providerVars, AtListing
<1>2. CASE GraphFits(FolderView(p), StateView(p), Got(p))
  <2>1. PICK i : i = proc[p]
    OBVIOUS
  <2> DEFINE j == [i EXCEPT !.pc = "build"]
  <2>2. Goto(p, "build") /\ file' = [file EXCEPT ![p] = "partial"]
    BY <1>2 DEF CheckGraph
  <2>3. ProcShape(i) /\ ListsOK(i, stored) /\ p \in Processes
    BY <1>1, <2>1, BuilderListing
  <2>4. proc' = [proc EXCEPT ![p] = j]
    BY <2>1, <2>2, <2>3, GotoIs
  <2>5. ProcShape(j) /\ j.pc = "build" /\ j.list = i.list /\ j.views = i.views
    BY <2>3, GotoFields
  <2> HIDE DEF j
  <2>6. ReadOK(j, stored)
    BY <1>1, <2>1, <2>3, <2>5 DEF ReadOK, ListsOK
  <2>7. GraphFits(j.views[2], j.views[3], j.list.got)
    BY <1>2, <2>1, <2>5 DEF FolderView, StateView, Got
  <2>8. BuilderOK(j, stored, file'[p])
    BY <2>5, <2>6, <2>7, BuildingBuilder
  <2>9. DOMAIN file' = Builders /\ \A q \in Builders : q # p => file'[q] = file[q]
    BY <2>2 DEF IInv
  <2> QED
    BY <1>1, <2>4, <2>5, <2>8, <2>9, BuilderStep
<1>3. CASE ~GraphFits(FolderView(p), StateView(p), Got(p))
  BY <1>1, <1>3, BuilderFails DEF CheckGraph
<1> QED
  BY <1>2, <1>3

LEMMA BuildingFacts ==
    ASSUME IInv, NEW p \in Builders, proc[p].pc \in {"build", "passed"}
    PROVE  /\ p \in Processes /\ ProcShape(proc[p]) /\ ReadOK(proc[p], stored)
           /\ proc[p].pc = "build" => GraphFits(FolderView(p), StateView(p), Got(p))
           /\ proc[p].pc = "passed" => file[p] = Rows(StateView(p))
<1>1. p \in Processes /\ ProcShape(proc[p]) /\ BuilderOK(proc[p], stored, file[p])
  BY DEF IInv, Processes
<1>2. PICK i, rows : i = proc[p] /\ rows = file[p]
  OBVIOUS
<1>3. Views(i) = 3
  BY <1>2 DEF Views
<1>4. /\ i.views = <<i.views[1], i.views[2], i.views[3]>> /\ i.list.of \in {"folder", "state", "message"}
      /\ ReadAfter(i.views[1], i.views[1], stored) /\ ReadAfter(i.views[3], i.views[1], stored)
      /\ DOMAIN i.views[1] \subseteq DOMAIN i.views[3]
      /\ i.pc = "build" => GraphFits(i.views[2], i.views[3], i.list.got)
      /\ i.pc = "passed" => rows = Rows(i.views[3])
  BY <1>1, <1>2, <1>3 DEF BuilderOK
<1> QED
  BY <1>1, <1>2, <1>4 DEF ReadOK, FolderView, StateView, Got

LEMMA WriteRowsOK == ASSUME IInv, NEW p \in Builders, WriteRows(p) PROVE IInv'
<1>1. UNCHANGED <<space, stored, touched>> /\ proc[p].pc = "build"
  BY DEF WriteRows, Provider, providerVars
<1>2. CASE proc' = [proc EXCEPT ![p].pc = "passed"] /\ file' = [file EXCEPT ![p] = Rows(StateView(p))]
  <2>1. PICK i : i = proc[p]
    OBVIOUS
  <2> DEFINE j == [i EXCEPT !.pc = "passed"]
  <2>2. ProcShape(i) /\ ReadOK(i, stored) /\ p \in Processes
    BY <1>1, <2>1, BuildingFacts
  <2>3. proc' = [proc EXCEPT ![p] = j]
    BY <1>2, <2>1
  <2>4. ProcShape(j) /\ j.pc = "passed" /\ j.list = i.list /\ j.views = i.views
    BY <2>2, GotoFields
  <2> HIDE DEF j
  <2>5. ReadOK(j, stored)
    BY <2>2, <2>4 DEF ReadOK
  <2>6. DOMAIN file' = Builders /\ \A q \in Builders : q # p => file'[q] = file[q]
    BY <1>2 DEF IInv
  <2>7. file'[p] = Rows(j.views[3])
    BY <1>2, <2>1, <2>4 DEF IInv, StateView
  <2>8. BuilderOK(j, stored, file'[p])
    BY <2>4, <2>5, <2>7, BuildingBuilder
  <2> QED
    BY <1>1, <2>3, <2>4, <2>6, <2>8, BuilderStep
<1>3. CASE End(p, "failed") /\ file' = Cleaned(p)
  BY <1>1, <1>3, BuilderFails
<1> QED
  BY <1>2, <1>3 DEF WriteRows

LEMMA BuildOK == ASSUME IInv, NEW p \in Builders, Build(p) PROVE IInv'
BY BeginBuildOK, BuilderPageOK, BuilderItemsOK, FoldersListedOK, StatesListedOK, CheckGraphOK, WriteRowsOK
   DEF Build

-----------------------------------------------------------------------------
(* Faults and other clients.                                                *)

LEMMA FaultOK == ASSUME IInv, NEW p \in Processes, Fault(p) PROVE IInv'
<1>1. UNCHANGED <<space, stored, touched>> /\ End(p, "failed") /\ file' \in {file, Cleaned(p)}
  BY DEF Fault, Provider, providerVars
<1>2. CASE p \in Builders
  BY <1>1, <1>2, BuilderFails
<1>3. CASE p \in Importers
  <2>1. UNCHANGED file
    BY <1>1, <1>3, MigrationAssumption DEF Cleaned
  <2> QED
    BY <1>1, <1>3, <2>1, ImporterFails
<1> QED
  BY <1>2, <1>3 DEF Processes

\* A change of a state, as other clients see it
LEMMA ChangeIs ==
    ASSUME IInv, NEW m \in SourceMessages, NEW op, Change(m, op)
    PROVE  LET old == StateIn(stored, m)
               new == StateIn(stored', m) IN
           /\ InStore(stored, "state", m) /\ StateShape(old) /\ ~old.tombstone
           /\ DOMAIN stored' = DOMAIN stored
           /\ \A x \in DOMAIN stored : x # <<"state", m>> => stored'[x] = stored[x]
           /\ StateShape(new) /\ new.revision = old.revision + 1
           /\ touched' = TRUE /\ UNCHANGED <<space, proc, file>>
<1>1. PICK old, new, a :
        /\ a = <<"state", m>> /\ old = stored[a] /\ new = Changed(old, op)
        /\ a \in DOMAIN stored /\ ~old.tombstone /\ stored' = [stored EXCEPT ![a] = new]
        /\ touched' = TRUE /\ UNCHANGED <<space, proc, file>>
  BY DEF Change, Put, Has
<1>2. /\ DOMAIN stored' = DOMAIN stored /\ stored'[a] = new
      /\ \A x \in DOMAIN stored : x # a => stored'[x] = stored[x]
  BY <1>1
<1>3. StateShape(old) /\ InStore(stored, "state", m)
  <2>1. StoreOK(stored, touched) /\ InStore(stored, "state", m)
    BY <1>1 DEF IInv, InStore
  <2> QED
    BY <1>1, <2>1, StateOf DEF StateIn
<1>4. DOMAIN new = StateFields /\ new.revision = old.revision + 1 /\ new.tombstone = (op.operation = "tombstone")
  BY <1>1, <1>3 DEF Changed, StateShape, StateFields
<1>5. StateShape(new)
  BY <1>3, <1>4 DEF StateShape
<1> QED
  BY <1>1, <1>2, <1>3, <1>4, <1>5 DEF StateIn

LEMMA ChangeOK == ASSUME IInv, NEW m \in SourceMessages, NEW op, Change(m, op) PROVE IInv'
<1>1. PICK S, N, t : S = stored /\ N = stored' /\ t = touched
  OBVIOUS
<1>2. /\ StoreOK(S, t) /\ InStore(S, "state", m) /\ StateShape(StateIn(S, m)) /\ ~StateIn(S, m).tombstone
      /\ DOMAIN N = DOMAIN S /\ \A x \in DOMAIN S : x # <<"state", m>> => N[x] = S[x]
      /\ StateShape(StateIn(N, m)) /\ StateIn(N, m).revision = StateIn(S, m).revision + 1
      /\ touched' = TRUE /\ UNCHANGED <<space, proc, file>>
  <2>1. StateIn(stored', m) = StateIn(N, m)
    BY <1>1 DEF StateIn
  <2> QED
    BY <1>1, <2>1, ChangeIs DEF IInv
<1>3. Older(StateIn(S, m), StateIn(N, m))
  BY <1>2 DEF Older, StateShape
<1>4. StoreOK(N, TRUE) /\ Grows(S, N)
  BY <1>2, <1>3, MoveState
<1>5. StoreOK(stored', touched') /\ Grows(stored, stored')
  BY <1>1, <1>2, <1>4
<1> QED
  BY <1>2, <1>5, ClientStep

LEMMA AgentFolderOK == ASSUME IInv, NEW f \in SourceFolders, AgentFolder(f) PROVE IInv'
<1>1. PICK v : /\ v = [name |-> f, validity |-> StableValidity[f]]
               /\ Create([a \in {<<"folder", f>>} |-> v]) /\ ~Has(<<"folder", f>>)
               /\ touched' = TRUE /\ UNCHANGED <<space, proc, file>>
  BY DEF AgentFolder
<1>2. CanCreate([a \in {<<"folder", f>>} |-> v])
  BY <1>1 DEF CanCreate
<1>3. StoreOK(stored', touched) /\ Grows(stored, stored')
  BY <1>1, <1>2, FolderAdded
<1>4. StoreOK(stored', touched')
  BY <1>1, <1>3 DEF StoreOK, MessageOK
<1> QED
  BY <1>1, <1>3, <1>4, ClientStep

-----------------------------------------------------------------------------
(* The theorems.                                                            *)

LEMMA InitOK == ASSUME Init PROVE IInv
<1>1. stored = [a \in {} |-> 0] /\ DOMAIN stored = {}
  BY DEF Init
<1>2. StoreOK(stored, touched)
  <2>1. \A c, k : ~InStore(stored, c, k)
    BY <1>1 DEF InStore
  <2> QED
    BY <1>1, <2>1, FS_EmptySet DEF StoreOK, MessageOK
<1>3. \A p \in Processes : proc[p] \in {NoProc, [NoProc EXCEPT !.pc = "absent"]}
  BY DEF Init
<1>4. /\ ProcShape(NoProc) /\ NoProc.pc = "idle"
      /\ ProcShape([NoProc EXCEPT !.pc = "absent"]) /\ [NoProc EXCEPT !.pc = "absent"].pc = "absent"
  BY DEF NoProc, ProcShape, ProcFields, ListFields, NoList
<1>5. \A p \in Processes : ProcShape(proc[p]) /\ proc[p].pc \in {"idle", "absent"}
  <2> SUFFICES ASSUME NEW p \in Processes PROVE ProcShape(proc[p]) /\ proc[p].pc \in {"idle", "absent"}
    OBVIOUS
  <2>1. CASE proc[p] = NoProc
    BY <1>4, <2>1
  <2>2. CASE proc[p] = [NoProc EXCEPT !.pc = "absent"]
    BY <1>4, <2>2
  <2> QED
    BY <1>3, <2>1, <2>2
<1>6. \A p \in Importers : ImporterOK(proc[p], stored, space)
  <2> SUFFICES ASSUME NEW p \in Importers PROVE ImporterOK(proc[p], stored, space)
    OBVIOUS
  <2>1. proc[p].pc \notin ImporterPlaces
    BY <1>5 DEF Processes, ImporterPlaces, AtFolders, AtMessages, AtUpload, AtVerification, AtListing
  <2> QED
    BY <2>1, OutsideOK
<1>7. \A p \in Builders : BuilderOK(proc[p], stored, file[p])
  <2> SUFFICES ASSUME NEW p \in Builders PROVE BuilderOK(proc[p], stored, file[p])
    OBVIOUS
  <2>1. proc[p].pc \notin AtListing \cup {"build", "passed"}
    BY <1>5 DEF Processes, AtListing
  <2> QED
    BY <2>1, OutsideBuilder
<1>8. DOMAIN proc = Processes /\ DOMAIN file = Builders
  BY DEF Init
<1> QED
  BY <1>2, <1>5, <1>6, <1>7, <1>8 DEF IInv

LEMMA NextOK == ASSUME IInv, [Next]_vars PROVE IInv'
<1>1. ASSUME UNCHANGED vars PROVE IInv'
  <2>1. UNCHANGED <<space, stored, proc, file, touched>>
    BY <1>1 DEF vars
  <2>2. StoreOK(stored, touched)
    BY DEF IInv
  <2>3. StoreOK(stored', touched') /\ Grows(stored, stored')
    BY <2>1, <2>2, GrowsSame
  <2> QED
    BY <2>1, <2>3, ClientStep
<1> QED
  BY <1>1, ImportOK, BuildOK, FaultOK, ChangeOK, AgentFolderOK DEF Next

\* The records are whole, what an importer has passed is there, and what a
\* rebuild has read is of its time or later: migrate.Run, Verify and Rebuild
\* over UploadBlob, applyWrites and ListRecords, whatever fails in between.
THEOREM MigrationInvariant == Spec => []IInv
<1>1. Init => IInv
  BY InitOK
<1>2. IInv /\ [Next]_vars => IInv'
  BY NextOK
<1> QED
  BY <1>1, <1>2, PTL DEF Spec

LEMMA RecordKeys ==
    ASSUME IInv
    PROVE  /\ Keys("message") = {m \in SourceMessages : InStore(stored, "message", m)}
           /\ \A b \in Keys("index") : b \in Bodies /\ InStore(stored, "index", b)
<1>1. DOMAIN stored \subseteq Addresses
  BY DEF IInv, StoreOK
<1>2. \A a \in DOMAIN stored : a[1] = "message" => a[2] \in SourceMessages /\ a = <<"message", a[2]>>
  BY <1>1 DEF Addresses
<1>3. \A a \in DOMAIN stored : a[1] = "index" => a[2] \in Bodies /\ a = <<"index", a[2]>>
  BY <1>1 DEF Addresses
<1>4. \A m \in SourceMessages : InStore(stored, "message", m) => m \in Keys("message")
  <2> SUFFICES ASSUME NEW m \in SourceMessages, InStore(stored, "message", m) PROVE m \in Keys("message")
    OBVIOUS
  <2>1. PICK a : a = <<"message", m>> /\ a \in DOMAIN stored /\ a[1] = "message" /\ a[2] = m
    BY DEF InStore
  <2> QED
    BY <2>1 DEF Keys
<1>5. \A m \in Keys("message") : m \in SourceMessages /\ InStore(stored, "message", m)
  BY <1>2 DEF Keys, InStore
<1>6. \A b \in Keys("index") : b \in Bodies /\ InStore(stored, "index", b)
  BY <1>3 DEF Keys, InStore
<1> QED
  BY <1>4, <1>5, <1>6

\* At every moment a message has its state and a body that can be read back,
\* and an indexed body is whole: the order of UploadBlob's records and the
\* atomic pair of importMessage, for any bodies, chunks and importers.
THEOREM NoHalfMessages == Spec => []AlwaysRecoverable
<1>1. IInv => AlwaysRecoverable
  <2> SUFFICES ASSUME IInv PROVE AlwaysRecoverable
    OBVIOUS
  <2>1. StoreOK(stored, touched)
    BY DEF IInv
  <2>2. Keys("message") = Keys("state")
    BY <2>1, RecordKeys, StateKeys DEF StoreOK, MessageOK
  <2>3. ASSUME NEW m \in Keys("message") PROVE Readable(stored[<<"message", m>>].raw)
    <3>1. m \in SourceMessages /\ InStore(stored, "message", m)
      BY <2>3, RecordKeys
    <3>2. stored[<<"message", m>>] = Message(m) /\ PlanIn(stored, Source[m].body)
      BY <2>1, <3>1 DEF StoreOK, MessageOK
    <3>3. Source[m].body \in Bodies /\ Message(m).raw = Source[m].body
      BY <3>1, MigrationAssumption DEF Message
    <3>4. Readable(Source[m].body)
      BY <3>2, <3>3, PlanReadable
    <3> QED
      BY <3>2, <3>3, <3>4
  <2>4. \A b \in Keys("index") : Readable(b)
    <3>1. \A b \in Keys("index") : b \in Bodies /\ PlanIn(stored, b)
      BY <2>1, RecordKeys DEF StoreOK
    <3> QED
      BY <3>1, PlanReadable
  <2> QED
    BY <2>2, <2>3, <2>4 DEF AlwaysRecoverable
<1> QED
  BY <1>1, MigrationInvariant, PTL

\* A run that passed leaves the whole source in a private space, whatever
\* other runs, faults and clients did: Run's stages and Verify.
THEOREM PassesAreComplete == Spec => []PassedMeansComplete
<1>1. IInv => PassedMeansComplete
  <2> SUFFICES ASSUME IInv, NEW p \in Importers, proc[p].pc = "passed"
               PROVE  /\ space = "private"
                      /\ \A f \in SourceFolders : Has(<<"folder", f>>) /\ stored[<<"folder", f>>] = Folder(f)
                      /\ \A m \in SourceMessages : MessageHeld(m) /\ Has(<<"state", m>>)
                      /\ ~touched => \A m \in SourceMessages : StateHeld(m)
    BY DEF PassedMeansComplete
  <2>1. space = "private" /\ AllFolders(stored) /\ AllMessages(stored) /\ StoreOK(stored, touched)
    BY VerifyingFacts DEF AtVerification, IInv
  <2>2. \A f \in SourceFolders : Has(<<"folder", f>>) /\ stored[<<"folder", f>>] = Folder(f)
    BY <2>1 DEF AllFolders, FolderIs, InStore, Has
  <2>3. ASSUME NEW m \in SourceMessages
        PROVE  MessageHeld(m) /\ Has(<<"state", m>>) /\ (~touched => StateHeld(m))
    <3>1. InStore(stored, "message", m) /\ MessageOK(stored, touched, m)
      BY <2>1 DEF AllMessages, StoreOK
    <3>2. /\ InStore(stored, "state", m) /\ stored[<<"message", m>>] = Message(m)
          /\ PlanIn(stored, Source[m].body) /\ (~touched => StateIn(stored, m) = State(m))
      BY <3>1 DEF MessageOK
    <3>3. Source[m].body \in Bodies /\ Message(m).raw = Source[m].body
      BY MigrationAssumption DEF Message
    <3>4. Readable(Source[m].body)
      BY <3>2, <3>3, PlanReadable
    <3> QED
      BY <3>1, <3>2, <3>3, <3>4 DEF MessageHeld, StateHeld, Has, InStore, StateIn
  <2> QED
    BY <2>1, <2>2, <2>3
<1> QED
  BY <1>1, MigrationInvariant, PTL

\* A rebuilt projection holds what was live when the rebuild began, as it was
\* or later, and nothing that was deleted before: Rebuild's three listings
\* under ListRecords, for any page size and any concurrent changes.
THEOREM ProjectionsFaithful == Spec => []ProjectionFaithful
<1>1. IInv => ProjectionFaithful
  <2> SUFFICES ASSUME IInv, NEW p \in Builders, proc[p].pc = "passed", NEW m \in DOMAIN proc[p].views[1]
               PROVE  IF proc[p].views[1][m].tombstone THEN m \notin DOMAIN file[p]
                      ELSE IF m \in DOMAIN file[p] THEN file[p][m].revision >= proc[p].views[1][m].revision
                      ELSE stored[<<"state", m>>].tombstone
    BY DEF ProjectionFaithful
  <2>1. PICK before, states, rows :
            before = proc[p].views[1] /\ states = proc[p].views[3] /\ rows = file[p]
    OBVIOUS
  <2>2. /\ ReadAfter(before, before, stored) /\ ReadAfter(states, before, stored)
        /\ DOMAIN before \subseteq DOMAIN states /\ rows = Rows(states)
    BY <2>1, BuildingFacts DEF ReadOK, StateView
  <2>3. m \in DOMAIN before /\ m \in DOMAIN states
    BY <2>1, <2>2
  <2>4. /\ StateShape(before[m]) /\ StateShape(states[m]) /\ Older(before[m], states[m])
        /\ Older(states[m], StateIn(stored, m))
    BY <2>2, <2>3 DEF ReadAfter
  <2>5. /\ DOMAIN rows = {x \in DOMAIN states : ~states[x].tombstone}
        /\ m \in DOMAIN rows => rows[m].revision = states[m].revision
    BY <2>2 DEF Rows
  <2>6. CASE before[m].tombstone
    <3>1. states[m].tombstone
      BY <2>4, <2>6 DEF Older
    <3> QED
      BY <2>1, <2>5, <2>6, <3>1
  <2>7. CASE ~before[m].tombstone
    <3>1. m \in DOMAIN rows => rows[m].revision >= before[m].revision
      BY <2>4, <2>5 DEF Older, StateShape
    <3>2. m \notin DOMAIN rows => StateIn(stored, m).tombstone
      BY <2>3, <2>4, <2>5 DEF Older
    <3> QED
      BY <2>1, <2>7, <3>1, <3>2 DEF StateIn
  <2> QED
    BY <2>6, <2>7
<1> QED
  BY <1>1, MigrationInvariant, PTL

\* allocateProjectionIdentities gives no UID of a folder twice, for any
\* listing a rebuild can have read and any preserved identities.
THEOREM UIDsStayDistinct == Spec => []UIDsDistinct
<1>1. IInv => UIDsDistinct
  <2> SUFFICES ASSUME IInv, NEW p \in Builders, proc[p].pc = "build", Allocated(p)
               PROVE  DistinctUIDs(Rows(StateView(p)))
    BY DEF UIDsDistinct
  <2>1. PICK folders, states, messages :
            folders = FolderView(p) /\ states = StateView(p) /\ messages = Got(p)
    OBVIOUS
  <2>2. GraphFits(folders, states, messages) /\ Listable(states)
    BY <2>1, BuildingFacts DEF ReadOK, ReadAfter, Listable, StateView
  <2>3. \A f \in DOMAIN folders : Allocatable(states, f)
    BY <2>1 DEF Allocated
  <2>4. DistinctUIDs(Rows(states))
    BY <2>2, <2>3, RowsApart
  <2> QED
    BY <2>1, <2>4
<1> QED
  BY <1>1, MigrationInvariant, PTL

-----------------------------------------------------------------------------
(* The migration implements the versioned store.                            *)

StatesIn(S) == {m \in SourceMessages : InStore(S, "state", m)}
Entry(S, m) == [revision |-> StateIn(S, m).revision, live |-> ~StateIn(S, m).tombstone]
HeldIn(S) == [m \in StatesIn(S) |-> Entry(S, m)]

\* No state is added or changed
SameStates(S, N) ==
    StatesIn(N) = StatesIn(S) /\ \A m \in StatesIn(S) : StateIn(N, m) = StateIn(S, m)

LEMMA HeldIs == ASSUME IInv PROVE Held = HeldIn(stored)
<1>1. StoreOK(stored, touched)
  BY DEF IInv
<1>2. Keys("state") = StatesIn(stored)
  BY <1>1, StateKeys DEF StatesIn
<1> QED
  BY <1>2 DEF Held, HeldIn, Entry, StateIn

LEMMA SameHeld == ASSUME NEW S, NEW N, SameStates(S, N) PROVE HeldIn(N) = HeldIn(S)
BY DEF SameStates, HeldIn, Entry

LEMMA PlainSame ==
    ASSUME NEW S, NEW N, NEW a, DOMAIN N = DOMAIN S \cup {a}, a[1] # "state",
           \A x \in DOMAIN S : N[x] = S[x]
    PROVE  SameStates(S, N)
<1>1. \A m : a # <<"state", m>>
  OBVIOUS
<1> QED
  BY <1>1 DEF SameStates, StatesIn, InStore, StateIn

\* A record that is not there is created
LEMMA CreatedSame ==
    ASSUME NEW a, NEW v, a[1] # "state", CanCreate([x \in {a} |-> v]), Create([x \in {a} |-> v])
    PROVE  SameStates(stored, stored')
<1> DEFINE writes == [x \in {a} |-> v]
<1>1. DOMAIN writes = {a} /\ CanCreate(writes) /\ Create(writes)
  OBVIOUS
<1> HIDE DEF writes
<1>2. DOMAIN stored' = DOMAIN stored \cup {a} /\ \A x \in DOMAIN stored : stored'[x] = stored[x]
  BY <1>1, Created
<1> QED
  BY <1>2, PlainSame

LEMMA UnchangedSame == ASSUME stored' = stored PROVE SameStates(stored, stored')
BY DEF SameStates

\* Only PutPair and Change do something to the states
LEMMA ImportStates ==
    ASSUME IInv, NEW p \in Importers, Import(p), ~PutPair(p)
    PROVE  SameStates(stored, stored')
<1>1. CASE ReadOnly
  BY <1>1, ReadOnlyRest, UnchangedSame
<1>2. CASE CreateSpace(p)
  BY <1>2, UnchangedSame DEF CreateSpace
<1>3. CASE CreateFolder(p)
  <2>1. PICK a, v : a = <<"folder", Folders[proc[p].n]>> /\ v = Folder(Folders[proc[p].n])
    OBVIOUS
  <2>2. \/ CanCreate([x \in {a} |-> v]) /\ Create([x \in {a} |-> v])
        \/ stored' = stored
    BY <1>3, <2>1 DEF CreateFolder
  <2> QED
    BY <2>1, <2>2, CreatedSame, UnchangedSame
<1>4. CASE PutPart(p)
  <2>1. proc[p].pc = "put" /\ proc[p].pc \in AtMessages
    BY <1>4 DEF PutPart, AtMessages, AtUpload
  <2>2. PICK b, k, a, v : /\ b \in Bodies /\ k = proc[p].k /\ Plan(p) = UploadPlan(b)
                          /\ a = UploadPlan(b)[k] /\ v = Part(a) /\ k \in DOMAIN UploadPlan(b)
    BY <2>1, AtMessagesFacts DEF PartsOK
  <2>3. a[1] # "state"
    BY <2>2, PlanKinds
  <2>4. \/ CanCreate([x \in {a} |-> v]) /\ Create([x \in {a} |-> v])
        \/ stored' = stored
    BY <1>4, <2>2 DEF PutPart
  <2> QED
    BY <2>3, <2>4, CreatedSame, UnchangedSame
<1> QED
  BY <1>1, <1>2, <1>3, <1>4
  DEF Import, Begin, ListSpaces, VerifySpace, GetFolder, GetMessage, GetOrphan, GetPart,
      CheckMessage, CheckState, ListPage, ListItems, VerifyMessages, VerifyMessage, VerifyState,
      VerifyFolders, VerifyStates

LEMMA BuildStates ==
    ASSUME NEW p \in Builders, Build(p)
    PROVE  SameStates(stored, stored')
<1>1. CASE ReadOnly
  BY <1>1, ReadOnlyRest, UnchangedSame
<1>2. CASE CheckGraph(p) \/ WriteRows(p)
  BY <1>2, UnchangedSame DEF CheckGraph, WriteRows, Provider, providerVars
<1> QED
  BY <1>1, <1>2 DEF Build, BeginBuild, ListPage, ListItems, BuildList

\* The messages H with m stored among them
Stored(H, m, G) ==
    /\ m \notin DOMAIN H /\ m \in DOMAIN G
    /\ G = [x \in DOMAIN H \cup {m} |-> IF x = m THEN [revision |-> 1, live |-> TRUE] ELSE H[x]]

\* A pair that is added is a message that is stored
LEMMA PairHeld ==
    ASSUME NEW S, NEW N, NEW m \in SourceMessages, ~InStore(S, "state", m),
           DOMAIN N = DOMAIN S \cup {<<"message", m>>, <<"state", m>>},
           StateIn(N, m) = State(m), \A x \in DOMAIN S : N[x] = S[x]
    PROVE  Stored(HeldIn(S), m, HeldIn(N))
<1>1. StatesIn(N) = StatesIn(S) \cup {m} /\ m \notin StatesIn(S)
  BY DEF StatesIn, InStore
<1>2. \A x \in StatesIn(S) : StateIn(N, x) = StateIn(S, x)
  BY DEF StatesIn, InStore, StateIn
<1>3. Entry(N, m) = [revision |-> 1, live |-> TRUE]
  <2>1. StateIn(N, m).revision = 1 /\ StateIn(N, m).tombstone = FALSE
    BY DEF State
  <2>2. (~StateIn(N, m).tombstone) = TRUE
    BY <2>1
  <2> QED
    BY <2>1, <2>2 DEF Entry
<1>4. \A x \in StatesIn(S) : Entry(N, x) = HeldIn(S)[x]
  BY <1>2 DEF Entry, HeldIn
<1>5. DOMAIN HeldIn(S) = StatesIn(S)
  BY DEF HeldIn
<1>6. HeldIn(N) = [x \in StatesIn(N) |-> Entry(N, x)]
  BY DEF HeldIn
<1> HIDE DEF HeldIn
<1> QED
  BY <1>1, <1>3, <1>4, <1>5, <1>6 DEF Stored

\* A state that moves on is a message that changes
LEMMA ChangeHeld ==
    ASSUME NEW S, NEW N, NEW m \in SourceMessages, InStore(S, "state", m), ~StateIn(S, m).tombstone,
           DOMAIN N = DOMAIN S, \A x \in DOMAIN S : x # <<"state", m>> => N[x] = S[x],
           StateIn(N, m).revision = StateIn(S, m).revision + 1, StateShape(StateIn(N, m))
    PROVE  /\ m \in DOMAIN HeldIn(S) /\ HeldIn(S)[m].live
           /\ \E live \in BOOLEAN :
                HeldIn(N) = [HeldIn(S) EXCEPT ![m] = [revision |-> HeldIn(S)[m].revision + 1, live |-> live]]
<1>1. StatesIn(N) = StatesIn(S) /\ m \in StatesIn(S)
  BY DEF StatesIn, InStore
<1>2. \A x \in StatesIn(S) : x # m => StateIn(N, x) = StateIn(S, x)
  BY DEF StatesIn, InStore, StateIn
<1>3. PICK live \in BOOLEAN : live = ~StateIn(N, m).tombstone
  OBVIOUS
<1>4. HeldIn(S)[m] = Entry(S, m) /\ Entry(S, m).live /\ Entry(S, m).revision = StateIn(S, m).revision
  BY <1>1 DEF HeldIn, Entry
<1>5. Entry(N, m) = [revision |-> HeldIn(S)[m].revision + 1, live |-> live]
  BY <1>3, <1>4 DEF Entry
<1>6. \A x \in StatesIn(S) : x # m => Entry(N, x) = HeldIn(S)[x]
  BY <1>2 DEF Entry, HeldIn
<1>7. DOMAIN HeldIn(S) = StatesIn(S) /\ HeldIn(S) = [x \in StatesIn(S) |-> HeldIn(S)[x]]
  BY DEF HeldIn
<1>8. HeldIn(N) = [x \in StatesIn(N) |-> Entry(N, x)]
  BY DEF HeldIn
<1> HIDE DEF HeldIn
<1>9. HeldIn(N) = [HeldIn(S) EXCEPT ![m] = [revision |-> HeldIn(S)[m].revision + 1, live |-> live]]
  BY <1>1, <1>5, <1>6, <1>7, <1>8
<1> QED
  BY <1>1, <1>4, <1>7, <1>9

\* An import, run again or raced by other clients, never takes back a change
\* of state or a tombstone: a message appears once, in its imported state,
\* and its state moves through consecutive revisions until it is deleted.
THEOREM MigrationImplementsVersionedStore == Spec => ImplementsVersionedStore
<1>1. Init => Promise!Init
  <2> SUFFICES ASSUME Init PROVE Promise!Init
    OBVIOUS
  <2>1. IInv /\ DOMAIN stored = {}
    BY InitOK DEF Init
  <2>2. DOMAIN Held = {}
    BY <2>1, HeldIs DEF HeldIn, StatesIn, InStore
  <2> QED
    BY <2>2 DEF Promise!Init
<1>2. IInv /\ IInv' /\ [Next]_vars => [Promise!Next]_Held
  <2> SUFFICES ASSUME IInv, IInv', [Next]_vars PROVE Promise!Next \/ Held' = Held
    OBVIOUS
  <2>1. Held = HeldIn(stored) /\ Held' = HeldIn(stored')
    <3>1. Held = HeldIn(stored)
      BY HeldIs
    <3>2. (Held = HeldIn(stored))'
      BY HeldIs, PTL
    <3> QED
      BY <3>1, <3>2
  <2>2. ASSUME SameStates(stored, stored') PROVE Held' = Held
    BY <2>1, <2>2, SameHeld
  <2>3. ASSUME NEW p \in Importers, PutPair(p) PROVE Promise!Next \/ Held' = Held
    <3>1. PICK m, N : m = Now(p) /\ N = stored'
      OBVIOUS
    <3>2. CASE CanCreate(Pair(m)) /\ Create(Pair(m))
      <4>1. /\ m \in SourceMessages /\ ~InStore(stored, "state", m)
            /\ DOMAIN N = DOMAIN stored \cup {<<"message", m>>, <<"state", m>>}
            /\ StateIn(N, m) = State(m) /\ \A x \in DOMAIN stored : N[x] = stored[x]
        BY <2>3, <3>1, <3>2, PairAdded DEF PutPair, StateIn
      <4>2. Stored(HeldIn(stored), m, HeldIn(N))
        BY <4>1, PairHeld
      <4>3. /\ m \notin DOMAIN Held /\ m \in DOMAIN Held'
            /\ Held' = [x \in DOMAIN Held \cup {m} |->
                    IF x = m THEN [revision |-> 1, live |-> TRUE] ELSE Held[x]]
        BY <2>1, <3>1, <4>2 DEF Stored
      <4>4. Promise!Store(m, {})
        BY <4>3 DEF Promise!Store
      <4> QED
        BY <4>3, <4>4 DEF Promise!Next
    <3>3. CASE stored' = stored
      BY <2>2, <3>3, UnchangedSame
    <3> QED
      BY <2>3, <3>1, <3>2, <3>3 DEF PutPair
  <2>4. ASSUME NEW m \in SourceMessages, NEW op \in UserOps, Change(m, op) PROVE Promise!Next
    <3>1. PICK N : N = stored'
      OBVIOUS
    <3>2. /\ InStore(stored, "state", m) /\ ~StateIn(stored, m).tombstone
          /\ DOMAIN N = DOMAIN stored /\ \A x \in DOMAIN stored : x # <<"state", m>> => N[x] = stored[x]
          /\ StateIn(N, m).revision = StateIn(stored, m).revision + 1 /\ StateShape(StateIn(N, m))
      <4>1. StateIn(stored', m) = StateIn(N, m)
        BY <3>1 DEF StateIn
      <4> QED
        BY <2>4, <3>1, <4>1, ChangeIs
    <3>3. /\ m \in DOMAIN HeldIn(stored) /\ HeldIn(stored)[m].live
          /\ \E live \in BOOLEAN : HeldIn(N) =
                [HeldIn(stored) EXCEPT ![m] = [revision |-> HeldIn(stored)[m].revision + 1, live |-> live]]
      BY <3>2, ChangeHeld
    <3>4. Promise!Change(m)
      BY <2>1, <3>1, <3>3 DEF Promise!Change
    <3> QED
      BY <2>1, <3>3, <3>4 DEF Promise!Next
  <2>5. ASSUME NEW f \in SourceFolders, AgentFolder(f) PROVE Held' = Held
    <3>1. PICK a, v : /\ a = <<"folder", f>> /\ v = [name |-> f, validity |-> StableValidity[f]]
                      /\ Create([x \in {a} |-> v]) /\ ~Has(a)
      BY <2>5 DEF AgentFolder
    <3>2. CanCreate([x \in {a} |-> v])
      BY <3>1 DEF CanCreate
    <3> QED
      BY <2>2, <3>1, <3>2, CreatedSame
  <2>6. ASSUME NEW p \in Processes, Fault(p) PROVE Held' = Held
    BY <2>2, <2>6, UnchangedSame DEF Fault, Provider, providerVars
  <2>7. ASSUME UNCHANGED vars PROVE Held' = Held
    BY <2>2, <2>7, UnchangedSame DEF vars
  <2> QED
    BY <2>2, <2>3, <2>4, <2>5, <2>6, <2>7, ImportStates, BuildStates DEF Next
<1> QED
  BY <1>1, <1>2, MigrationInvariant, PTL DEF Spec, ImplementsVersionedStore, Promise!Spec

=============================================================================
