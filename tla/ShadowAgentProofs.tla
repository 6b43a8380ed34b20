--------------------------- MODULE ShadowAgentProofs ---------------------------
(***************************************************************************)
(* The v2 agent keeps its mailbox complete, writes every operation once,   *)
(* shows an inventory walk every message and implements VersionedStore,    *)
(* for any number of requests, messages and operations.                    *)
(*                                                                         *)
(* The inductive invariant says of the space: messages and states come in  *)
(* pairs, with their bytes and folders, and an operation that was written  *)
(* has moved the revision past the one it expects (so that it is never     *)
(* written again); of each request: what it has read and still relies on;  *)
(* of the walk: what lies before its offset, it has seen.  Each part is    *)
(* stated of the values it is about, so that a step that grows the space   *)
(* keeps it by one lemma.                                                  *)
(***************************************************************************)
EXTENDS ShadowAgent, FiniteSetTheorems, SequenceTheorems, WellFoundedInduction, TLAPS

Has(R, c, k) == <<c, k>> \in DOMAIN R
StateIn(R, fp) == R[<<"state", fp>>]

Addresses == ({"folder"} \X Mailboxes) \cup ({"message", "state"} \X Fingerprints)

\* A message, its state, its bytes and its folder
PairOK(R, B, fp) ==
    /\ Has(R, "message", fp) <=> Has(R, "state", fp)
    /\ Has(R, "message", fp) => R[<<"message", fp>>] = Message(fp) /\ fp[2] \in B
    /\ Has(R, "state", fp) =>
        StateIn(R, fp) \in StateType /\ Has(R, "folder", StateIn(R, fp).mailbox)

\* Who wrote a state last has been counted; who was counted has moved it on
CountOK(R, A) ==
    /\ A \in [Ops -> {0, 1}]
    /\ \A fp \in Fingerprints : Has(R, "state", fp) =>
        \A o \in Ops : StateIn(R, fp).last = o => A[o] = 1
    /\ \A o \in Ops : A[o] = 1 =>
        /\ Has(R, "state", Mutation[o].fp)
        /\ StateIn(R, Mutation[o].fp).revision > Mutation[o].expected

SpaceOK(R, B, A) ==
    /\ DOMAIN R \subseteq Addresses /\ IsFiniteSet(DOMAIN R)
    /\ B \subseteq Bodies
    /\ \A fp \in Fingerprints : PairOK(R, B, fp)
    /\ CountOK(R, A)

-----------------------------------------------------------------------------

Storing == {"message", "state", "versions", "prior", "upload", "apply", "list", "single",
            "reconcile", "verify"}
CaptureOnly == {"versions", "prior", "list", "single", "reconcile"}
Changing == {"replace", "current", "destination", "put"}
Labels == {"idle", "folder", "newFolder"} \cup Storing \cup Changing \cup Ended

PriorType == [fp: Fingerprints, state: StateType]

JobType ==
    [pc: Labels, kind: {"none", "capture", "mirror", "change"},
     fp: Fingerprints \cup {<<>>}, mailbox: Mailboxes \cup {<<>>}, keywords: SUBSET Keywords,
     mut: MutationType(Ops \cup AgentOps) \cup {<<>>}, seen: StateType \cup {<<>>},
     todo: SUBSET Fingerprints, prior: SUBSET PriorType, live: Nat, fresh: BOOLEAN]

\* The input of a request under way
InputOK(j) ==
    /\ j.pc = "idle" <=> j.kind = "none"
    /\ j.kind # "none" => j.fp \in Fingerprints
    /\ j.kind # "none" /\ j.pc \notin Ended => j.mailbox \in Mailboxes
    /\ j.pc \in Storing => j.kind \in {"capture", "mirror"}
    /\ j.pc \in CaptureOnly => j.kind = "capture"
    /\ j.kind = "change" => j.mut.op \in Ops /\ j.mut = [Mutation[j.mut.op] EXCEPT !.op = j.mut.op]

\* A version found live, which the batch is to supersede
PriorOK(j, R) ==
    /\ \A p, q \in j.prior : p = q
    /\ \A p \in j.prior :
        /\ ~p.state.tombstone /\ Has(R, "folder", p.state.mailbox)
        /\ p.fp # j.fp /\ p.fp[1] = j.fp[1]
    /\ j.pc = "prior" => \A fp \in j.todo : fp # j.fp /\ fp[1] = j.fp[1]

\* A change under way: what it read is what it expects, its folders exist
ChangeOK(j, R) ==
    j.pc \in Changing =>
        /\ j.kind \in {"capture", "change"} /\ j.mut \in MutationType(Ops \cup AgentOps)
        /\ j.kind = "capture" => j.mut.op \in AgentOps /\ Has(R, "folder", j.mailbox)
        /\ j.pc \in {"destination", "put"} =>
            /\ j.seen \in StateType /\ j.seen.revision = j.mut.expected
            /\ ~j.seen.tombstone /\ Has(R, "folder", j.seen.mailbox)
        /\ j.pc = "put" /\ j.mut.operation \in {"replace", "move"} =>
            Has(R, "folder", j.mut.mailbox)

JobOK(j, R, B, A) ==
    /\ j \in JobType
    /\ InputOK(j) /\ PriorOK(j, R) /\ ChangeOK(j, R)
    /\ j.pc \in Storing => Has(R, "folder", j.mailbox)
    /\ j.pc = "apply" => j.fp[2] \in B
    /\ j.kind = "change" /\ j.pc = "ok" => A[j.mut.op] = 1

-----------------------------------------------------------------------------

StatesIn(R) == {fp \in Fingerprints : Has(R, "state", fp)}
Lower(R, fp) == {g \in StatesIn(R) : Rank[g] < Rank[fp]}

WalkType ==
    [pc: {"idle", "folders", "page", "done", "torn", "invalid", "failed"}, offset: Nat,
     folders: SUBSET Mailboxes, start: SUBSET Fingerprints, seen: SUBSET Fingerprints]

\* What was there at the beginning and lies before the offset has been seen
WalkOK(w, R) ==
    /\ w \in WalkType
    /\ w.pc = "idle" => w.offset = 0
    /\ w.start \subseteq StatesIn(R)
    /\ \A fp \in w.start : Cardinality(Lower(R, fp)) < w.offset => fp \in w.seen
    /\ w.pc = "done" => w.start \subseteq w.seen

IInv ==
    /\ SpaceOK(records, blobs, applied)
    /\ job \in [Requests -> JobType]
    /\ \A r \in Requests : JobOK(job[r], records, blobs, applied)
    /\ WalkOK(walk, records)

-----------------------------------------------------------------------------
(* Facts about numbers, sequences of writes and the space.                  *)

\* A non-empty set of numbers has a least member
LEMMA LeastNumber ==
    ASSUME NEW T \in SUBSET Nat, T # {}
    PROVE  \E n \in T : \A m \in T : n <= m
<1>1. PICK n \in T : \A m \in T : ~(<<m, n>> \in OpToRel(<, Nat))
  BY NatLessThanWellFounded, WFMin
<1>2. \A m \in T : ~(m < n)
  BY <1>1 DEF OpToRel
<1> QED
  BY <1>2

\* The first of a set of messages, in the order of keys, is one of them
LEMMA FirstMember ==
    ASSUME NEW S \in SUBSET Fingerprints, S # {}
    PROVE  First(S) \in S
<1>1. {Rank[fp] : fp \in S} \in SUBSET Nat /\ {Rank[fp] : fp \in S} # {}
  BY AgentAssumption
<1>2. PICK n \in {Rank[fp] : fp \in S} : \A m \in {Rank[fp] : fp \in S} : n <= m
  BY <1>1, LeastNumber
<1>3. \E fp \in S : \A other \in S : Rank[fp] <= Rank[other]
  BY <1>2
<1> QED
  BY <1>3 DEF First

\* A write that succeeds found what it expects
LEMMA WriteSucceeds ==
    ASSUME NEW w, w.action \in {"create", "update"}, WriteError(w) = "none"
    PROVE  /\ w.action = "create" => Address(w) \notin DOMAIN records
           /\ w.action = "update" => Address(w) \in DOMAIN records
           /\ w.action = "update" /\ w.swap # NoCID => records[Address(w)] = w.swap
           /\ BlobCIDs(w.collection, w.value) \subseteq blobs
  BY DEF WriteError

\* A batch that succeeds has no write that fails
LEMMA BatchSucceeds ==
    ASSUME NEW writes, DOMAIN writes \subseteq Nat, BatchError(writes) = "none"
    PROVE  \A i \in DOMAIN writes : WriteError(writes[i]) = "none"
<1> DEFINE failed == {i \in DOMAIN writes : WriteError(writes[i]) # "none"}
<1>1. SUFFICES ASSUME failed # {} PROVE FALSE
  OBVIOUS
<1>2. \E i \in failed : \A j \in failed : i <= j
  BY <1>1, LeastNumber
<1>3. (CHOOSE i \in failed : \A j \in failed : i <= j) \in failed
  BY <1>2
<1> QED
  BY <1>1, <1>3 DEF BatchError

\* A batch at different addresses writes each of its values
LEMMA AppliedBatch ==
    ASSUME NEW writes,
           \A i, j \in DOMAIN writes : Address(writes[i]) = Address(writes[j]) => i = j
    PROVE  /\ DOMAIN Applied(writes) = DOMAIN records \cup {Address(writes[i]) : i \in DOMAIN writes}
           /\ \A i \in DOMAIN writes : Applied(writes)[Address(writes[i])] = writes[i].value
           /\ \A a \in DOMAIN records :
                (\A i \in DOMAIN writes : a # Address(writes[i])) => Applied(writes)[a] = records[a]
<1> DEFINE touched == {Address(writes[i]) : i \in DOMAIN writes}
           Written(a) == writes[CHOOSE i \in DOMAIN writes : Address(writes[i]) = a].value
<1>1. Applied(writes) =
        [a \in DOMAIN records \cup touched |-> IF a \in touched THEN Written(a) ELSE records[a]]
  BY DEF Applied
<1>2. \A i \in DOMAIN writes : Written(Address(writes[i])) = writes[i].value
  <2> SUFFICES ASSUME NEW i \in DOMAIN writes PROVE Written(Address(writes[i])) = writes[i].value
    OBVIOUS
  <2>1. (CHOOSE j \in DOMAIN writes : Address(writes[j]) = Address(writes[i])) = i
    OBVIOUS
  <2> QED
    BY <2>1
<1> QED
  BY <1>1, <1>2

-----------------------------------------------------------------------------
(* The writes of the agent, as relations between the records R before and   *)
(* the records N after.                                                     *)

Buried(s, fp) == [s EXCEPT !.tombstone = TRUE, !.revision = @ + 1, !.last = VersionOp(fp)]

FolderIn(mailbox, R, N) ==
    /\ DOMAIN N = DOMAIN R \cup {<<"folder", mailbox>>}
    /\ \A a \in DOMAIN R : N[a] = R[a]

StoredIn(j, R, N) ==
    /\ ~Has(R, "message", j.fp) /\ ~Has(R, "state", j.fp)
    /\ DOMAIN N = DOMAIN R \cup {<<"message", j.fp>>, <<"state", j.fp>>}
    /\ N[<<"message", j.fp>>] = Message(j.fp)
    /\ StateIn(N, j.fp) = NewState(j.mailbox, j.keywords)
    /\ \A p \in j.prior :
        /\ Has(R, "state", p.fp) /\ StateIn(R, p.fp) = p.state
        /\ StateIn(N, p.fp) = Buried(p.state, j.fp)
    /\ \A a \in DOMAIN R : (\A p \in j.prior : a # <<"state", p.fp>>) => N[a] = R[a]

ChangedIn(j, R, N) ==
    /\ Has(R, "state", j.mut.fp) /\ StateIn(R, j.mut.fp) = j.seen
    /\ DOMAIN N = DOMAIN R
    /\ StateIn(N, j.mut.fp) = NextState(j.seen, j.mut)
    /\ \A a \in DOMAIN R : a # <<"state", j.mut.fp>> => N[a] = R[a]

CountedIn(j, A, D) ==
    D = IF j.mut.op \in Ops THEN [A EXCEPT ![j.mut.op] = @ + 1] ELSE A

\* Creating a folder, or finding that another request has
LEMMA FolderWritten ==
    ASSUME NEW mailbox, ApplyWrites(<<Create("folder", mailbox, [name |-> mailbox])>>)
    PROVE  (records' = records /\ Has(records, "folder", mailbox))
           \/ FolderIn(mailbox, records, records')
<1> DEFINE w == Create("folder", mailbox, [name |-> mailbox])
           writes == <<w>>
<1>1. Address(w) = <<"folder", mailbox>> /\ w.action = "create" /\ w.collection = "folder"
  BY DEF Create, Address
<1>2. CASE Has(records, "folder", mailbox)
  <2>1. WriteError(w) # "none"
    BY <1>1, <1>2, WriteSucceeds DEF Has
  <2>2. BatchError(writes) # "none"
    <3> HIDE DEF w
    <3>1. 1 \in DOMAIN writes /\ writes[1] = w /\ DOMAIN writes \subseteq Nat
      OBVIOUS
    <3> QED
      BY <2>1, <3>1, BatchSucceeds
  <2> QED
    BY <1>2, <2>2 DEF ApplyWrites
<1>3. CASE ~Has(records, "folder", mailbox)
  <2>1. WriteError(w) = "none"
    <3>1. BlobCIDs(w.collection, w.value) = {}
      BY <1>1 DEF BlobCIDs
    <3> QED
      BY <1>1, <1>3, <3>1 DEF WriteError, Has
  <2> HIDE DEF w
  <2>2. DOMAIN writes = {1} /\ writes[1] = w
    OBVIOUS
  <2>3. BatchError(writes) = "none"
    BY <2>1, <2>2 DEF BatchError
  <2>4. records' = Applied(writes)
    BY <2>3 DEF ApplyWrites, w
  <2>5. \A i, j \in DOMAIN writes : i = j
    BY <2>2
  <2> HIDE DEF writes
  <2>6. /\ DOMAIN Applied(writes) = DOMAIN records \cup {Address(writes[i]) : i \in DOMAIN writes}
        /\ \A a \in DOMAIN records :
             (\A i \in DOMAIN writes : a # Address(writes[i])) => Applied(writes)[a] = records[a]
    BY <2>5, AppliedBatch
  <2> QED
    BY <1>1, <1>3, <2>2, <2>4, <2>6 DEF FolderIn, Has
<1> QED
  BY <1>2, <1>3

\* A pair followed by a third
LEMMA PairAndOne ==
    ASSUME NEW a, NEW b, NEW c PROVE <<a, b>> \o <<c>> = <<a, b, c>>
<1> DEFINE T == {a, b, c}
<1>1. <<a, b>> \in Seq(T) /\ <<c>> \in Seq(T) /\ <<a, b, c>> \in Seq(T)
  OBVIOUS
<1>2. Len(<<a, b>> \o <<c>>) = 3 /\ \A i \in 1 .. 3 : (<<a, b>> \o <<c>>)[i] = <<a, b, c>>[i]
  BY <1>1
<1>3. <<a, b>> \o <<c>> \in Seq(T) /\ Len(<<a, b, c>>) = 3
  BY <1>1
<1> HIDE DEF T
<1> QED
  BY <1>1, <1>2, <1>3, SeqEqual

\* A batch of capture or mirror that succeeds stores the pair, and buries
LEMMA BatchStores ==
    ASSUME NEW r \in Requests, JobOK(job[r], records, blobs, applied),
           BatchError(Batch(r)) = "none"
    PROVE  StoredIn(job[r], records, Applied(Batch(r)))
<1> DEFINE j == job[r]
           w1 == Create("message", j.fp, Message(j.fp))
           w2 == Create("state", j.fp, NewState(j.mailbox, j.keywords))
           writes == Batch(r)
<1>1. /\ Address(w1) = <<"message", j.fp>> /\ w1.action = "create" /\ w1.value = Message(j.fp)
      /\ Address(w2) = <<"state", j.fp>> /\ w2.action = "create"
      /\ w2.value = NewState(j.mailbox, j.keywords)
  BY DEF Create, Address
<1>2. Pair(r) = <<w1, w2>>
  BY DEF Pair
<1>3. j \in JobType /\ PriorOK(j, records)
  BY DEF JobOK
<1> HIDE DEF w1, w2
<1>4. CASE j.prior = {}
  <2>1. writes = <<w1, w2>>
    BY <1>2, <1>4 DEF Batch
  <2> HIDE DEF writes
  <2>2. DOMAIN writes = {1, 2} /\ writes[1] = w1 /\ writes[2] = w2
    BY <2>1
  <2>3. WriteError(w1) = "none" /\ WriteError(w2) = "none"
    BY <2>2, BatchSucceeds DEF writes
  <2>4. Address(w1) \notin DOMAIN records /\ Address(w2) \notin DOMAIN records
    BY <1>1, <2>3, WriteSucceeds
  <2>5. \A i, k \in DOMAIN writes : Address(writes[i]) = Address(writes[k]) => i = k
    BY <1>1, <2>2
  <2>6. /\ DOMAIN Applied(writes) = DOMAIN records \cup {Address(writes[i]) : i \in DOMAIN writes}
        /\ \A i \in DOMAIN writes : Applied(writes)[Address(writes[i])] = writes[i].value
        /\ \A a \in DOMAIN records :
             (\A i \in DOMAIN writes : a # Address(writes[i])) => Applied(writes)[a] = records[a]
    BY <2>5, AppliedBatch
  <2>7. {Address(writes[i]) : i \in DOMAIN writes} = {<<"message", j.fp>>, <<"state", j.fp>>}
    BY <1>1, <2>2
  <2> QED
    BY <1>1, <1>4, <2>2, <2>4, <2>6, <2>7 DEF StoredIn, Has, StateIn, writes
<1>5. CASE j.prior # {}
  <2>1. PICK p \in j.prior : p = CHOOSE q \in j.prior : TRUE
    BY <1>5
  <2>2. /\ \A q \in j.prior : q = p
        /\ p \in PriorType /\ p.fp # j.fp
    BY <1>3, <2>1 DEF PriorOK, JobType
  <2> DEFINE w3 == Supersede(r, p)
  <2>3. /\ Address(w3) = <<"state", p.fp>> /\ w3.action = "update" /\ w3.swap = p.state
        /\ w3.value = Buried(p.state, j.fp)
    BY DEF Supersede, Update, Address, Buried
  <2>4. Batch(r) = Pair(r) \o <<w3>>
    BY <1>5, <2>1, Zenon DEF Batch
  <2> HIDE DEF w3
  <2>5. writes = <<w1, w2, w3>>
    BY <1>2, <2>4, PairAndOne
  <2> HIDE DEF writes
  <2>6. DOMAIN writes = {1, 2, 3} /\ writes[1] = w1 /\ writes[2] = w2 /\ writes[3] = w3
    BY <2>5
  <2>7. WriteError(w1) = "none" /\ WriteError(w2) = "none" /\ WriteError(w3) = "none"
    BY <2>6, BatchSucceeds DEF writes
  <2>8. Address(w1) \notin DOMAIN records /\ Address(w2) \notin DOMAIN records
    BY <1>1, <2>7, WriteSucceeds
  <2>9. Address(w3) \in DOMAIN records /\ records[Address(w3)] = p.state
    <3>1. p.state # NoCID
      BY <2>2, AgentAssumption DEF PriorType
    <3> QED
      BY <2>3, <2>7, <3>1, WriteSucceeds
  <2>10. \A i, k \in DOMAIN writes : Address(writes[i]) = Address(writes[k]) => i = k
    <3>1. <<"state", p.fp>> # <<"state", j.fp>>
      BY <2>2
    <3> QED
      BY <1>1, <2>3, <2>6, <3>1
  <2>11. /\ DOMAIN Applied(writes) = DOMAIN records \cup {Address(writes[i]) : i \in DOMAIN writes}
         /\ \A i \in DOMAIN writes : Applied(writes)[Address(writes[i])] = writes[i].value
         /\ \A a \in DOMAIN records :
              (\A i \in DOMAIN writes : a # Address(writes[i])) => Applied(writes)[a] = records[a]
    BY <2>10, AppliedBatch
  <2>12. {Address(writes[i]) : i \in DOMAIN writes}
            = {<<"message", j.fp>>, <<"state", j.fp>>, <<"state", p.fp>>}
    BY <1>1, <2>3, <2>6
  <2>13. DOMAIN Applied(writes) = DOMAIN records \cup {<<"message", j.fp>>, <<"state", j.fp>>}
    BY <2>3, <2>9, <2>11, <2>12
  <2>14. \A a \in DOMAIN records : a # <<"state", p.fp>> => Applied(writes)[a] = records[a]
    BY <1>1, <2>3, <2>6, <2>8, <2>11
  <2>15. /\ Applied(writes)[<<"message", j.fp>>] = Message(j.fp)
         /\ Applied(writes)[<<"state", j.fp>>] = NewState(j.mailbox, j.keywords)
         /\ Applied(writes)[<<"state", p.fp>>] = Buried(p.state, j.fp)
    BY <1>1, <2>3, <2>6, <2>11
  <2> QED
    BY <1>1, <2>2, <2>3, <2>8, <2>9, <2>13, <2>14, <2>15 DEF StoredIn, Has, StateIn, writes
<1> QED
  BY <1>4, <1>5

\* A compare-and-swap that succeeds makes the next state of the one it read
LEMMA SwapChanges ==
    ASSUME NEW r \in Requests,
           CASError("state", job[r].mut.fp, job[r].seen) = "none",
           PutRecordCAS("state", job[r].mut.fp, NextState(job[r].seen, job[r].mut), job[r].seen)
    PROVE  ChangedIn(job[r], records, records')
<1>1. /\ <<"state", job[r].mut.fp>> \in DOMAIN records
      /\ records[<<"state", job[r].mut.fp>>] = job[r].seen
  BY DEF CASError, Exists, Value
<1>2. records' = [records EXCEPT ![<<"state", job[r].mut.fp>>] = NextState(job[r].seen, job[r].mut)]
  BY DEF PutRecordCAS
<1> QED
  BY <1>1, <1>2 DEF ChangedIn, Has, StateIn

-----------------------------------------------------------------------------
(* What survives the growth of the space.                                   *)

\* A request keeps what it knows while others write
LEMMA JobStable ==
    ASSUME NEW j, NEW R, NEW N, NEW B, NEW C, NEW A, NEW D, JobOK(j, R, B, A),
           DOMAIN R \subseteq DOMAIN N, B \subseteq C, \A o \in Ops : A[o] = 1 => D[o] = 1
    PROVE  JobOK(j, N, C, D)
<1>1. PriorOK(j, N) /\ ChangeOK(j, N)
  BY DEF JobOK, PriorOK, ChangeOK, Has
<1>2. j.kind = "change" /\ j.pc = "ok" => D[j.mut.op] = 1
  BY DEF JobOK, InputOK
<1> QED
  BY <1>1, <1>2 DEF JobOK, Has

\* A space holds finitely many states
LEMMA StatesFinite ==
    ASSUME NEW R, IsFiniteSet(DOMAIN R)
    PROVE  IsFiniteSet(StatesIn(R))
<1> DEFINE f == [fp \in StatesIn(R) |-> <<"state", fp>>]
<1>1. f \in Injection(StatesIn(R), DOMAIN R)
  <2>1. f \in [StatesIn(R) -> DOMAIN R]
    BY DEF StatesIn, Has
  <2>2. \A x, y \in StatesIn(R) : f[x] = f[y] => x = y
    OBVIOUS
  <2> QED
    BY <2>1, <2>2 DEF Injection, IsInjective
<1> QED
  BY <1>1, FS_Injection

\* Messages move to later positions only: the walk misses none
LEMMA WalkStable ==
    ASSUME NEW w, NEW R, NEW N, WalkOK(w, R), DOMAIN R \subseteq DOMAIN N, IsFiniteSet(DOMAIN N)
    PROVE  WalkOK(w, N)
<1>1. StatesIn(R) \subseteq StatesIn(N)
  BY DEF StatesIn, Has
<1>2. ASSUME NEW fp \in w.start, Cardinality(Lower(N, fp)) < w.offset PROVE fp \in w.seen
  <2>1. Lower(R, fp) \subseteq Lower(N, fp)
    BY <1>1 DEF Lower
  <2>2. IsFiniteSet(Lower(N, fp))
    BY StatesFinite, FS_Subset DEF Lower
  <2>3. /\ Cardinality(Lower(R, fp)) <= Cardinality(Lower(N, fp))
        /\ Cardinality(Lower(R, fp)) \in Nat /\ Cardinality(Lower(N, fp)) \in Nat
    BY <2>1, <2>2, FS_Subset, FS_CardinalityType
  <2>4. w.offset \in Nat
    BY DEF WalkOK, WalkType
  <2> QED
    BY <1>2, <2>3, <2>4 DEF WalkOK
<1> QED
  BY <1>1, <1>2 DEF WalkOK

\* A new folder disturbs nothing
LEMMA FolderSpace ==
    ASSUME NEW R, NEW N, NEW B, NEW A, SpaceOK(R, B, A),
           NEW mailbox \in Mailboxes, FolderIn(mailbox, R, N)
    PROVE  SpaceOK(N, B, A)
<1>1. DOMAIN N \subseteq Addresses /\ IsFiniteSet(DOMAIN N)
  <2>1. IsFiniteSet(DOMAIN R \cup {<<"folder", mailbox>>})
    BY FS_AddElement DEF SpaceOK
  <2> QED
    BY <2>1 DEF SpaceOK, FolderIn, Addresses
<1>2. \A fp : /\ Has(N, "message", fp) <=> Has(R, "message", fp)
              /\ Has(N, "state", fp) <=> Has(R, "state", fp)
              /\ Has(N, "message", fp) => N[<<"message", fp>>] = R[<<"message", fp>>]
              /\ Has(N, "state", fp) => StateIn(N, fp) = StateIn(R, fp)
  BY DEF FolderIn, Has, StateIn
<1>3. \A m : Has(R, "folder", m) => Has(N, "folder", m)
  BY DEF FolderIn, Has
<1>4. \A fp \in Fingerprints : PairOK(N, B, fp)
  BY <1>2, <1>3 DEF SpaceOK, PairOK
<1>5. CountOK(N, A)
  BY <1>2, AgentAssumption DEF SpaceOK, CountOK, MutationType
<1> QED
  BY <1>1, <1>4, <1>5 DEF SpaceOK

\* Uploaded bytes are only added
LEMMA UploadSpace ==
    ASSUME NEW R, NEW B, NEW A, SpaceOK(R, B, A), NEW b \in Bodies
    PROVE  SpaceOK(R, B \cup {b}, A)
  BY DEF SpaceOK, PairOK

\* The fields of a superseded state
LEMMA BuriedFields ==
    ASSUME NEW s \in StateType, NEW fp \in Fingerprints
    PROVE  /\ Buried(s, fp) \in StateType /\ Buried(s, fp).mailbox = s.mailbox
           /\ Buried(s, fp).tombstone = TRUE /\ Buried(s, fp).revision = s.revision + 1
           /\ Buried(s, fp).last = VersionOp(fp) /\ VersionOp(fp) \in AgentOps
<1>1. VersionOp(fp) \in AgentOps
  BY DEF AgentOps
<1>2. s.revision + 1 \in Nat \ {0}
  BY DEF StateType
<1> HIDE DEF VersionOp
<1>3. Buried(s, fp) \in StateType
  BY <1>1, <1>2 DEF Buried, StateType
<1>4. Buried(s, fp).mailbox = s.mailbox /\ Buried(s, fp).tombstone = TRUE
  BY DEF Buried, StateType
<1>5. Buried(s, fp).revision = s.revision + 1 /\ Buried(s, fp).last = VersionOp(fp)
  BY DEF Buried, StateType
<1> QED
  BY <1>1, <1>3, <1>4, <1>5

\* The fields of a new state
LEMMA NewStateFields ==
    ASSUME NEW mailbox \in Mailboxes, NEW keywords \in SUBSET Keywords
    PROVE  /\ NewState(mailbox, keywords) \in StateType
           /\ NewState(mailbox, keywords).mailbox = mailbox
           /\ NewState(mailbox, keywords).tombstone = FALSE
           /\ NewState(mailbox, keywords).revision = 1
           /\ NewState(mailbox, keywords).last \in AgentOps
<1>1. <<"none">> \in AgentOps
  BY DEF AgentOps
<1> QED
  BY <1>1 DEF NewState, StateType

\* What an operation makes of a state: the folder is its own or the one named
LEMMA EditedFields ==
    ASSUME NEW s \in StateType, NEW ids, NEW m \in MutationType(ids)
    PROVE  /\ Edited(s, m) \in StateType /\ Edited(s, m).revision = s.revision
           /\ \/ Edited(s, m).mailbox = s.mailbox
              \/ m.operation \in {"replace", "move"} /\ Edited(s, m).mailbox = m.mailbox
<1>1. /\ m.operation \in Operations /\ m.mailbox \in Mailboxes
      /\ m.keywords \in SUBSET Keywords /\ m.tombstone \in BOOLEAN
  BY DEF MutationType
<1>2. CASE m.operation = "replace"
  <2>1. Edited(s, m) = [s EXCEPT !.mailbox = m.mailbox, !.keywords = m.keywords,
                                 !.tombstone = m.tombstone]
    BY <1>2, Zenon DEF Edited
  <2> QED
    BY <1>1, <1>2, <2>1 DEF StateType
<1>3. CASE m.operation = "move"
  <2>1. Edited(s, m) = [s EXCEPT !.mailbox = m.mailbox]
    BY <1>3, Zenon DEF Edited
  <2> QED
    BY <1>1, <1>3, <2>1 DEF StateType
<1>4. CASE m.operation = "tombstone"
  <2>1. Edited(s, m) = [s EXCEPT !.tombstone = TRUE]
    BY <1>4, Zenon DEF Edited
  <2> QED
    BY <2>1 DEF StateType
<1>5. CASE m.operation \in {"markRead", "markUnread", "flag", "unflag"}
  <2>1. PICK kw \in SUBSET Keywords : Edited(s, m) = [s EXCEPT !.keywords = kw]
    <3>1. s.keywords \in SUBSET Keywords
      BY DEF StateType
    <3>2. CASE m.operation = "markRead"
      <4>1. Edited(s, m) = [s EXCEPT !.keywords = s.keywords \cup {"$seen"}]
        BY <3>2, Zenon DEF Edited
      <4> QED
        BY <3>1, <4>1 DEF Keywords
    <3>3. CASE m.operation = "markUnread"
      <4>1. Edited(s, m) = [s EXCEPT !.keywords = s.keywords \ {"$seen"}]
        BY <3>3, Zenon DEF Edited
      <4> QED
        BY <3>1, <4>1
    <3>4. CASE m.operation = "flag"
      <4>1. Edited(s, m) = [s EXCEPT !.keywords = s.keywords \cup {"$flagged"}]
        BY <3>4, Zenon DEF Edited
      <4> QED
        BY <3>1, <4>1 DEF Keywords
    <3>5. CASE m.operation = "unflag"
      <4>1. Edited(s, m) = [s EXCEPT !.keywords = s.keywords \ {"$flagged"}]
        BY <3>5, Zenon DEF Edited
      <4> QED
        BY <3>1, <4>1
    <3> QED
      BY <1>5, <3>2, <3>3, <3>4, <3>5
  <2> QED
    BY <2>1 DEF StateType
<1> QED
  BY <1>1, <1>2, <1>3, <1>4, <1>5 DEF Operations

\* The state a change writes is one revision on and names the operation
LEMMA NextStateFields ==
    ASSUME NEW s \in StateType, NEW m \in MutationType(Ops \cup AgentOps)
    PROVE  /\ NextState(s, m) \in StateType
           /\ NextState(s, m).revision = s.revision + 1 /\ NextState(s, m).last = m.op
           /\ \/ NextState(s, m).mailbox = s.mailbox
              \/ m.operation \in {"replace", "move"} /\ NextState(s, m).mailbox = m.mailbox
<1> DEFINE e == Edited(s, m)
<1>1. /\ e \in StateType /\ e.revision = s.revision
      /\ e.mailbox = s.mailbox \/ (m.operation \in {"replace", "move"} /\ e.mailbox = m.mailbox)
  BY EditedFields
<1>2. NextState(s, m) = [e EXCEPT !.revision = e.revision + 1, !.last = m.op]
  BY DEF NextState
<1> HIDE DEF e
<1>3. m.op \in Ops \cup AgentOps /\ e.revision + 1 \in Nat \ {0}
  BY <1>1 DEF MutationType, StateType
<1>4. NextState(s, m) \in StateType
  BY <1>1, <1>2, <1>3 DEF StateType
<1>5. /\ NextState(s, m).revision = e.revision + 1 /\ NextState(s, m).last = m.op
      /\ NextState(s, m).mailbox = e.mailbox
  BY <1>1, <1>2 DEF StateType
<1> QED
  BY <1>1, <1>4, <1>5

(***************************************************************************)
(* A stored pair is complete; a version it supersedes keeps its folder and *)
(* moves on, so what was counted stays behind it.                          *)
(***************************************************************************)
LEMMA StoredSpace ==
    ASSUME NEW R, NEW N, NEW B, NEW A, SpaceOK(R, B, A), NEW j, JobOK(j, R, B, A),
           j.pc = "apply", StoredIn(j, R, N)
    PROVE  SpaceOK(N, B, A)
<1>1. /\ j.fp \in Fingerprints /\ j.mailbox \in Mailboxes /\ j.keywords \in SUBSET Keywords
      /\ Has(R, "folder", j.mailbox) /\ j.fp[2] \in B /\ j.prior \in SUBSET PriorType
  BY DEF JobOK, InputOK, JobType, Storing, Ended
<1>2. DOMAIN N \subseteq Addresses /\ IsFiniteSet(DOMAIN N)
  <2>1. DOMAIN N = (DOMAIN R \cup {<<"message", j.fp>>}) \cup {<<"state", j.fp>>}
    BY DEF StoredIn
  <2>2. IsFiniteSet(DOMAIN N)
    <3>1. IsFiniteSet(DOMAIN R \cup {<<"message", j.fp>>})
      BY FS_AddElement DEF SpaceOK
    <3>2. IsFiniteSet((DOMAIN R \cup {<<"message", j.fp>>}) \cup {<<"state", j.fp>>})
      BY <3>1, FS_AddElement
    <3> QED
      BY <2>1, <3>2
  <2> QED
    BY <1>1, <2>1, <2>2 DEF SpaceOK, Addresses
<1>3. StateIn(N, j.fp) \in StateType /\ StateIn(N, j.fp).mailbox = j.mailbox
      /\ StateIn(N, j.fp).last \in AgentOps
  BY <1>1, NewStateFields DEF StoredIn
<1>4. ASSUME NEW p \in j.prior
      PROVE  /\ StateIn(R, p.fp) \in StateType /\ StateIn(N, p.fp) \in StateType
             /\ StateIn(N, p.fp).mailbox = StateIn(R, p.fp).mailbox
             /\ StateIn(N, p.fp).revision = StateIn(R, p.fp).revision + 1
             /\ StateIn(N, p.fp).last \in AgentOps
  <2>1. p.state \in StateType /\ StateIn(R, p.fp) = p.state /\ StateIn(N, p.fp) = Buried(p.state, j.fp)
    BY <1>1 DEF StoredIn, PriorType
  <2>2. /\ Buried(p.state, j.fp) \in StateType /\ Buried(p.state, j.fp).mailbox = p.state.mailbox
        /\ Buried(p.state, j.fp).revision = p.state.revision + 1
        /\ Buried(p.state, j.fp).last \in AgentOps
    <3>1. p.state \in StateType /\ j.fp \in Fingerprints
      BY <1>1, <2>1
    <3> QED
      BY <3>1, BuriedFields
  <2> QED
    BY <2>1, <2>2
<1>5. \A fp : /\ Has(N, "message", fp) <=> Has(R, "message", fp) \/ fp = j.fp
              /\ Has(N, "state", fp) <=> Has(R, "state", fp) \/ fp = j.fp
              /\ Has(N, "folder", fp) <=> Has(R, "folder", fp)
              /\ Has(R, "message", fp) => N[<<"message", fp>>] = R[<<"message", fp>>]
              /\ Has(R, "state", fp) =>
                    (\E p \in j.prior : p.fp = fp) \/ StateIn(N, fp) = StateIn(R, fp)
  BY DEF StoredIn, Has, StateIn
<1>6. N[<<"message", j.fp>>] = Message(j.fp)
  BY DEF StoredIn
<1>7. ASSUME NEW fp \in Fingerprints PROVE PairOK(N, B, fp)
  <2>1. PairOK(R, B, fp)
    BY DEF SpaceOK
  <2>2. CASE fp = j.fp
    BY <1>1, <1>3, <1>5, <1>6, <2>2 DEF PairOK
  <2>3. CASE fp # j.fp
    <3>1. Has(N, "state", fp) => /\ StateIn(N, fp) \in StateType
                                 /\ StateIn(N, fp).mailbox = StateIn(R, fp).mailbox
      BY <1>4, <1>5, <2>1, <2>3 DEF PairOK
    <3> QED
      BY <1>5, <2>1, <2>3, <3>1 DEF PairOK
  <2> QED
    BY <2>2, <2>3
<1>8. CountOK(N, A)
  <2>1. CountOK(R, A)
    BY DEF SpaceOK
  <2>2. ASSUME NEW fp \in Fingerprints, Has(N, "state", fp), NEW o \in Ops, StateIn(N, fp).last = o
        PROVE  A[o] = 1
    <3>1. StateIn(N, fp).last \notin AgentOps
      BY <2>2, AgentAssumption
    <3>2. Has(R, "state", fp) /\ StateIn(N, fp) = StateIn(R, fp)
      BY <1>3, <1>4, <1>5, <2>2, <3>1
    <3> QED
      BY <2>1, <2>2, <3>2 DEF CountOK
  <2>3. ASSUME NEW o \in Ops, A[o] = 1
        PROVE  /\ Has(N, "state", Mutation[o].fp)
               /\ StateIn(N, Mutation[o].fp).revision > Mutation[o].expected
    <3> DEFINE fp == Mutation[o].fp
    <3>1. fp \in Fingerprints /\ Mutation[o].expected \in Nat
      BY AgentAssumption DEF MutationType
    <3>2. Has(R, "state", fp) /\ StateIn(R, fp).revision > Mutation[o].expected
      BY <2>1, <2>3 DEF CountOK
    <3>3. StateIn(R, fp).revision \in Nat
      BY <3>1, <3>2 DEF SpaceOK, PairOK, StateType
    <3>4. StateIn(N, fp).revision \in {StateIn(R, fp).revision, StateIn(R, fp).revision + 1}
      BY <1>4, <1>5, <3>2
    <3>5. Has(N, "state", fp)
      BY <1>5, <3>2
    <3> HIDE DEF fp
    <3>6. StateIn(N, fp).revision > Mutation[o].expected
      BY <3>1, <3>2, <3>3, <3>4
    <3> QED
      BY <3>5, <3>6 DEF fp
  <2> QED
    BY <2>1, <2>2, <2>3 DEF CountOK
<1> QED
  BY <1>2, <1>7, <1>8 DEF SpaceOK

(***************************************************************************)
(* A change that was written had not been written before: its revision is  *)
(* still the expected one, and an operation counted once is behind it.     *)
(***************************************************************************)
LEMMA ChangedSpace ==
    ASSUME NEW R, NEW N, NEW B, NEW A, SpaceOK(R, B, A), NEW j, JobOK(j, R, B, A),
           j.pc = "put", ChangedIn(j, R, N),
           NEW D, CountedIn(j, A, D)
    PROVE  /\ SpaceOK(N, B, D)
           /\ \A o \in Ops : A[o] = 1 => D[o] = 1
           /\ j.mut.op \in Ops => D[j.mut.op] = 1
<1> DEFINE m == j.mut
           s == j.seen
<1>1. /\ m \in MutationType(Ops \cup AgentOps) /\ s \in StateType /\ s.revision = m.expected
      /\ Has(R, "folder", s.mailbox)
      /\ m.operation \in {"replace", "move"} => Has(R, "folder", m.mailbox)
  BY DEF JobOK, ChangeOK, Changing
<1>2. m.fp \in Fingerprints /\ m.expected \in Nat /\ m.op \in Ops \cup AgentOps
  BY <1>1 DEF MutationType
<1>3. m.op \in Ops => Mutation[m.op].fp = m.fp /\ Mutation[m.op].expected = m.expected
  <2> SUFFICES ASSUME m.op \in Ops
               PROVE  Mutation[m.op].fp = m.fp /\ Mutation[m.op].expected = m.expected
    OBVIOUS
  <2>1. j.kind = "change"
    BY AgentAssumption DEF JobOK, ChangeOK, Changing
  <2>2. m = [Mutation[m.op] EXCEPT !.op = m.op]
    BY <2>1 DEF JobOK, InputOK
  <2>3. Mutation[m.op] \in MutationType({0})
    BY AgentAssumption
  <2> HIDE DEF m
  <2>4. [Mutation[m.op] EXCEPT !.op = m.op].fp = Mutation[m.op].fp
        /\ [Mutation[m.op] EXCEPT !.op = m.op].expected = Mutation[m.op].expected
    BY <2>3 DEF MutationType
  <2> QED
    BY <2>2, <2>4
<1>4. /\ Has(R, "state", m.fp) /\ StateIn(R, m.fp) = s /\ DOMAIN N = DOMAIN R
      /\ StateIn(N, m.fp) = NextState(s, m)
      /\ \A a \in DOMAIN R : a # <<"state", m.fp>> => N[a] = R[a]
  BY DEF ChangedIn
<1>5. /\ NextState(s, m) \in StateType /\ NextState(s, m).revision = s.revision + 1
      /\ NextState(s, m).last = m.op /\ Has(R, "folder", NextState(s, m).mailbox)
  BY <1>1, NextStateFields
<1>6. A \in [Ops -> {0, 1}] /\ CountOK(R, A)
  BY DEF SpaceOK, CountOK
<1> HIDE DEF m, s
<1>7. m.op \in Ops => A[m.op] = 0
  <2>1. m.op \in Ops /\ A[m.op] = 1 => s.revision > m.expected
    BY <1>3, <1>4, <1>6 DEF CountOK
  <2> QED
    BY <1>1, <1>2, <1>6, <2>1
<1>8. /\ D \in [Ops -> {0, 1}] /\ \A o \in Ops : A[o] = 1 => D[o] = 1
      /\ m.op \in Ops => D[m.op] = 1
      /\ \A o \in Ops : o # m.op => D[o] = A[o]
  BY <1>6, <1>7 DEF m, CountedIn
<1>9. \A fp, c : /\ Has(N, c, fp) <=> Has(R, c, fp)
                 /\ Has(R, "message", fp) => N[<<"message", fp>>] = R[<<"message", fp>>]
                 /\ Has(R, "state", fp) /\ fp # m.fp => StateIn(N, fp) = StateIn(R, fp)
  BY <1>4 DEF Has, StateIn
<1>10. \A fp \in Fingerprints : PairOK(N, B, fp)
  BY <1>4, <1>5, <1>9 DEF SpaceOK, PairOK
<1>11. CountOK(N, D)
  <2>1. ASSUME NEW fp \in Fingerprints, Has(N, "state", fp), NEW o \in Ops, StateIn(N, fp).last = o
        PROVE  D[o] = 1
    BY <1>4, <1>5, <1>6, <1>8, <1>9, <2>1 DEF CountOK
  <2>2. ASSUME NEW o \in Ops, D[o] = 1
        PROVE  /\ Has(N, "state", Mutation[o].fp)
               /\ StateIn(N, Mutation[o].fp).revision > Mutation[o].expected
    <3> DEFINE fp == Mutation[o].fp
    <3>1. fp \in Fingerprints /\ Mutation[o].expected \in Nat
      BY AgentAssumption DEF MutationType
    <3>2. CASE o = m.op
      <4>1. fp = m.fp /\ Mutation[o].expected = m.expected
        BY <1>3, <3>2
      <4>2. StateIn(N, fp).revision = m.expected + 1
        BY <1>1, <1>4, <1>5, <4>1
      <4>3. Has(N, "state", fp)
        BY <1>4, <1>9, <4>1
      <4> QED
        BY <3>1, <4>1, <4>2, <4>3
    <3>3. CASE o # m.op
      <4>1. Has(R, "state", fp) /\ StateIn(R, fp).revision > Mutation[o].expected
        BY <1>6, <1>8, <2>2, <3>3 DEF CountOK
      <4>2. StateIn(R, fp).revision \in Nat
        BY <3>1, <4>1 DEF SpaceOK, PairOK, StateType
      <4>3. StateIn(N, fp).revision \in {StateIn(R, fp).revision, StateIn(R, fp).revision + 1}
        BY <1>4, <1>5, <1>9, <4>1
      <4>4. Has(N, "state", fp)
        BY <1>9, <4>1
      <4> HIDE DEF fp
      <4>5. StateIn(N, fp).revision > Mutation[o].expected
        BY <3>1, <4>1, <4>2, <4>3
      <4> QED
        BY <4>4, <4>5 DEF fp
    <3> QED
      BY <3>2, <3>3
  <2> QED
    BY <1>8, <2>1, <2>2 DEF CountOK
<1>12. DOMAIN N \subseteq Addresses /\ IsFiniteSet(DOMAIN N)
  BY <1>4 DEF SpaceOK
<1>13. SpaceOK(N, B, D)
  BY <1>10, <1>11, <1>12 DEF SpaceOK
<1> QED
  BY <1>8, <1>13 DEF m

-----------------------------------------------------------------------------
(* Steps of a request.                                                      *)

\* A step of request r that grows the space and leaves r with the job k
LEMMA GrowStep ==
    ASSUME IInv, NEW r \in Requests, NEW k, job' = [job EXCEPT ![r] = k], walk' = walk,
           DOMAIN records \subseteq DOMAIN records', blobs \subseteq blobs',
           \A o \in Ops : applied[o] = 1 => applied'[o] = 1,
           SpaceOK(records', blobs', applied'), JobOK(k, records', blobs', applied')
    PROVE  IInv'
<1>1. job' \in [Requests -> JobType] /\ job'[r] = k /\ \A q \in Requests \ {r} : job'[q] = job[q]
  BY DEF IInv, JobOK
<1>2. ASSUME NEW q \in Requests PROVE JobOK(job'[q], records', blobs', applied')
  <2>1. CASE q = r
    BY <1>1, <2>1
  <2>2. CASE q # r
    <3>1. JobOK(job[q], records, blobs, applied)
      BY DEF IInv
    <3>2. JobOK(job[q], records', blobs', applied')
      BY <3>1, JobStable
    <3> QED
      BY <1>1, <2>2, <3>2
  <2> QED
    BY <2>1, <2>2
<1>3. WalkOK(walk', records')
  <2>1. WalkOK(walk, records) /\ IsFiniteSet(DOMAIN records')
    BY DEF IInv, SpaceOK
  <2> QED
    BY <2>1, WalkStable
<1> QED
  BY <1>1, <1>2, <1>3 DEF IInv

\* A step of request r that only reads and leaves r with the job k
LEMMA ReadStep ==
    ASSUME IInv, NEW r \in Requests, NEW k, job' = [job EXCEPT ![r] = k], ReadOnly,
           JobOK(k, records, blobs, applied)
    PROVE  IInv'
<1>1. records' = records /\ blobs' = blobs /\ walk' = walk /\ applied' = applied
  BY DEF ReadOnly, Rest
<1> QED
  BY <1>1, GrowStep DEF IInv

\* The empty job and its fields
LEMMA NoJobType == NoJob \in JobType
<1>1. <<>> \in {<<>>} /\ "idle" \in Labels
  BY DEF Labels
<1> QED
  BY <1>1 DEF NoJob, JobType

\* The job of a request that has been answered
Answered(j, label) ==
    [NoJob EXCEPT !.pc = label, !.kind = j.kind, !.fp = j.fp, !.mut = j.mut]

\* An answer asks nothing more of the space but the write it stands for
LEMMA AnswerOK ==
    ASSUME NEW j, NEW R, NEW B, NEW A, JobOK(j, R, B, A), j.pc # "idle",
           NEW label \in Ended,
           j.kind = "change" /\ label = "ok" => A[j.mut.op] = 1
    PROVE  JobOK(Answered(j, label), R, B, A)
<1> DEFINE k == Answered(j, label)
<1>1. j \in JobType /\ InputOK(j)
  BY DEF JobOK
<1>2. label \in Labels
  BY DEF Labels
<1>3. k \in JobType
  BY <1>1, <1>2, NoJobType DEF JobType, Answered
<1>4. /\ k.pc = label /\ k.kind = j.kind /\ k.fp = j.fp /\ k.mut = j.mut
      /\ k.prior = {} /\ k.todo = {}
  BY <1>1 DEF Answered, NoJob, JobType
<1> HIDE DEF k
<1>5. label \notin Storing \cup Changing \cup CaptureOnly \cup {"idle", "prior", "apply"}
  BY DEF Ended, Storing, Changing, CaptureOnly
<1>6. InputOK(k)
  BY <1>1, <1>4, <1>5 DEF InputOK
<1>7. PriorOK(k, R) /\ ChangeOK(k, R)
  BY <1>4, <1>5 DEF PriorOK, ChangeOK
<1> QED
  BY <1>3, <1>4, <1>5, <1>6, <1>7 DEF JobOK, k

\* The fields of a job that goes on to another label
LEMMA GotoFields ==
    ASSUME NEW j \in JobType, NEW label \in Labels, NEW k, k = [j EXCEPT !.pc = label]
    PROVE  /\ k \in JobType /\ k.pc = label /\ k.kind = j.kind /\ k.fp = j.fp
           /\ k.mailbox = j.mailbox /\ k.keywords = j.keywords /\ k.mut = j.mut
           /\ k.seen = j.seen /\ k.todo = j.todo /\ k.prior = j.prior /\ k.live = j.live
           /\ k.fresh = j.fresh
<1>1. k \in JobType
  BY DEF JobType
<1> QED
  BY <1>1 DEF JobType

(***************************************************************************)
(* Going on within the storing of a message, once its folder is there.     *)
(***************************************************************************)
LEMMA GoStoring ==
    ASSUME NEW j, NEW R, NEW B, NEW A, JobOK(j, R, B, A),
           NEW label \in Storing \ {"prior"}, j.kind \in {"capture", "mirror"}, j.pc \notin Ended,
           label \in CaptureOnly => j.kind = "capture",
           Has(R, "folder", j.mailbox), label = "apply" => j.fp[2] \in B,
           NEW k, k = [j EXCEPT !.pc = label]
    PROVE  JobOK(k, R, B, A)
<1>1. j \in JobType /\ label \in Labels
  BY DEF JobOK, Labels
<1>2. /\ k \in JobType /\ k.pc = label /\ k.kind = j.kind /\ k.fp = j.fp /\ k.mailbox = j.mailbox
      /\ k.mut = j.mut /\ k.todo = j.todo /\ k.prior = j.prior
  BY <1>1, GotoFields
<1>3. label \notin Changing \cup Ended \cup {"idle", "prior"}
  BY DEF Storing, Changing, Ended
<1>4. InputOK(k)
  BY <1>2, <1>3 DEF InputOK, JobOK
<1>5. PriorOK(k, R) /\ ChangeOK(k, R)
  BY <1>2, <1>3 DEF PriorOK, ChangeOK, JobOK
<1> QED
  BY <1>2, <1>3, <1>4, <1>5 DEF JobOK, Ended

\* An answer that a read gives
LEMMA AnswerStep ==
    ASSUME IInv, NEW r \in Requests, job[r].pc # "idle", NEW label \in Ended,
           job[r].kind = "change" /\ label = "ok" => applied[job[r].mut.op] = 1,
           Answer(r, label), ReadOnly
    PROVE  IInv'
<1>1. job' = [job EXCEPT ![r] = Answered(job[r], label)]
  BY DEF Answer, Answered
<1>2. JobOK(Answered(job[r], label), records, blobs, applied)
  BY AnswerOK DEF IInv
<1> QED
  BY <1>1, <1>2, ReadStep

\* A read after which the storing of a message goes on
LEMMA StoringStep ==
    ASSUME IInv, NEW r \in Requests, NEW label \in Storing \ {"prior", "apply"},
           job[r].kind \in {"capture", "mirror"}, job[r].pc \notin Ended,
           label \in CaptureOnly => job[r].kind = "capture",
           Has(records, "folder", job[r].mailbox), Goto(r, label), ReadOnly
    PROVE  IInv'
<1> DEFINE k == [job[r] EXCEPT !.pc = label]
<1>1. job' = [job EXCEPT ![r] = k]
  BY DEF Goto
<1>2. JobOK(k, records, blobs, applied)
  BY GoStoring DEF IInv
<1> HIDE DEF k
<1> QED
  BY <1>1, <1>2, ReadStep

\* A new capture knows nothing of the space
LEMMA BeginCaptureOK ==
    ASSUME IInv, NEW r \in Requests, BeginCapture(r) PROVE IInv'
<1>1. PICK in \in Captures :
        job' = [job EXCEPT ![r] = [NoJob EXCEPT !.pc = "folder", !.kind = "capture",
            !.fp = in.fp, !.mailbox = in.mailbox, !.keywords = in.keywords]]
  BY DEF BeginCapture
<1> DEFINE k == [NoJob EXCEPT !.pc = "folder", !.kind = "capture",
                    !.fp = in.fp, !.mailbox = in.mailbox, !.keywords = in.keywords]
<1>2. in.fp \in Fingerprints /\ in.mailbox \in Mailboxes /\ in.keywords \in SUBSET Keywords
  BY AgentAssumption
<1>3. k \in JobType
  <2>1. "folder" \in Labels
    BY DEF Labels
  <2> QED
    BY <1>2, <2>1, NoJobType DEF JobType
<1>4. /\ k.pc = "folder" /\ k.kind = "capture" /\ k.fp = in.fp /\ k.mailbox = in.mailbox
      /\ k.prior = {}
  BY DEF NoJob
<1> HIDE DEF k
<1>5. JobOK(k, records, blobs, applied)
  BY <1>2, <1>3, <1>4 DEF JobOK, InputOK, PriorOK, ChangeOK, Storing, Changing, CaptureOnly
<1> QED
  BY <1>1, <1>5, ReadStep DEF BeginCapture, k

\* A new mirror knows nothing of the space
LEMMA BeginMirrorOK ==
    ASSUME IInv, NEW r \in Requests, BeginMirror(r) PROVE IInv'
<1>1. PICK in \in Mirrors :
        job' = [job EXCEPT ![r] = [NoJob EXCEPT !.pc = "folder", !.kind = "mirror",
            !.fp = <<NoKey, in.raw>>, !.mailbox = in.mailbox]]
  BY DEF BeginMirror
<1> DEFINE k == [NoJob EXCEPT !.pc = "folder", !.kind = "mirror",
                    !.fp = <<NoKey, in.raw>>, !.mailbox = in.mailbox]
<1>2. <<NoKey, in.raw>> \in Fingerprints /\ in.mailbox \in Mailboxes
  BY AgentAssumption DEF Fingerprints
<1>3. k \in JobType
  <2>1. "folder" \in Labels
    BY DEF Labels
  <2> QED
    BY <1>2, <2>1, NoJobType DEF JobType
<1>4. /\ k.pc = "folder" /\ k.kind = "mirror" /\ k.fp = <<NoKey, in.raw>>
      /\ k.mailbox = in.mailbox /\ k.prior = {}
  BY DEF NoJob
<1> HIDE DEF k
<1>5. JobOK(k, records, blobs, applied)
  BY <1>2, <1>3, <1>4 DEF JobOK, InputOK, PriorOK, ChangeOK, Storing, Changing, CaptureOnly
<1> QED
  BY <1>1, <1>5, ReadStep DEF BeginMirror, k

\* A new change carries the mutation its operation id stands for
LEMMA BeginChangeOK ==
    ASSUME IInv, NEW r \in Requests, BeginChange(r) PROVE IInv'
<1>1. PICK o \in Ops :
        job' = [job EXCEPT ![r] = [NoJob EXCEPT !.kind = "change", !.fp = Mutation[o].fp,
            !.pc = IF Mutation[o].operation = "replace" THEN "folder" ELSE "replace",
            !.mailbox = Mutation[o].mailbox, !.mut = [Mutation[o] EXCEPT !.op = o]]]
  BY DEF BeginChange
<1> DEFINE label == IF Mutation[o].operation = "replace" THEN "folder" ELSE "replace"
           mu == [Mutation[o] EXCEPT !.op = o]
           k == [NoJob EXCEPT !.kind = "change", !.fp = Mutation[o].fp, !.pc = label,
                              !.mailbox = Mutation[o].mailbox, !.mut = mu]
<1>2. Mutation[o] \in MutationType({0})
  BY AgentAssumption
<1>3. mu \in MutationType(Ops \cup AgentOps) /\ mu.op = o
  BY <1>2 DEF MutationType
<1>4. Mutation[o].fp \in Fingerprints /\ Mutation[o].mailbox \in Mailboxes
  BY <1>2 DEF MutationType
<1>5. label \in {"folder", "replace"} /\ label \in Labels
  BY DEF Labels, Changing
<1>6. mu = [Mutation[mu.op] EXCEPT !.op = mu.op]
  BY <1>3
<1> HIDE DEF mu, label
<1>7. k \in JobType
  BY <1>3, <1>4, <1>5, NoJobType DEF JobType
<1>8. /\ k.pc = label /\ k.kind = "change" /\ k.fp = Mutation[o].fp
      /\ k.mailbox = Mutation[o].mailbox /\ k.prior = {} /\ k.mut = mu
  BY DEF NoJob
<1> HIDE DEF k
<1>9. JobOK(k, records, blobs, applied)
  <2>1. InputOK(k)
    BY <1>3, <1>4, <1>5, <1>6, <1>8 DEF InputOK, Storing, CaptureOnly
  <2>2. PriorOK(k, records) /\ ChangeOK(k, records)
    BY <1>3, <1>5, <1>8 DEF PriorOK, ChangeOK, Changing
  <2> QED
    BY <1>5, <1>7, <1>8, <2>1, <2>2 DEF JobOK, Storing
<1> QED
  BY <1>1, <1>9, ReadStep DEF BeginChange, k, label, mu

\* A failed request is owed nothing
LEMMA FailOK ==
    ASSUME IInv, NEW r \in Requests, Fail(r) PROVE IInv'
<1>1. job[r].pc # "idle" /\ Answer(r, "failed") /\ ReadOnly
  BY DEF Fail, Running
<1> QED
  BY <1>1, AnswerStep DEF Ended

\* The mutation of a change is typed
LEMMA MutationTyped ==
    ASSUME NEW j, InputOK(j), j.kind = "change"
    PROVE  j.mut \in MutationType(Ops \cup AgentOps)
<1> DEFINE o == j.mut.op
<1>1. o \in Ops /\ j.mut = [Mutation[o] EXCEPT !.op = o]
  BY DEF InputOK
<1>2. Mutation[o] \in MutationType({0})
  BY <1>1, AgentAssumption
<1> HIDE DEF o
<1>3. [Mutation[o] EXCEPT !.op = o] \in MutationType(Ops \cup AgentOps)
  BY <1>1, <1>2 DEF MutationType
<1> QED
  BY <1>1, <1>3

\* With its folder there, a request goes on to the message or to the change
LEMMA FolderThere ==
    ASSUME NEW j, NEW R, NEW B, NEW A, JobOK(j, R, B, A), j.pc \in {"folder", "newFolder"},
           Has(R, "folder", j.mailbox),
           NEW k, k = [j EXCEPT !.pc = IF j.kind = "change" THEN "replace" ELSE "message"]
    PROVE  JobOK(k, R, B, A)
<1>1. j \in JobType /\ InputOK(j) /\ PriorOK(j, R)
  BY DEF JobOK
<1>2. CASE j.kind = "change"
  <2>1. k = [j EXCEPT !.pc = "replace"] /\ "replace" \in Labels
    BY <1>2 DEF Labels, Changing
  <2>2. /\ k \in JobType /\ k.pc = "replace" /\ k.kind = "change" /\ k.fp = j.fp
        /\ k.mailbox = j.mailbox /\ k.mut = j.mut /\ k.prior = j.prior
    BY <1>1, <1>2, <2>1, GotoFields
  <2>3. k.mut \in MutationType(Ops \cup AgentOps)
    BY <1>1, <1>2, <2>2, MutationTyped
  <2>4. InputOK(k)
    BY <1>1, <1>2, <2>2 DEF InputOK, Storing, CaptureOnly, Ended
  <2>5. PriorOK(k, R) /\ ChangeOK(k, R)
    BY <1>1, <2>2, <2>3 DEF PriorOK, ChangeOK
  <2> QED
    BY <2>2, <2>4, <2>5 DEF JobOK, Storing
<1>3. CASE j.kind # "change"
  <2>1. j.kind \in {"capture", "mirror"} /\ j.pc \notin Ended
    BY <1>1, <1>3 DEF InputOK, JobType, Ended
  <2>2. k = [j EXCEPT !.pc = "message"] /\ "message" \in Storing \ CaptureOnly
    BY <1>3 DEF Storing, CaptureOnly
  <2>3. "message" \in Storing \ {"prior"} /\ "message" # "apply"
    BY <2>2 DEF CaptureOnly
  <2> QED
    BY <2>1, <2>2, <2>3, GoStoring
<1> QED
  BY <1>2, <1>3

\* The folder is found, or is to be created
LEMMA GetFolderOK ==
    ASSUME IInv, NEW r \in Requests, GetFolder(r) PROVE IInv'
<1> DEFINE j == job[r]
<1>1. JobOK(j, records, blobs, applied) /\ j.pc = "folder" /\ ReadOnly
  BY DEF IInv, GetFolder
<1>2. CASE Exists("folder", j.mailbox)
  <2> DEFINE k == [j EXCEPT !.pc = IF j.kind = "change" THEN "replace" ELSE "message"]
  <2>1. job' = [job EXCEPT ![r] = k]
    BY <1>2 DEF GetFolder, Goto, AfterFolder
  <2>2. JobOK(k, records, blobs, applied)
    BY <1>1, <1>2, FolderThere DEF Exists, Has
  <2> HIDE DEF k
  <2> QED
    BY <1>1, <2>1, <2>2, ReadStep
<1>3. CASE ~Exists("folder", j.mailbox)
  <2> DEFINE k == [j EXCEPT !.pc = "newFolder"]
  <2>1. job' = [job EXCEPT ![r] = k]
    BY <1>3 DEF GetFolder, Goto
  <2>2. j \in JobType /\ "newFolder" \in Labels
    BY <1>1 DEF JobOK, Labels
  <2>3. /\ k \in JobType /\ k.pc = "newFolder" /\ k.kind = j.kind /\ k.fp = j.fp
        /\ k.mailbox = j.mailbox /\ k.mut = j.mut /\ k.prior = j.prior
    BY <2>2, GotoFields
  <2> HIDE DEF k
  <2>4. JobOK(k, records, blobs, applied)
    BY <1>1, <2>3 DEF JobOK, InputOK, PriorOK, ChangeOK, Storing, Changing, CaptureOnly, Ended
  <2> QED
    BY <1>1, <2>1, <2>4, ReadStep
<1> QED
  BY <1>2, <1>3

\* The folder is there, whoever created it; the answer may be lost
LEMMA CreateFolderOK ==
    ASSUME IInv, NEW r \in Requests, CreateFolder(r) PROVE IInv'
<1> DEFINE j == job[r]
<1>1. /\ JobOK(j, records, blobs, applied) /\ j.pc = "newFolder" /\ blobs' = blobs
      /\ walk' = walk /\ applied' = applied
      /\ ApplyWrites(<<Create("folder", j.mailbox, [name |-> j.mailbox])>>)
  BY DEF IInv, CreateFolder, Rest, ApplyWrites
<1>2. j.mailbox \in Mailboxes
  BY <1>1 DEF JobOK, InputOK, Ended
<1>3. /\ DOMAIN records \subseteq DOMAIN records' /\ Has(records', "folder", j.mailbox)
      /\ SpaceOK(records', blobs, applied)
  <2>1. (records' = records /\ Has(records, "folder", j.mailbox))
        \/ FolderIn(j.mailbox, records, records')
    BY <1>1, FolderWritten
  <2>2. CASE FolderIn(j.mailbox, records, records')
    BY <1>2, <2>2, FolderSpace DEF FolderIn, Has, IInv
  <2>3. CASE records' = records /\ Has(records, "folder", j.mailbox)
    BY <2>3 DEF IInv
  <2> QED
    BY <2>1, <2>2, <2>3
<1>4. JobOK(j, records', blobs, applied)
  BY <1>1, <1>3, JobStable
<1>5. CASE Goto(r, AfterFolder(r))
  <2> DEFINE k == [j EXCEPT !.pc = IF j.kind = "change" THEN "replace" ELSE "message"]
  <2>1. job' = [job EXCEPT ![r] = k]
    BY <1>5 DEF Goto, AfterFolder
  <2>2. JobOK(k, records', blobs, applied)
    BY <1>1, <1>3, <1>4, FolderThere
  <2> HIDE DEF k
  <2> QED
    BY <1>1, <1>3, <2>1, <2>2, GrowStep
<1>6. CASE Answer(r, "failed")
  <2>1. job' = [job EXCEPT ![r] = Answered(j, "failed")]
    BY <1>6 DEF Answer, Answered
  <2>2. JobOK(Answered(j, "failed"), records', blobs, applied)
    BY <1>1, <1>4, AnswerOK DEF Ended
  <2> QED
    BY <1>1, <1>3, <2>1, <2>2, GrowStep
<1> QED
  BY <1>5, <1>6 DEF CreateFolder

\* The message is there already, or its state is looked for
LEMMA GetMessageOK ==
    ASSUME IInv, NEW r \in Requests, GetMessage(r) PROVE IInv'
<1>1. /\ JobOK(job[r], records, blobs, applied) /\ job[r].pc = "message" /\ ReadOnly
  BY DEF IInv, GetMessage
<1>2. /\ job[r].kind \in {"capture", "mirror"} /\ job[r].pc \notin Ended
      /\ Has(records, "folder", job[r].mailbox)
  BY <1>1 DEF JobOK, InputOK, Storing, Ended
<1>3. Goto(r, "state") \/ (job[r].kind = "capture" /\ Goto(r, "list")) \/ Goto(r, "verify")
  BY DEF GetMessage
<1>4. /\ {"state", "list", "verify"} \subseteq Storing \ {"prior", "apply"}
      /\ {"state", "verify"} \cap CaptureOnly = {}
  BY DEF Storing, CaptureOnly
<1> QED
  BY <1>1, <1>2, <1>3, <1>4, StoringStep

\* A state without its message is refused
LEMMA GetOrphanOK ==
    ASSUME IInv, NEW r \in Requests, GetOrphan(r) PROVE IInv'
<1>1. /\ JobOK(job[r], records, blobs, applied) /\ job[r].pc = "state" /\ ReadOnly
  BY DEF IInv, GetOrphan
<1>2. /\ job[r].kind \in {"capture", "mirror"} /\ job[r].pc \notin Ended
      /\ Has(records, "folder", job[r].mailbox)
  BY <1>1 DEF JobOK, InputOK, Storing, Ended
<1>3. Answer(r, "failed") \/ (job[r].kind = "capture" /\ Goto(r, "versions")) \/ Goto(r, "upload")
  BY DEF GetOrphan
<1>4. /\ {"versions", "upload"} \subseteq Storing \ {"prior", "apply"} /\ "failed" \in Ended
      /\ "upload" \notin CaptureOnly
  BY DEF Storing, CaptureOnly, Ended
<1> QED
  BY <1>1, <1>2, <1>3, <1>4, StoringStep, AnswerStep

\* The versions of a source are messages with its key
LEMMA SourceVersions ==
    ASSUME SpaceOK(records, blobs, applied), NEW key
    PROVE  OfSource(key) \subseteq Fingerprints /\ \A fp \in OfSource(key) : fp[1] = key
<1> SUFFICES ASSUME NEW fp \in OfSource(key) PROVE fp \in Fingerprints /\ fp[1] = key
  OBVIOUS
<1>1. PICK a \in DOMAIN records : a[1] = "message" /\ fp = a[2]
  BY DEF OfSource, Messages, ListRecords
<1>2. a \in {"message"} \X Fingerprints
  BY <1>1 DEF SpaceOK, Addresses
<1>3. fp \in Fingerprints /\ a = <<"message", fp>>
  BY <1>1, <1>2
<1>4. records[<<"message", fp>>] = Message(fp)
  BY <1>3 DEF SpaceOK, PairOK, Has
<1>5. records[<<"message", fp>>].key = key
  BY DEF OfSource, Value
<1> QED
  BY <1>3, <1>4, <1>5 DEF Message

\* The other versions are to be read one by one
LEMMA ListVersionsOK ==
    ASSUME IInv, NEW r \in Requests, ListVersions(r) PROVE IInv'
<1> DEFINE j == job[r]
           T == OfSource(j.fp[1]) \ {j.fp}
           k == [j EXCEPT !.todo = T, !.pc = "prior"]
<1>1. JobOK(j, records, blobs, applied) /\ j.pc = "versions" /\ ReadOnly
  BY DEF IInv, ListVersions
<1>2. job' = [job EXCEPT ![r] = k]
  BY DEF ListVersions
<1>3. T \subseteq Fingerprints /\ \A fp \in T : fp # j.fp /\ fp[1] = j.fp[1]
  BY SourceVersions DEF IInv
<1> HIDE DEF T
<1>4. k \in JobType
  <2>1. j \in JobType /\ "prior" \in Labels
    BY <1>1 DEF JobOK, Labels, Storing
  <2> QED
    BY <1>3, <2>1 DEF JobType
<1>5. /\ k.pc = "prior" /\ k.kind = j.kind /\ k.fp = j.fp /\ k.mailbox = j.mailbox
      /\ k.mut = j.mut /\ k.todo = T /\ k.prior = j.prior
  BY <1>1 DEF JobOK, JobType
<1> HIDE DEF k
<1>6. JobOK(k, records, blobs, applied)
  <2>1. PriorOK(k, records)
    BY <1>1, <1>3, <1>5 DEF JobOK, PriorOK
  <2> QED
    BY <1>1, <1>4, <1>5, <2>1 DEF JobOK, InputOK, ChangeOK, Storing, Changing, CaptureOnly, Ended
<1> QED
  BY <1>1, <1>2, <1>6, ReadStep

\* One of the other versions is read: dead, or the one prior version
LEMMA GetPriorOK ==
    ASSUME IInv, NEW r \in Requests, GetPrior(r) PROVE IInv'
<1> DEFINE j == job[r]
           fp == First(j.todo)
           next == [job EXCEPT ![r].todo = @ \ {fp}]
           c1 == ~Exists("state", fp)
           c2 == State(fp).tombstone
           c3 == j.prior # {}
           a2 == job' = next
           a4 == job' = [next EXCEPT ![r].prior = {[fp |-> fp, state |-> State(fp)]}]
           fail == Answer(r, "failed")
<1>1. /\ JobOK(j, records, blobs, applied) /\ j.pc = "prior" /\ j.todo # {} /\ ReadOnly
      /\ IF c1 THEN fail ELSE IF c2 THEN a2 ELSE IF c3 THEN fail ELSE a4
  BY DEF IInv, GetPrior
<1> HIDE DEF c1, c2, c3, a2, a4, fail
<1>2. fail \/ a2 \/ (~c1 /\ ~c2 /\ ~c3 /\ a4)
  BY <1>1, Zenon
<1>3. /\ j \in JobType /\ InputOK(j) /\ PriorOK(j, records) /\ Has(records, "folder", j.mailbox)
      /\ j.todo \in SUBSET Fingerprints
  BY <1>1 DEF JobOK, JobType, Storing
<1>4. fp \in j.todo /\ fp \in Fingerprints /\ fp # j.fp /\ fp[1] = j.fp[1]
  BY <1>1, <1>3, FirstMember DEF PriorOK
<1>5. CASE fail
  BY <1>1, <1>5, AnswerStep DEF fail, Ended
<1>6. CASE a2
  <2> DEFINE k == [j EXCEPT !.todo = j.todo \ {fp}]
  <2>1. job' = [job EXCEPT ![r] = k]
    BY <1>6 DEF a2
  <2>2. k \in JobType
    BY <1>3 DEF JobType
  <2>3. /\ k.pc = "prior" /\ k.kind = j.kind /\ k.fp = j.fp /\ k.mailbox = j.mailbox
        /\ k.mut = j.mut /\ k.todo = j.todo \ {fp} /\ k.prior = j.prior
    BY <1>1, <1>3 DEF JobType
  <2> HIDE DEF k, fp
  <2>4. JobOK(k, records, blobs, applied)
    <3>1. PriorOK(k, records)
      BY <1>1, <1>3, <2>3 DEF PriorOK
    <3> QED
      BY <1>1, <2>2, <2>3, <3>1 DEF JobOK, InputOK, ChangeOK, Storing, Changing, CaptureOnly, Ended
  <2> QED
    BY <1>1, <2>1, <2>4, ReadStep
<1>7. CASE ~c1 /\ ~c2 /\ ~c3 /\ a4
  <2> DEFINE s == State(fp)
             p == [fp |-> fp, state |-> s]
             k == [j EXCEPT !.todo = j.todo \ {fp}, !.prior = {p}]
  <2>1. job' = [job EXCEPT ![r] = k]
    BY <1>7 DEF a4, IInv
  <2>2. s \in StateType /\ Has(records, "folder", s.mailbox) /\ ~s.tombstone
    <3>1. Has(records, "state", fp) /\ ~s.tombstone /\ s = StateIn(records, fp)
      BY <1>7 DEF c1, c2, Exists, Has, State, Value, StateIn
    <3>2. PairOK(records, blobs, fp)
      BY <1>4 DEF IInv, SpaceOK
    <3> QED
      BY <3>1, <3>2 DEF PairOK
  <2> HIDE DEF s, fp
  <2>3. p \in PriorType /\ p.fp = fp /\ p.state = s
    BY <1>4, <2>2 DEF PriorType
  <2> HIDE DEF p
  <2>4. k \in JobType
    BY <1>3, <2>3 DEF JobType
  <2>5. /\ k.pc = "prior" /\ k.kind = j.kind /\ k.fp = j.fp /\ k.mailbox = j.mailbox
        /\ k.mut = j.mut /\ k.todo = j.todo \ {fp} /\ k.prior = {p}
    BY <1>1, <1>3 DEF JobType
  <2> HIDE DEF k
  <2>6. PriorOK(k, records)
    BY <1>1, <1>3, <1>4, <2>2, <2>3, <2>5 DEF PriorOK
  <2>7. JobOK(k, records, blobs, applied)
    BY <1>1, <2>4, <2>5, <2>6 DEF JobOK, InputOK, ChangeOK, Storing, Changing, CaptureOnly, Ended
  <2> QED
    BY <1>1, <2>1, <2>7, ReadStep
<1> QED
  BY <1>2, <1>5, <1>6, <1>7

\* The other versions have all been read
LEMMA PriorKnownOK ==
    ASSUME IInv, NEW r \in Requests, PriorKnown(r) PROVE IInv'
<1>1. /\ JobOK(job[r], records, blobs, applied) /\ job[r].pc = "prior" /\ ReadOnly
      /\ Goto(r, "upload")
  BY DEF IInv, PriorKnown
<1>2. /\ job[r].kind \in {"capture", "mirror"} /\ job[r].pc \notin Ended
      /\ Has(records, "folder", job[r].mailbox) /\ "upload" \in Storing \ {"prior", "apply"}
      /\ "upload" \notin CaptureOnly
  BY <1>1 DEF JobOK, InputOK, Storing, CaptureOnly, Ended
<1> QED
  BY <1>1, <1>2, StoringStep

\* The bytes are there before the batch; the answer may be lost
LEMMA UploadOK ==
    ASSUME IInv, NEW r \in Requests, Upload(r) PROVE IInv'
<1> DEFINE j == job[r]
<1>1. /\ JobOK(j, records, blobs, applied) /\ j.pc = "upload" /\ records' = records
      /\ blobs' = blobs \cup {j.fp[2]} /\ walk' = walk /\ applied' = applied
  BY DEF IInv, Upload, UploadBlob, Rest
<1>2. /\ j.kind \in {"capture", "mirror"} /\ j.pc \notin Ended /\ j.fp \in Fingerprints
      /\ Has(records, "folder", j.mailbox)
  BY <1>1 DEF JobOK, InputOK, Storing, Ended
<1>3. j.fp[2] \in Bodies
  BY <1>2 DEF Fingerprints
<1>4. SpaceOK(records, blobs', applied)
  BY <1>1, <1>3, UploadSpace DEF IInv
<1>5. JobOK(j, records, blobs', applied)
  BY <1>1, JobStable
<1>6. CASE Goto(r, "apply")
  <2> DEFINE k == [j EXCEPT !.pc = "apply"]
  <2>1. job' = [job EXCEPT ![r] = k]
    BY <1>6 DEF Goto
  <2>2. "apply" \in Storing \ {"prior"} /\ "apply" \notin CaptureOnly
    BY DEF Storing, CaptureOnly
  <2>3. JobOK(k, records, blobs', applied)
    BY <1>1, <1>2, <1>5, <2>2, GoStoring
  <2> HIDE DEF k
  <2> QED
    BY <1>1, <1>4, <2>1, <2>3, GrowStep
<1>7. CASE Answer(r, "failed")
  <2>1. job' = [job EXCEPT ![r] = Answered(j, "failed")]
    BY <1>7 DEF Answer, Answered
  <2>2. JobOK(Answered(j, "failed"), records, blobs', applied)
    BY <1>1, <1>5, AnswerOK DEF Ended
  <2> QED
    BY <1>1, <1>4, <2>1, <2>2, GrowStep
<1> QED
  BY <1>6, <1>7 DEF Upload

\* What the batch of r leaves behind, whatever r is told
LEMMA BatchSpace ==
    ASSUME IInv, NEW r \in Requests, ApplyBatch(r)
    PROVE  /\ records' = records \/ StoredIn(job[r], records, records')
           /\ DOMAIN records \subseteq DOMAIN records' /\ blobs' = blobs
           /\ walk' = walk /\ applied' = applied /\ SpaceOK(records', blobs, applied)
<1>1. /\ JobOK(job[r], records, blobs, applied) /\ job[r].pc = "apply" /\ ApplyWrites(Batch(r))
      /\ walk' = walk /\ applied' = applied
  BY DEF IInv, ApplyBatch, Rest
<1>2. blobs' = blobs /\ records' = IF BatchError(Batch(r)) = "none" THEN Applied(Batch(r)) ELSE records
  BY <1>1 DEF ApplyWrites
<1>3. CASE BatchError(Batch(r)) = "none"
  <2>1. StoredIn(job[r], records, records')
    BY <1>1, <1>2, <1>3, BatchStores
  <2>2. SpaceOK(records', blobs, applied)
    BY <1>1, <2>1, StoredSpace DEF IInv
  <2> QED
    BY <1>1, <1>2, <2>1, <2>2 DEF StoredIn
<1>4. CASE BatchError(Batch(r)) # "none"
  BY <1>1, <1>2, <1>4 DEF IInv
<1> QED
  BY <1>3, <1>4

\* The batch is applied as a whole or not at all
LEMMA ApplyBatchOK ==
    ASSUME IInv, NEW r \in Requests, ApplyBatch(r) PROVE IInv'
<1> DEFINE j == job[r]
           error == BatchError(Batch(r))
           new == error = "none"
           a1 == j.kind = "mirror" /\ Goto(r, "verify")
           a2 == j.kind = "capture" /\ job' = [job EXCEPT ![r].pc = "list", ![r].fresh = new]
           a3 == Answer(r, "conflict")
           a4 == Answer(r, "failed")
<1>1. /\ JobOK(j, records, blobs, applied) /\ j.pc = "apply"
      /\ a1 \/ a2 \/ a3 \/ a4
  BY Zenon DEF IInv, ApplyBatch
<1>2. /\ DOMAIN records \subseteq DOMAIN records' /\ blobs' = blobs
      /\ walk' = walk /\ applied' = applied /\ SpaceOK(records', blobs, applied)
  BY BatchSpace
<1>3. new \in BOOLEAN
  OBVIOUS
<1>4. JobOK(j, records', blobs, applied)
  BY <1>1, <1>2, JobStable
<1>5. /\ j.kind \in {"capture", "mirror"} /\ j.pc \notin Ended
      /\ Has(records', "folder", j.mailbox)
  BY <1>1, <1>4 DEF JobOK, InputOK, Storing, Ended
<1> HIDE DEF new
<1>6. CASE a1
  <2> DEFINE k == [j EXCEPT !.pc = "verify"]
  <2>1. job' = [job EXCEPT ![r] = k]
    BY <1>6 DEF Goto
  <2>2. "verify" \in Storing \ {"prior"} /\ "verify" # "apply" /\ "verify" \notin CaptureOnly
    BY DEF Storing, CaptureOnly
  <2>3. JobOK(k, records', blobs, applied)
    BY <1>4, <1>5, <2>2, GoStoring
  <2> HIDE DEF k
  <2> QED
    BY <1>2, <2>1, <2>3, GrowStep
<1>7. ASSUME NEW label \in {"conflict", "failed"}, Answer(r, label) PROVE IInv'
  <2>1. job' = [job EXCEPT ![r] = Answered(j, label)]
    BY <1>7 DEF Answer, Answered
  <2>2. JobOK(Answered(j, label), records', blobs, applied)
    BY <1>1, <1>4, <1>7, AnswerOK DEF Ended
  <2> QED
    BY <1>2, <2>1, <2>2, GrowStep
<1>8. CASE a2
  <2> DEFINE k == [j EXCEPT !.pc = "list", !.fresh = new]
             k0 == [j EXCEPT !.pc = "list"]
  <2>1. job' = [job EXCEPT ![r] = k]
    BY <1>8
  <2>2. "list" \in Storing \ {"prior"} /\ "list" # "apply"
    BY DEF Storing
  <2>3. JobOK(k0, records', blobs, applied)
    BY <1>4, <1>5, <1>8, <2>2, GoStoring
  <2>4. k = [k0 EXCEPT !.fresh = new]
    BY <1>4 DEF JobOK, JobType
  <2> HIDE DEF k, k0
  <2>5. /\ k \in JobType /\ k.pc = k0.pc /\ k.kind = k0.kind /\ k.fp = k0.fp
        /\ k.mailbox = k0.mailbox /\ k.mut = k0.mut /\ k.seen = k0.seen
        /\ k.prior = k0.prior /\ k.todo = k0.todo
    BY <1>3, <2>3, <2>4 DEF JobOK, JobType
  <2>6. JobOK(k, records', blobs, applied)
    BY <2>3, <2>5 DEF JobOK, InputOK, PriorOK, ChangeOK
  <2> QED
    BY <1>2, <2>1, <2>6, GrowStep
<1> QED
  BY <1>1, <1>6, <1>7, <1>8

\* All versions of the source are to be read
LEMMA ListSourceOK ==
    ASSUME IInv, NEW r \in Requests, ListSource(r) PROVE IInv'
<1> DEFINE j == job[r]
           T == OfSource(j.fp[1])
           k == [j EXCEPT !.todo = T, !.live = 0, !.pc = "single"]
<1>1. JobOK(j, records, blobs, applied) /\ j.pc = "list" /\ ReadOnly
  BY DEF IInv, ListSource
<1>2. job' = [job EXCEPT ![r] = k]
  BY DEF ListSource
<1>3. T \subseteq Fingerprints
  BY SourceVersions DEF IInv
<1> HIDE DEF T
<1>4. k \in JobType
  <2>1. j \in JobType /\ "single" \in Labels
    BY <1>1 DEF JobOK, Labels, Storing
  <2> QED
    BY <1>3, <2>1 DEF JobType
<1>5. /\ k.pc = "single" /\ k.kind = j.kind /\ k.fp = j.fp /\ k.mailbox = j.mailbox
      /\ k.mut = j.mut /\ k.prior = j.prior
  BY <1>1 DEF JobOK, JobType
<1> HIDE DEF k
<1>6. JobOK(k, records, blobs, applied)
  BY <1>1, <1>4, <1>5 DEF JobOK, InputOK, PriorOK, ChangeOK, Storing, Changing, CaptureOnly, Ended
<1> QED
  BY <1>1, <1>2, <1>6, ReadStep

\* A version that is not live, or the captured one
LEMMA CheckVersionOK ==
    ASSUME IInv, NEW r \in Requests, CheckVersion(r) PROVE IInv'
<1> DEFINE j == job[r]
           fp == First(j.todo)
           n == j.live + IF State(fp).tombstone THEN 0 ELSE 1
           k == [j EXCEPT !.todo = j.todo \ {fp}, !.live = n]
<1>1. /\ JobOK(j, records, blobs, applied) /\ j.pc = "single" /\ ReadOnly
      /\ Answer(r, "failed") \/ job' = [job EXCEPT ![r] = k]
  BY DEF IInv, CheckVersion
<1>2. CASE Answer(r, "failed")
  BY <1>1, <1>2, AnswerStep DEF Ended
<1>3. CASE job' = [job EXCEPT ![r] = k]
  <2>1. j \in JobType
    BY <1>1 DEF JobOK
  <2>2. n \in Nat
    BY <2>1 DEF JobType
  <2> HIDE DEF n, fp
  <2>3. k \in JobType
    BY <2>1, <2>2 DEF JobType
  <2>4. /\ k.pc = "single" /\ k.kind = j.kind /\ k.fp = j.fp /\ k.mailbox = j.mailbox
        /\ k.mut = j.mut /\ k.prior = j.prior
    BY <1>1, <2>1 DEF JobType
  <2> HIDE DEF k
  <2>5. JobOK(k, records, blobs, applied)
    BY <1>1, <2>3, <2>4 DEF JobOK, InputOK, PriorOK, ChangeOK, Storing, Changing, CaptureOnly, Ended
  <2> QED
    BY <1>1, <1>3, <2>5, ReadStep
<1> QED
  BY <1>1, <1>2, <1>3

\* One version is live; the state of an old one is reconciled
LEMMA SingleLiveOK ==
    ASSUME IInv, NEW r \in Requests, SingleLive(r) PROVE IInv'
<1>1. /\ JobOK(job[r], records, blobs, applied) /\ job[r].pc = "single" /\ ReadOnly
      /\ Answer(r, "failed") \/ Goto(r, "verify") \/ Goto(r, "reconcile")
  BY DEF IInv, SingleLive
<1>2. /\ job[r].kind \in {"capture", "mirror"} /\ job[r].pc \notin Ended
      /\ Has(records, "folder", job[r].mailbox) /\ job[r].kind = "capture"
  BY <1>1 DEF JobOK, InputOK, Storing, CaptureOnly, Ended
<1>3. {"verify", "reconcile"} \subseteq Storing \ {"prior", "apply"} /\ "failed" \in Ended
  BY DEF Storing, Ended
<1> QED
  BY <1>1, <1>2, <1>3, StoringStep, AnswerStep

\* The receipt of a capture or a mirror is read back
LEMMA VerifyOK ==
    ASSUME IInv, NEW r \in Requests, Verify(r) PROVE IInv'
<1>1. /\ JobOK(job[r], records, blobs, applied) /\ job[r].pc = "verify" /\ ReadOnly
      /\ Answer(r, "failed") \/ Answer(r, "ok")
  BY DEF IInv, Verify
<1>2. job[r].kind # "change" /\ {"failed", "ok"} \subseteq Ended
  BY <1>1 DEF JobOK, InputOK, Storing, Ended
<1> QED
  BY <1>1, <1>2, AnswerStep

\* A capture whose message was elsewhere becomes a change of its state
LEMMA ReconcileOK ==
    ASSUME IInv, NEW r \in Requests, Reconcile(r) PROVE IInv'
<1> DEFINE j == job[r]
           s == State(j.fp)
           mu == [operation |-> "replace", fp |-> j.fp, expected |-> s.revision,
                  op |-> CaptureOp(j.mailbox, j.keywords), mailbox |-> j.mailbox,
                  keywords |-> j.keywords, tombstone |-> FALSE]
           c1 == s.tombstone
           c2 == s.mailbox = j.mailbox /\ s.keywords = j.keywords
           a1 == Answer(r, "failed")
           a2 == Goto(r, "verify")
           a3 == job' = [job EXCEPT ![r].pc = "replace", ![r].mut = mu]
<1>1. /\ JobOK(j, records, blobs, applied) /\ j.pc = "reconcile" /\ ReadOnly
      /\ IF ~Exists("state", j.fp) THEN a1 ELSE IF c1 THEN a1 ELSE IF c2 THEN a2 ELSE a3
  BY DEF IInv, Reconcile
<1>2. a1 \/ a2 \/ (Exists("state", j.fp) /\ a3)
  <2> HIDE DEF c1, c2, a1, a2, a3
  <2> QED
    BY <1>1
<1>3. /\ j \in JobType /\ j.kind = "capture" /\ j.pc \notin Ended
      /\ Has(records, "folder", j.mailbox) /\ j.fp \in Fingerprints /\ j.mailbox \in Mailboxes
      /\ j.keywords \in SUBSET Keywords
  BY <1>1 DEF JobOK, InputOK, Storing, CaptureOnly, Ended, JobType
<1>4. CASE a1
  BY <1>1, <1>4, AnswerStep DEF Ended
<1>5. CASE a2
  <2>1. "verify" \in Storing \ {"prior", "apply"}
    BY DEF Storing
  <2> QED
    BY <1>1, <1>3, <1>5, <2>1, StoringStep
<1>6. CASE Exists("state", j.fp) /\ a3
  <2> DEFINE k == [j EXCEPT !.pc = "replace", !.mut = mu]
  <2>1. job' = [job EXCEPT ![r] = k]
    BY <1>6
  <2>2. s.revision \in Nat
    <3>1. PairOK(records, blobs, j.fp)
      BY <1>3 DEF IInv, SpaceOK
    <3>2. s \in StateType
      BY <1>6, <3>1 DEF PairOK, Exists, Has, State, Value, StateIn
    <3> QED
      BY <3>2 DEF StateType
  <2>3. CaptureOp(j.mailbox, j.keywords) \in AgentOps
    BY <1>3 DEF AgentOps
  <2> HIDE DEF CaptureOp, s
  <2>4. mu \in MutationType(Ops \cup AgentOps) /\ mu.op \in AgentOps
    BY <1>3, <2>2, <2>3 DEF MutationType, Operations
  <2> HIDE DEF mu
  <2>5. k \in JobType
    <3>1. "replace" \in Labels
      BY DEF Labels, Changing
    <3> QED
      BY <1>3, <2>4, <3>1 DEF JobType
  <2>6. /\ k.pc = "replace" /\ k.kind = j.kind /\ k.fp = j.fp /\ k.mailbox = j.mailbox
        /\ k.mut = mu /\ k.prior = j.prior
    BY <1>3 DEF JobType
  <2> HIDE DEF k
  <2>7. InputOK(k)
    BY <1>3, <2>6 DEF InputOK, Storing, CaptureOnly, Ended
  <2>8. PriorOK(k, records) /\ ChangeOK(k, records)
    BY <1>1, <1>3, <2>4, <2>6 DEF JobOK, PriorOK, ChangeOK
  <2>9. JobOK(k, records, blobs, applied)
    BY <2>5, <2>6, <2>7, <2>8 DEF JobOK, Storing
  <2> QED
    BY <1>1, <2>1, <2>9, ReadStep
<1> QED
  BY <1>2, <1>4, <1>5, <1>6

-----------------------------------------------------------------------------
(* Changes of a state.                                                      *)

\* Going on within a change, whatever it has read so far
LEMMA GoChanging ==
    ASSUME NEW j, NEW R, NEW B, NEW A, JobOK(j, R, B, A), j.pc \in Changing,
           NEW k \in JobType, k.pc \in Changing, k.kind = j.kind, k.fp = j.fp,
           k.mailbox = j.mailbox, k.mut = j.mut, k.prior = j.prior,
           k.pc \in {"destination", "put"} =>
                /\ k.seen \in StateType /\ k.seen.revision = k.mut.expected
                /\ ~k.seen.tombstone /\ Has(R, "folder", k.seen.mailbox),
           k.pc = "put" /\ k.mut.operation \in {"replace", "move"} => Has(R, "folder", k.mut.mailbox)
    PROVE  JobOK(k, R, B, A)
<1>1. k.pc \notin Storing \cup Ended \cup CaptureOnly \cup {"idle"}
  BY DEF Storing, Changing, CaptureOnly, Ended
<1>2. j.pc \notin Storing \cup Ended \cup CaptureOnly \cup {"idle"}
  BY DEF Storing, Changing, CaptureOnly, Ended
<1>3. InputOK(k)
  BY <1>1, <1>2 DEF JobOK, InputOK
<1>4. PriorOK(k, R)
  BY <1>1 DEF JobOK, PriorOK, Storing
<1>5. ChangeOK(k, R)
  BY DEF JobOK, ChangeOK
<1> QED
  BY <1>1, <1>3, <1>4, <1>5 DEF JobOK, Storing, Ended

\* The message of a change exists
LEMMA ReplaceMessageOK ==
    ASSUME IInv, NEW r \in Requests, ReplaceMessage(r) PROVE IInv'
<1> DEFINE j == job[r]
           k == [j EXCEPT !.pc = "current"]
<1>1. /\ JobOK(j, records, blobs, applied) /\ j.pc = "replace" /\ ReadOnly
      /\ Answer(r, "failed") \/ job' = [job EXCEPT ![r] = k]
  BY DEF IInv, ReplaceMessage, Goto
<1>2. CASE Answer(r, "failed")
  BY <1>1, <1>2, AnswerStep DEF Ended
<1>3. CASE job' = [job EXCEPT ![r] = k]
  <2>1. j \in JobType /\ "current" \in Labels /\ {"replace", "current"} \subseteq Changing
    BY <1>1 DEF JobOK, Labels, Changing
  <2>2. /\ k \in JobType /\ k.pc = "current" /\ k.kind = j.kind /\ k.fp = j.fp
        /\ k.mailbox = j.mailbox /\ k.mut = j.mut /\ k.prior = j.prior
    BY <2>1, GotoFields
  <2> HIDE DEF k
  <2>3. JobOK(k, records, blobs, applied)
    BY <1>1, <2>1, <2>2, GoChanging
  <2> QED
    BY <1>1, <1>3, <2>3, ReadStep
<1> QED
  BY <1>1, <1>2, <1>3

\* The job of a request whose change has been made, or had been made before
ChangedJob(j) == IF j.kind = "capture" THEN [j EXCEPT !.pc = "verify"] ELSE Answered(j, "ok")

\* A change that is done: a capture is verified, another request is answered
LEMMA ChangedOK ==
    ASSUME NEW j, NEW R, NEW B, NEW A, JobOK(j, R, B, A), j.pc \in Changing,
           j.kind = "change" => A[j.mut.op] = 1
    PROVE  JobOK(ChangedJob(j), R, B, A)
<1>1. CASE j.kind = "capture"
  <2>1. Has(R, "folder", j.mailbox) /\ j.pc \notin Ended
    BY <1>1 DEF JobOK, ChangeOK, Changing, Ended
  <2>2. "verify" \in Storing \ {"prior"} /\ "verify" # "apply"
    BY DEF Storing
  <2> QED
    BY <1>1, <2>1, <2>2, GoStoring DEF ChangedJob
<1>2. CASE j.kind # "capture"
  <2>1. j.pc # "idle" /\ "ok" \in Ended
    BY DEF Changing, Ended
  <2> QED
    BY <1>2, <2>1, AnswerOK DEF ChangedJob
<1> QED
  BY <1>1, <1>2

\* The actions of a change are what the lemmas above are about
LEMMA ChangedAction ==
    ASSUME IInv, NEW r \in Requests
    PROVE  /\ Changed(r) => job' = [job EXCEPT ![r] = ChangedJob(job[r])]
           /\ Refused(r) => Answer(r, "failed") \/ Answer(r, "conflict")
<1>1. Changed(r) => job' = [job EXCEPT ![r] = ChangedJob(job[r])]
  BY DEF Changed, ChangedJob, Goto, Answer, Answered
<1>2. Refused(r) => Answer(r, "failed") \/ Answer(r, "conflict")
  BY DEF Refused
<1> QED
  BY <1>1, <1>2

\* What a change may rely on in the state it reads
LEMMA ReadStateOK ==
    ASSUME IInv, NEW r \in Requests, ReadState(r) PROVE IInv'
<1> DEFINE j == job[r]
           s == State(j.mut.fp)
           label == IF j.mut.operation \in {"replace", "move"} THEN "destination" ELSE "put"
           k == [j EXCEPT !.seen = s, !.pc = label]
<1>1. /\ JobOK(j, records, blobs, applied) /\ j.pc = "current" /\ ReadOnly
      /\ \/ Answer(r, "failed")
         \/ Exists("state", j.mut.fp) /\ s.last = j.mut.op /\ Changed(r)
         \/ Refused(r)
         \/ /\ Exists("state", j.mut.fp) /\ s.revision = j.mut.expected /\ ~s.tombstone
            /\ job' = [job EXCEPT ![r].seen = s, ![r].pc = label]
  BY DEF IInv, ReadState
<1>2. /\ j \in JobType /\ j.pc \in Changing /\ j.mut \in MutationType(Ops \cup AgentOps)
      /\ j.kind \in {"capture", "change"} /\ j.mut.fp \in Fingerprints
  BY <1>1 DEF JobOK, ChangeOK, Changing, MutationType
<1>3. Exists("state", j.mut.fp) =>
        /\ Has(records, "state", j.mut.fp) /\ s = StateIn(records, j.mut.fp)
        /\ s \in StateType /\ Has(records, "folder", s.mailbox)
  <2>1. PairOK(records, blobs, j.mut.fp)
    BY <1>2 DEF IInv, SpaceOK
  <2> QED
    BY <2>1 DEF PairOK, Exists, Has, State, Value, StateIn
<1> HIDE DEF s
<1>4. CASE Answer(r, "failed") \/ Refused(r)
  BY <1>1, <1>4, ChangedAction, AnswerStep DEF Ended
<1>5. CASE Exists("state", j.mut.fp) /\ s.last = j.mut.op /\ Changed(r)
  <2>1. j.kind = "change" => applied[j.mut.op] = 1
    <3>1. j.kind = "change" => j.mut.op \in Ops
      BY <1>1 DEF JobOK, InputOK
    <3>2. CountOK(records, applied)
      BY DEF IInv, SpaceOK
    <3> QED
      BY <1>2, <1>3, <1>5, <3>1, <3>2 DEF CountOK
  <2>2. JobOK(ChangedJob(j), records, blobs, applied)
    BY <1>1, <1>2, <2>1, ChangedOK
  <2>3. job' = [job EXCEPT ![r] = ChangedJob(j)]
    BY <1>5, ChangedAction
  <2> QED
    BY <1>1, <2>2, <2>3, ReadStep
<1>6. CASE /\ Exists("state", j.mut.fp) /\ s.revision = j.mut.expected /\ ~s.tombstone
           /\ job' = [job EXCEPT ![r].seen = s, ![r].pc = label]
  <2>1. label \in {"destination", "put"} /\ label \in Labels /\ label \in Changing
    BY DEF Labels, Changing
  <2>2. label = "put" => j.mut.operation \notin {"replace", "move"}
    OBVIOUS
  <2> HIDE DEF label
  <2>3. job' = [job EXCEPT ![r] = k]
    BY <1>6
  <2>4. k \in JobType
    BY <1>2, <1>3, <1>6, <2>1 DEF JobType
  <2>5. /\ k.pc = label /\ k.kind = j.kind /\ k.fp = j.fp /\ k.mailbox = j.mailbox
        /\ k.mut = j.mut /\ k.prior = j.prior /\ k.seen = s
    BY <1>2 DEF JobType
  <2> HIDE DEF k
  <2>6. JobOK(k, records, blobs, applied)
    BY <1>1, <1>2, <1>3, <1>6, <2>1, <2>2, <2>4, <2>5, GoChanging
  <2> QED
    BY <1>1, <2>3, <2>6, ReadStep
<1> QED
  BY <1>1, <1>4, <1>5, <1>6

\* The folder a change moves to exists
LEMMA DestinationOK ==
    ASSUME IInv, NEW r \in Requests, Destination(r) PROVE IInv'
<1> DEFINE j == job[r]
           k == [j EXCEPT !.pc = "put"]
<1>1. /\ JobOK(j, records, blobs, applied) /\ j.pc = "destination" /\ ReadOnly
      /\ \/ Answer(r, "failed")
         \/ Has(records, "folder", j.mut.mailbox) /\ job' = [job EXCEPT ![r] = k]
  BY DEF IInv, Destination, Goto, Exists, Has
<1>2. CASE Answer(r, "failed")
  BY <1>1, <1>2, AnswerStep DEF Ended
<1>3. CASE Has(records, "folder", j.mut.mailbox) /\ job' = [job EXCEPT ![r] = k]
  <2>1. j \in JobType /\ "put" \in Labels /\ {"destination", "put"} \subseteq Changing
    BY <1>1 DEF JobOK, Labels, Changing
  <2>2. /\ k \in JobType /\ k.pc = "put" /\ k.kind = j.kind /\ k.fp = j.fp
        /\ k.mailbox = j.mailbox /\ k.mut = j.mut /\ k.prior = j.prior /\ k.seen = j.seen
    BY <2>1, GotoFields
  <2> HIDE DEF k
  <2>3. /\ j.seen \in StateType /\ j.seen.revision = j.mut.expected
        /\ ~j.seen.tombstone /\ Has(records, "folder", j.seen.mailbox)
    BY <1>1, <2>1 DEF JobOK, ChangeOK
  <2>4. JobOK(k, records, blobs, applied)
    BY <1>1, <1>3, <2>1, <2>2, <2>3, GoChanging
  <2> QED
    BY <1>1, <1>3, <2>4, ReadStep
<1> QED
  BY <1>1, <1>2, <1>3

\* What the compare-and-swap of r leaves behind, whatever r is told
LEMMA PutSpace ==
    ASSUME IInv, NEW r \in Requests, PutState(r)
    PROVE  LET error == CASError("state", job[r].mut.fp, job[r].seen) IN
           /\ error = "none" => /\ ChangedIn(job[r], records, records')
                                /\ job[r].mut.op \in Ops => applied'[job[r].mut.op] = 1
           /\ error # "none" => records' = records /\ applied' = applied
           /\ DOMAIN records' = DOMAIN records /\ blobs' = blobs /\ walk' = walk
           /\ \A o \in Ops : applied[o] = 1 => applied'[o] = 1
           /\ SpaceOK(records', blobs, applied')
<1> DEFINE m == job[r].mut
           error == CASError("state", m.fp, job[r].seen)
<1>1. /\ JobOK(job[r], records, blobs, applied) /\ job[r].pc = "put" /\ walk' = walk
      /\ PutRecordCAS("state", m.fp, NextState(job[r].seen, m), job[r].seen)
      /\ applied' = IF error = "none" /\ m.op \in Ops
                    THEN [applied EXCEPT ![m.op] = @ + 1] ELSE applied
  BY DEF IInv, PutState
<1>2. blobs' = blobs
  BY <1>1 DEF PutRecordCAS
<1>3. CASE error = "none"
  <2>1. ChangedIn(job[r], records, records')
    BY <1>1, <1>3, SwapChanges
  <2>2. applied' = IF m.op \in Ops THEN [applied EXCEPT ![m.op] = @ + 1] ELSE applied
    BY <1>1, <1>3
  <2>3. /\ SpaceOK(records', blobs, applied') /\ \A o \in Ops : applied[o] = 1 => applied'[o] = 1
        /\ m.op \in Ops => applied'[m.op] = 1
    <3>1. SpaceOK(records, blobs, applied) /\ JobOK(job[r], records, blobs, applied)
          /\ job[r].pc = "put"
      BY <1>1 DEF IInv
    <3>2. PICK j, N, D : j = job[r] /\ N = records' /\ D = applied'
      OBVIOUS
    <3>3. CountedIn(j, applied, D)
      BY <2>2, <3>2 DEF CountedIn
    <3>4. /\ SpaceOK(records, blobs, applied) /\ JobOK(j, records, blobs, applied)
          /\ j.pc = "put" /\ ChangedIn(j, records, N)
      BY <2>1, <3>1, <3>2
    <3>5. /\ SpaceOK(N, blobs, D) /\ \A o \in Ops : applied[o] = 1 => D[o] = 1
          /\ j.mut.op \in Ops => D[j.mut.op] = 1
      BY <3>3, <3>4, ChangedSpace
    <3> QED
      BY <3>2, <3>5
  <2>4. DOMAIN records' = DOMAIN records
    BY <2>1 DEF ChangedIn
  <2> QED
    BY <1>1, <1>2, <1>3, <2>1, <2>3, <2>4
<1>4. CASE error # "none"
  <2>1. records' = records /\ applied' = applied
    BY <1>1, <1>4 DEF PutRecordCAS
  <2> QED
    BY <1>1, <1>2, <1>4, <2>1 DEF IInv
<1> QED
  BY <1>3, <1>4

\* A state is written over the one that was read, or not at all
LEMMA PutStateOK ==
    ASSUME IInv, NEW r \in Requests, PutState(r) PROVE IInv'
<1> DEFINE j == job[r]
           error == CASError("state", j.mut.fp, j.seen)
<1>1. /\ JobOK(j, records, blobs, applied) /\ j.pc = "put"
      /\ Answer(r, "failed") \/ (error = "none" /\ Changed(r)) \/ Refused(r)
  BY DEF IInv, PutState
<1>2. /\ DOMAIN records' = DOMAIN records /\ blobs' = blobs /\ walk' = walk
      /\ \A o \in Ops : applied[o] = 1 => applied'[o] = 1
      /\ SpaceOK(records', blobs', applied')
      /\ error = "none" /\ j.mut.op \in Ops => applied'[j.mut.op] = 1
  BY PutSpace
<1> HIDE DEF error
<1>3. JobOK(j, records', blobs', applied')
  BY <1>1, <1>2, JobStable
<1>4. ASSUME NEW label \in {"failed", "conflict"}, Answer(r, label) PROVE IInv'
  <2>1. job' = [job EXCEPT ![r] = Answered(j, label)]
    BY <1>4 DEF Answer, Answered
  <2>2. JobOK(Answered(j, label), records', blobs', applied')
    BY <1>1, <1>3, <1>4, AnswerOK DEF Ended
  <2> QED
    BY <1>2, <2>1, <2>2, GrowStep
<1>5. CASE error = "none" /\ Changed(r)
  <2>1. job' = [job EXCEPT ![r] = ChangedJob(j)]
    BY <1>5, ChangedAction
  <2>2. j.kind = "change" => applied'[j.mut.op] = 1
    BY <1>1, <1>2, <1>5 DEF JobOK, InputOK
  <2>3. JobOK(ChangedJob(j), records', blobs', applied')
    BY <1>1, <1>3, <2>2, ChangedOK DEF Changing
  <2> QED
    BY <1>2, <2>1, <2>3, GrowStep
<1> QED
  BY <1>1, <1>4, <1>5, ChangedAction

-----------------------------------------------------------------------------
(* The inventory walk.                                                      *)

\* What the lists of the repository show
LEMMA Listed ==
    ASSUME SpaceOK(records, blobs, applied)
    PROVE  /\ States = StatesIn(records) /\ Messages = StatesIn(records)
           /\ ListRecords("folder") \subseteq Mailboxes
<1>1. ASSUME NEW c \in {"folder", "message", "state"}, NEW x
      PROVE  x \in ListRecords(c) <=> Has(records, c, x)
  <2>1. ASSUME x \in ListRecords(c) PROVE Has(records, c, x)
    <3>1. PICK a \in DOMAIN records : a[1] = c /\ x = a[2]
      BY <2>1 DEF ListRecords
    <3>2. a = <<c, x>>
      BY <3>1 DEF SpaceOK, Addresses
    <3> QED
      BY <3>1, <3>2 DEF Has
  <2>2. ASSUME Has(records, c, x) PROVE x \in ListRecords(c)
    <3>1. <<c, x>> \in DOMAIN records /\ <<c, x>>[1] = c /\ <<c, x>>[2] = x
      BY <2>2 DEF Has
    <3> QED
      BY <3>1 DEF ListRecords
  <2> QED
    BY <2>1, <2>2
<1>2. \A x : /\ Has(records, "state", x) => x \in Fingerprints
             /\ Has(records, "message", x) => x \in Fingerprints
             /\ Has(records, "folder", x) => x \in Mailboxes
  BY DEF SpaceOK, Addresses, Has
<1>3. \A fp \in Fingerprints : Has(records, "message", fp) <=> Has(records, "state", fp)
  BY DEF SpaceOK, PairOK
<1>4. States = StatesIn(records)
  BY <1>1, <1>2 DEF States, StatesIn
<1>5. Messages = StatesIn(records)
  BY <1>1, <1>2, <1>3 DEF Messages, StatesIn
<1>6. ListRecords("folder") \subseteq Mailboxes
  BY <1>1, <1>2
<1> QED
  BY <1>4, <1>5, <1>6

\* The smallest of a set of numbers is one of them
LEMMA MinMember ==
    ASSUME NEW T \in SUBSET Nat, T # {} PROVE Min(T) \in T
<1>1. \E n \in T : \A m \in T : n <= m
  BY LeastNumber
<1> QED
  BY <1>1 DEF Min

\* A page ends somewhere
LEMMA PageEndNumber ==
    ASSUME NEW offset \in Nat, IsFiniteSet(States) PROVE PageEnd(offset) \in Nat
<1> DEFINE size == Cardinality(States)
           limit == Min({offset + pageLimit, size})
           Full(i) == MapThenSumSet(ItemSize, offset .. i) > maxPageSize
           over == {i \in offset + 1 .. limit - 1 : Full(i)}
<1>1. PageEnd(offset) = IF over = {} THEN limit ELSE Min(over)
  BY DEF PageEnd
<1>2. size \in Nat
  BY FS_CardinalityType
<1> HIDE DEF size, Full
<1>3. limit \in Nat
  <2>1. {offset + pageLimit, size} \in SUBSET Nat /\ {offset + pageLimit, size} # {}
    BY <1>2, AgentAssumption
  <2>2. Min({offset + pageLimit, size}) \in {offset + pageLimit, size}
    BY <2>1, MinMember
  <2> QED
    BY <2>1, <2>2
<1> HIDE DEF limit
<1>4. over \in SUBSET Nat
  BY <1>3
<1> HIDE DEF over
<1> QED
  BY <1>1, <1>3, <1>4, MinMember

\* A walk step touches nothing else
LEMMA WalkStep ==
    ASSUME IInv, UNCHANGED <<records, blobs, job, applied>>, WalkOK(walk', records)
    PROVE  IInv'
  BY DEF IInv

\* A walk begins with what is there
LEMMA WalkBeginOK ==
    ASSUME IInv, WalkBegin PROVE IInv'
<1> DEFINE w == [walk EXCEPT !.pc = "folders", !.start = Messages]
<1>1. /\ walk.pc = "idle" /\ walk' = w /\ UNCHANGED <<records, blobs, job, applied>>
  BY DEF WalkBegin
<1>2. walk \in WalkType /\ walk.offset = 0
  BY <1>1 DEF IInv, WalkOK
<1>3. Messages = StatesIn(records) /\ Messages \subseteq Fingerprints
  BY Listed DEF IInv, StatesIn
<1>4. w \in WalkType /\ w.pc = "folders" /\ w.start = Messages /\ w.offset = 0
  BY <1>2, <1>3 DEF WalkType
<1> HIDE DEF w
<1>5. ASSUME NEW fp \in w.start, Cardinality(Lower(records, fp)) < w.offset PROVE FALSE
  <2>1. IsFiniteSet(Lower(records, fp))
    BY StatesFinite, FS_Subset DEF IInv, SpaceOK, Lower
  <2>2. Cardinality(Lower(records, fp)) \in Nat
    BY <2>1, FS_CardinalityType
  <2> QED
    BY <1>4, <1>5, <2>2
<1>6. WalkOK(w, records)
  BY <1>3, <1>4, <1>5 DEF WalkOK
<1> QED
  BY <1>1, <1>6, WalkStep

\* The folders of a page are listed
LEMMA WalkFoldersOK ==
    ASSUME IInv, WalkFolders PROVE IInv'
<1> DEFINE F == ListRecords("folder")
           w == [walk EXCEPT !.pc = "page", !.folders = F]
<1>1. /\ walk' = w /\ UNCHANGED <<records, blobs, job, applied>>
  BY DEF WalkFolders
<1>2. walk \in WalkType /\ F \subseteq Mailboxes
  BY Listed DEF IInv, WalkOK
<1> HIDE DEF F
<1>3. /\ w \in WalkType /\ w.pc = "page" /\ w.start = walk.start /\ w.offset = walk.offset
      /\ w.seen = walk.seen
  BY <1>2 DEF WalkType
<1> HIDE DEF w
<1>4. WalkOK(w, records)
  BY <1>3 DEF IInv, WalkOK
<1> QED
  BY <1>1, <1>4, WalkStep

\* A walk that gives up has promised nothing
LEMMA WalkStops ==
    ASSUME IInv, NEW label \in {"torn", "invalid", "failed"}, walk' = [walk EXCEPT !.pc = label],
           UNCHANGED <<records, blobs, job, applied>>
    PROVE  IInv'
<1> DEFINE w == [walk EXCEPT !.pc = label]
<1>1. walk \in WalkType
  BY DEF IInv, WalkOK
<1>2. /\ w \in WalkType /\ w.pc = label /\ w.start = walk.start /\ w.offset = walk.offset
      /\ w.seen = walk.seen
  BY <1>1 DEF WalkType
<1> HIDE DEF w
<1>3. WalkOK(w, records)
  BY <1>2 DEF IInv, WalkOK
<1> QED
  BY <1>3, WalkStep DEF w

(***************************************************************************)
(* A page moves the offset to its own end, so what lies before the new     *)
(* offset is on this page or lay before the old one.  At the end of the    *)
(* list every position lies before the offset.                             *)
(***************************************************************************)
LEMMA WalkPageOK ==
    ASSUME IInv, WalkPage PROVE IInv'
<1> DEFINE next == PageEnd(walk.offset)
           size == Cardinality(States)
           page == {fp \in States : Position(fp) \in walk.offset .. next - 1}
           label == IF next < size THEN "folders" ELSE "done"
           w == [walk EXCEPT !.seen = @ \cup page, !.offset = next, !.folders = {}, !.pc = label]
<1>1. /\ UNCHANGED <<records, blobs, job, applied>> /\ walk \in WalkType
      /\ \/ \E l \in {"torn", "invalid"} : walk' = [walk EXCEPT !.pc = l]
         \/ walk' = w
  BY DEF WalkPage, IInv, WalkOK, NextCursor
<1>2. CASE \E l \in {"torn", "invalid"} : walk' = [walk EXCEPT !.pc = l]
  BY <1>1, <1>2, WalkStops
<1>3. CASE walk' = w
  <2>1. /\ States = StatesIn(records) /\ IsFiniteSet(States) /\ States \subseteq Fingerprints
        /\ walk.start \subseteq States
    BY Listed, StatesFinite DEF IInv, SpaceOK, StatesIn, WalkOK
  <2>2. ASSUME NEW fp \in States
        PROVE  /\ Position(fp) = Cardinality(Lower(records, fp)) /\ Position(fp) \in Nat
               /\ Position(fp) < size /\ size \in Nat
    <3>1. Position(fp) = Cardinality(Lower(records, fp))
      BY <2>1 DEF Position, Lower
    <3>2. Lower(records, fp) \subseteq States /\ fp \notin Lower(records, fp)
      BY <2>1, AgentAssumption DEF Lower
    <3>3. /\ Cardinality(Lower(records, fp)) <= size /\ size \in Nat
          /\ Cardinality(Lower(records, fp)) \in Nat
          /\ Cardinality(Lower(records, fp)) = size => Lower(records, fp) = States
      BY <2>1, <3>2, FS_Subset, FS_CardinalityType
    <3> HIDE DEF size
    <3> QED
      BY <3>1, <3>2, <3>3
  <2>3. next \in Nat /\ walk.offset \in Nat
    BY <1>1, <2>1, PageEndNumber DEF WalkType
  <2>4. page \subseteq Fingerprints /\ label \in {"folders", "done"}
    BY <2>1
  <2>5. label = "done" => ~(next < size)
    OBVIOUS
  <2>6. \A fp \in States : fp \in page <=> Position(fp) \in walk.offset .. next - 1
    OBVIOUS
  <2> HIDE DEF next, size, page, label
  <2>7. /\ w \in WalkType /\ w.pc = label /\ w.start = walk.start /\ w.offset = next
        /\ w.seen = walk.seen \cup page
    BY <1>1, <2>3, <2>4 DEF WalkType
  <2> HIDE DEF w
  <2>8. ASSUME NEW fp \in walk.start, Position(fp) < next PROVE fp \in w.seen
    <3>1. fp \in States /\ Position(fp) \in Nat /\ Position(fp) = Cardinality(Lower(records, fp))
      BY <2>1, <2>2
    <3>2. CASE Position(fp) < walk.offset
      BY <2>7, <3>1, <3>2 DEF IInv, WalkOK
    <3>3. CASE ~(Position(fp) < walk.offset)
      <4>1. Position(fp) \in walk.offset .. next - 1
        BY <2>3, <2>8, <3>1, <3>3
      <4> QED
        BY <2>6, <2>7, <3>1, <4>1
    <3> QED
      BY <3>2, <3>3
  <2>9. ASSUME NEW fp \in walk.start, label = "done" PROVE fp \in w.seen
    <3>1. fp \in States
      BY <2>1
    <3>2. Position(fp) < next
      BY <2>2, <2>3, <2>5, <2>9, <3>1
    <3> QED
      BY <2>8, <3>2
  <2>10. \A fp \in walk.start : Cardinality(Lower(records, fp)) = Position(fp)
    BY <2>1, <2>2
  <2>11. WalkOK(w, records)
    BY <2>1, <2>4, <2>7, <2>8, <2>9, <2>10 DEF WalkOK
  <2> QED
    BY <1>1, <1>3, <2>11, WalkStep
<1> QED
  BY <1>1, <1>2, <1>3

-----------------------------------------------------------------------------
(* The invariant.                                                           *)

\* The empty space
LEMMA IInvInit == Init => IInv
<1> SUFFICES ASSUME Init PROVE IInv
  OBVIOUS
<1>1. /\ DOMAIN records = {} /\ blobs = {} /\ applied = [o \in Ops |-> 0]
      /\ job = [r \in Requests |-> NoJob] /\ walk = NoWalk
  BY DEF Init, EmptySpace
<1>2. SpaceOK(records, blobs, applied)
  <2>1. IsFiniteSet(DOMAIN records)
    BY <1>1, FS_EmptySet
  <2>2. CountOK(records, applied)
    BY <1>1 DEF CountOK, Has
  <2>3. \A fp \in Fingerprints : PairOK(records, blobs, fp)
    BY <1>1 DEF PairOK, Has
  <2> QED
    BY <1>1, <2>1, <2>2, <2>3 DEF SpaceOK
<1>3. JobOK(NoJob, records, blobs, applied)
  <2>1. NoJob.pc = "idle" /\ NoJob.kind = "none" /\ NoJob.prior = {}
    BY DEF NoJob
  <2> HIDE DEF NoJob
  <2>2. InputOK(NoJob)
    BY <2>1 DEF InputOK, Storing, CaptureOnly
  <2>3. PriorOK(NoJob, records) /\ ChangeOK(NoJob, records)
    BY <2>1 DEF PriorOK, ChangeOK, Changing
  <2> QED
    BY <2>1, <2>2, <2>3, NoJobType DEF JobOK, Storing
<1>4. WalkOK(walk, records)
  <2>1. /\ walk \in WalkType /\ walk.start = {} /\ walk.pc = "idle" /\ walk.offset = 0
    BY <1>1 DEF NoWalk, WalkType
  <2> QED
    BY <2>1 DEF WalkOK
<1> QED
  BY <1>1, <1>2, <1>3, <1>4, NoJobType DEF IInv

\* Every step keeps it
LEMMA IInvStep == IInv /\ [Next]_vars => IInv'
<1> SUFFICES ASSUME IInv, [Next]_vars PROVE IInv'
  OBVIOUS
<1>1. ASSUME NEW r \in Requests, Begin(r) PROVE IInv'
  BY <1>1, BeginCaptureOK, BeginMirrorOK, BeginChangeOK DEF Begin
<1>2. ASSUME NEW r \in Requests, Step(r) PROVE IInv'
  <2>1. CASE GetFolder(r) \/ CreateFolder(r) \/ GetMessage(r) \/ GetOrphan(r)
    BY <2>1, GetFolderOK, CreateFolderOK, GetMessageOK, GetOrphanOK
  <2>2. CASE ListVersions(r) \/ GetPrior(r) \/ PriorKnown(r) \/ Upload(r) \/ ApplyBatch(r)
    BY <2>2, ListVersionsOK, GetPriorOK, PriorKnownOK, UploadOK, ApplyBatchOK
  <2>3. CASE ListSource(r) \/ CheckVersion(r) \/ SingleLive(r) \/ Reconcile(r) \/ Verify(r)
    BY <2>3, ListSourceOK, CheckVersionOK, SingleLiveOK, ReconcileOK, VerifyOK
  <2>4. CASE ReplaceMessage(r) \/ ReadState(r) \/ Destination(r) \/ PutState(r)
    BY <2>4, ReplaceMessageOK, ReadStateOK, DestinationOK, PutStateOK
  <2> QED
    BY <1>2, <2>1, <2>2, <2>3, <2>4 DEF Step
<1>3. ASSUME NEW r \in Requests, Fail(r) PROVE IInv'
  BY <1>3, FailOK
<1>4. CASE Walk
  BY <1>4, WalkBeginOK, WalkFoldersOK, WalkPageOK DEF Walk
<1>5. CASE WalkFail
  BY <1>5, WalkStops DEF WalkFail
<1>6. CASE UNCHANGED vars
  BY <1>6 DEF vars, IInv
<1> QED
  BY <1>1, <1>2, <1>3, <1>4, <1>5, <1>6 DEF Next

(***************************************************************************)
(* Whatever requests, failures and lost answers interleave: messages and   *)
(* states come in pairs with their bytes and folders, a written operation  *)
(* has moved its message past the revision it expects, a request relies on *)
(* nothing that can be taken from it, and a walk has seen what lies before *)
(* its offset.                                                             *)
(***************************************************************************)
THEOREM AgentInvariant == Spec => []IInv
  BY IInvInit, IInvStep, PTL DEF Spec

(***************************************************************************)
(* Complete: a message, its state, its bytes and its folder appear         *)
(* together, at every moment and after every failure.                      *)
(***************************************************************************)
THEOREM MailboxComplete == Spec => []Complete
<1>1. IInv => Complete
  <2> SUFFICES ASSUME IInv PROVE Complete
    OBVIOUS
  <2>1. Messages = StatesIn(records) /\ States = StatesIn(records)
    BY Listed DEF IInv
  <2>2. ASSUME NEW fp \in Messages
        PROVE  /\ GetBlob(Value("message", fp).raw) /\ Exists("folder", State(fp).mailbox)
    <3>1. fp \in Fingerprints /\ Has(records, "state", fp) /\ PairOK(records, blobs, fp)
      BY <2>1, <2>2 DEF StatesIn, IInv, SpaceOK
    <3>2. Value("message", fp) = Message(fp) /\ fp[2] \in blobs
      BY <3>1 DEF PairOK, Value
    <3>3. Message(fp).raw = fp[2]
      BY DEF Message
    <3>4. GetBlob(fp[2])
      BY <2>2, <3>2, <3>3 DEF GetBlob, BlobCIDs, Messages
    <3>5. Exists("folder", State(fp).mailbox)
      BY <3>1 DEF PairOK, Exists, Has, State, Value, StateIn
    <3> QED
      BY <3>2, <3>3, <3>4, <3>5
  <2> QED
    BY <2>1, <2>2 DEF Complete
<1> QED
  BY <1>1, AgentInvariant, PTL

(***************************************************************************)
(* ExactlyOnce: an operation id is written at most once, however often and *)
(* however late it is retried, and an ok stands for exactly one write.     *)
(***************************************************************************)
THEOREM OperationsOnce == Spec => []ExactlyOnce
<1>1. IInv => ExactlyOnce
  <2> SUFFICES ASSUME IInv PROVE ExactlyOnce
    OBVIOUS
  <2>1. \A o \in Ops : applied[o] \in {0, 1}
    BY DEF IInv, SpaceOK, CountOK
  <2>2. \A o \in Ops : applied[o] <= 1
    BY <2>1
  <2>3. \A r \in Requests : job[r].kind = "change" /\ job[r].pc = "ok" => applied[job[r].mut.op] = 1
    BY DEF IInv, JobOK
  <2> QED
    BY <2>2, <2>3 DEF ExactlyOnce
<1> QED
  BY <1>1, AgentInvariant, PTL

(***************************************************************************)
(* InventoryComplete: a finished walk has seen every message that was      *)
(* there when it began, although captures lengthen the list it pages       *)
(* through.                                                                *)
(***************************************************************************)
THEOREM InventorySeesAll == Spec => []InventoryComplete
<1>1. IInv => InventoryComplete
  BY DEF IInv, WalkOK, InventoryComplete
<1> QED
  BY <1>1, AgentInvariant, PTL

(***************************************************************************)
(* TypeOK: records, requests and the walk stay in their domains.           *)
(***************************************************************************)
THEOREM AgentTypeCorrect == Spec => []TypeOK
<1>1. IInv => TypeOK
  <2> SUFFICES ASSUME IInv PROVE TypeOK
    OBVIOUS
  <2>1. DOMAIN records \subseteq ({"folder"} \X Mailboxes) \cup ({"message", "state"} \X Fingerprints)
    BY DEF IInv, SpaceOK, Addresses
  <2>2. ASSUME NEW fp \in States PROVE State(fp) \in StateType
    <3>1. fp \in Fingerprints /\ Has(records, "state", fp) /\ PairOK(records, blobs, fp)
      BY <2>2, Listed DEF StatesIn, IInv, SpaceOK
    <3> QED
      BY <3>1 DEF PairOK, State, Value, StateIn
  <2>3. \A fp \in States : State(fp).mailbox \in Mailboxes /\ State(fp).keywords \subseteq Keywords
                         /\ State(fp).revision \in Nat \ {0} /\ State(fp).tombstone \in BOOLEAN
    BY <2>2 DEF StateType
  <2>4. blobs \subseteq Bodies /\ applied \in [Ops -> Nat]
    BY DEF IInv, SpaceOK, CountOK
  <2>5. ASSUME NEW r \in Requests
        PROVE  /\ job[r].kind \in {"none", "capture", "mirror", "change"}
               /\ job[r].todo \subseteq Fingerprints
               /\ job[r].kind \in {"capture", "mirror"} => job[r].fp \in Fingerprints
    <3>1. job[r] \in JobType /\ InputOK(job[r])
      BY DEF IInv, JobOK
    <3> QED
      BY <3>1 DEF JobType, InputOK
  <2>6. walk.offset \in Nat /\ walk.folders \subseteq Mailboxes /\ walk.seen \subseteq Fingerprints
    BY DEF IInv, WalkOK, WalkType
  <2> QED
    BY <2>1, <2>3, <2>4, <2>5, <2>6 DEF TypeOK
<1> QED
  BY <1>1, AgentInvariant, PTL

-----------------------------------------------------------------------------
(* The mailbox as VersionedStore sees it.                                   *)

Entry(R, fp) == [revision |-> StateIn(R, fp).revision, live |-> ~StateIn(R, fp).tombstone]
HeldIn(R) == [fp \in StatesIn(R) |-> Entry(R, fp)]

\* What a step does to the records
LEMMA RecordsStep ==
    ASSUME IInv, [Next]_vars
    PROVE  \/ records' = records
           \/ \E mailbox \in Mailboxes : FolderIn(mailbox, records, records')
           \/ \E r \in Requests : ApplyBatch(r) /\ StoredIn(job[r], records, records')
           \/ \E r \in Requests : PutState(r) /\ ChangedIn(job[r], records, records')
<1>1. CASE UNCHANGED vars
  BY <1>1 DEF vars
<1>2. CASE Walk \/ WalkFail
  BY <1>2 DEF Walk, WalkBegin, WalkFolders, WalkPage, WalkFail
<1>3. ASSUME NEW r \in Requests, Begin(r) \/ Fail(r) PROVE records' = records
  BY <1>3 DEF Begin, BeginCapture, BeginMirror, BeginChange, Fail, ReadOnly
<1>4. ASSUME NEW r \in Requests, CreateFolder(r)
      PROVE  records' = records \/ \E mailbox \in Mailboxes : FolderIn(mailbox, records, records')
  <2>1. /\ JobOK(job[r], records, blobs, applied) /\ job[r].pc = "newFolder"
        /\ ApplyWrites(<<Create("folder", job[r].mailbox, [name |-> job[r].mailbox])>>)
    BY <1>4 DEF IInv, CreateFolder
  <2>2. job[r].mailbox \in Mailboxes
    BY <2>1 DEF JobOK, InputOK, Ended
  <2> QED
    BY <2>1, <2>2, FolderWritten
<1>5. ASSUME NEW r \in Requests, Step(r), ~CreateFolder(r), ~ApplyBatch(r), ~PutState(r)
      PROVE  records' = records
  <2>1. Upload(r) => records' = records
    BY DEF Upload, UploadBlob
  <2>2. \/ GetFolder(r) \/ GetMessage(r) \/ GetOrphan(r) \/ ListVersions(r) \/ GetPrior(r)
        \/ PriorKnown(r) \/ ListSource(r) \/ CheckVersion(r) \/ SingleLive(r) \/ Reconcile(r)
        \/ Verify(r) \/ ReplaceMessage(r) \/ ReadState(r) \/ Destination(r) \/ Upload(r)
    BY <1>5 DEF Step
  <2>3. ~Upload(r) => ReadOnly
    BY <2>2 DEF GetFolder, GetMessage, GetOrphan, ListVersions, GetPrior, PriorKnown, ListSource,
                CheckVersion, SingleLive, Reconcile, Verify, ReplaceMessage, ReadState, Destination
  <2> QED
    BY <2>1, <2>3 DEF ReadOnly
<1>6. ASSUME NEW r \in Requests, ApplyBatch(r)
      PROVE  records' = records \/ StoredIn(job[r], records, records')
  BY <1>6, BatchSpace
<1>7. ASSUME NEW r \in Requests, PutState(r)
      PROVE  records' = records \/ ChangedIn(job[r], records, records')
  BY <1>7, PutSpace
<1> QED
  BY <1>1, <1>2, <1>3, <1>4, <1>5, <1>6, <1>7 DEF Next

\* The version a capture puts to rest, if it found one
Superseded(j) == {p.fp : p \in j.prior}

\* A stored pair, seen from outside
LEMMA StoredHeld ==
    ASSUME NEW R, NEW N, NEW B, NEW A, SpaceOK(R, B, A), NEW j, JobOK(j, R, B, A),
           j.pc = "apply", StoredIn(j, R, N), NEW old, old = Superseded(j)
    PROVE  /\ j.fp \in Fingerprints /\ j.fp \notin StatesIn(R) /\ j.fp \in StatesIn(N)
           /\ old = {} \/ \E fp \in StatesIn(R) : old = {fp}
           /\ \A fp \in old : /\ fp \in StatesIn(R) /\ Entry(R, fp).live /\ fp[1] = j.fp[1]
                              /\ Entry(N, fp) = [revision |-> Entry(R, fp).revision + 1, live |-> FALSE]
           /\ StatesIn(N) = StatesIn(R) \cup {j.fp}
           /\ Entry(N, j.fp) = [revision |-> 1, live |-> TRUE]
           /\ \A fp \in StatesIn(R) \ old : Entry(N, fp) = Entry(R, fp)
<1>1. /\ j.fp \in Fingerprints /\ j.mailbox \in Mailboxes /\ j.keywords \in SUBSET Keywords
      /\ j.prior \in SUBSET PriorType /\ PriorOK(j, R)
  BY DEF JobOK, InputOK, JobType, Storing, Ended
<1>2. j.fp \notin StatesIn(R) /\ j.fp \in StatesIn(N) /\ StatesIn(N) = StatesIn(R) \cup {j.fp}
  BY <1>1 DEF StoredIn, StatesIn, Has
<1>3. Entry(N, j.fp) = [revision |-> 1, live |-> TRUE]
  <2>1. StateIn(N, j.fp) = NewState(j.mailbox, j.keywords)
    BY DEF StoredIn
  <2>2. /\ NewState(j.mailbox, j.keywords).revision = 1
        /\ NewState(j.mailbox, j.keywords).tombstone = FALSE
    BY DEF NewState
  <2> QED
    BY <2>1, <2>2 DEF Entry
<1>4. ASSUME NEW p \in j.prior
      PROVE  /\ p.fp \in StatesIn(R) /\ Entry(R, p.fp).live /\ p.fp[1] = j.fp[1]
             /\ Entry(N, p.fp) = [revision |-> Entry(R, p.fp).revision + 1, live |-> FALSE]
  <2>1. /\ p.fp \in Fingerprints /\ p.state \in StateType /\ Has(R, "state", p.fp)
        /\ StateIn(R, p.fp) = p.state /\ StateIn(N, p.fp) = Buried(p.state, j.fp)
        /\ ~p.state.tombstone /\ p.fp[1] = j.fp[1]
    BY <1>1 DEF StoredIn, PriorOK, PriorType
  <2>2. /\ Buried(p.state, j.fp).revision = p.state.revision + 1
        /\ Buried(p.state, j.fp).tombstone = TRUE
    BY <1>1, <2>1, BuriedFields
  <2> QED
    BY <2>1, <2>2 DEF Entry, StatesIn
<1>5. old = {} \/ \E fp \in StatesIn(R) : old = {fp}
  <2>1. CASE j.prior = {}
    BY <2>1 DEF Superseded
  <2>2. CASE j.prior # {}
    <3>1. PICK p \in j.prior : \A q \in j.prior : q = p
      BY <1>1, <2>2 DEF PriorOK
    <3>2. old = {p.fp}
      BY <3>1 DEF Superseded
    <3> QED
      BY <1>4, <3>1, <3>2
  <2> QED
    BY <2>1, <2>2
<1>6. ASSUME NEW fp \in StatesIn(R) \ old PROVE Entry(N, fp) = Entry(R, fp)
  <2>1. <<"state", fp>> \in DOMAIN R /\ \A p \in j.prior : <<"state", fp>> # <<"state", p.fp>>
    BY <1>6 DEF StatesIn, Has, Superseded
  <2>2. N[<<"state", fp>>] = R[<<"state", fp>>]
    BY <2>1 DEF StoredIn
  <2> QED
    BY <2>2 DEF Entry, StateIn
<1> QED
  BY <1>1, <1>2, <1>3, <1>4, <1>5, <1>6 DEF Superseded

\* A written change, seen from outside
LEMMA ChangedHeld ==
    ASSUME NEW R, NEW N, NEW B, NEW A, SpaceOK(R, B, A), NEW j, JobOK(j, R, B, A),
           j.pc = "put", ChangedIn(j, R, N)
    PROVE  /\ j.mut.fp \in StatesIn(R) /\ Entry(R, j.mut.fp).live
           /\ StatesIn(N) = StatesIn(R)
           /\ \E live \in BOOLEAN :
                Entry(N, j.mut.fp) = [revision |-> Entry(R, j.mut.fp).revision + 1, live |-> live]
           /\ \A fp \in StatesIn(R) \ {j.mut.fp} : Entry(N, fp) = Entry(R, fp)
<1>1. /\ j.mut \in MutationType(Ops \cup AgentOps) /\ j.seen \in StateType /\ ~j.seen.tombstone
      /\ j.mut.fp \in Fingerprints
  BY DEF JobOK, ChangeOK, Changing, MutationType
<1>2. /\ Has(R, "state", j.mut.fp) /\ StateIn(R, j.mut.fp) = j.seen /\ DOMAIN N = DOMAIN R
      /\ StateIn(N, j.mut.fp) = NextState(j.seen, j.mut)
  BY DEF ChangedIn
<1>3. NextState(j.seen, j.mut).revision = j.seen.revision + 1
  BY <1>1, NextStateFields
<1>4. j.mut.fp \in StatesIn(R) /\ Entry(R, j.mut.fp).live /\ StatesIn(N) = StatesIn(R)
  BY <1>1, <1>2 DEF Entry, StatesIn, Has
<1>5. Entry(N, j.mut.fp) = [revision |-> Entry(R, j.mut.fp).revision + 1,
                            live |-> ~StateIn(N, j.mut.fp).tombstone]
  BY <1>2, <1>3 DEF Entry
<1>6. ASSUME NEW fp \in StatesIn(R) \ {j.mut.fp} PROVE Entry(N, fp) = Entry(R, fp)
  <2>1. <<"state", fp>> \in DOMAIN R /\ <<"state", fp>> # <<"state", j.mut.fp>>
    BY <1>6 DEF StatesIn, Has
  <2>2. N[<<"state", fp>>] = R[<<"state", fp>>]
    BY <2>1 DEF ChangedIn
  <2> QED
    BY <2>2 DEF Entry, StateIn
<1> QED
  BY <1>4, <1>5, <1>6

\* Held is read from the records
LEMMA HeldIs ==
    ASSUME SpaceOK(records, blobs, applied) PROVE Held = HeldIn(records)
<1>1. Messages = StatesIn(records)
  BY Listed
<1>2. \A fp : [revision |-> State(fp).revision, live |-> ~State(fp).tombstone] = Entry(records, fp)
  BY DEF State, Value, Entry, StateIn
<1> QED
  BY <1>1, <1>2, Zenon DEF Held, HeldIn

\* A new folder is not seen
LEMMA FolderHeld ==
    ASSUME NEW R, NEW N, NEW mailbox, FolderIn(mailbox, R, N)
    PROVE  /\ StatesIn(N) = StatesIn(R) /\ \A fp \in StatesIn(R) : Entry(N, fp) = Entry(R, fp)
<1>1. StatesIn(N) = StatesIn(R)
  BY DEF FolderIn, StatesIn, Has
<1>2. \A fp \in StatesIn(R) : StateIn(N, fp) = StateIn(R, fp)
  BY DEF FolderIn, StatesIn, Has, StateIn
<1> QED
  BY <1>1, <1>2 DEF Entry

(***************************************************************************)
(* ImplementsVersionedStore: a batch that succeeds is a Store, a written   *)
(* state is a Change, and nothing else a request, the viewer or a walk     *)
(* does can be seen.                                                       *)
(***************************************************************************)
THEOREM AgentImplementsVersionedStore == Spec => ImplementsVersionedStore
<1>1. Init => Promise!Init
  <2> SUFFICES ASSUME Init PROVE Promise!Init
    OBVIOUS
  <2>1. DOMAIN records = {}
    BY DEF Init, EmptySpace
  <2>2. Messages = {}
    BY <2>1 DEF Messages, ListRecords
  <2>3. DOMAIN Held = {}
    BY <2>2 DEF Held
  <2> QED
    BY <2>3 DEF Promise!Init
<1>2. IInv /\ IInv' /\ [Next]_vars => [Promise!Next]_Held
  <2> SUFFICES ASSUME IInv, IInv', [Next]_vars PROVE Promise!Next \/ Held' = Held
    OBVIOUS
  <2>1. Held = HeldIn(records) /\ Held' = HeldIn(records')
    <3>1. Held = HeldIn(records)
      BY HeldIs DEF IInv
    <3>2. SpaceOK(records, blobs, applied)'
      BY DEF IInv
    <3>3. (Held = HeldIn(records))'
      BY <3>2, HeldIs, PTL
    <3> QED
      BY <3>1, <3>3
  <2>2. CASE records' = records
    BY <2>1, <2>2
  <2>3. CASE \E mailbox \in Mailboxes : FolderIn(mailbox, records, records')
    <3>1. StatesIn(records') = StatesIn(records)
          /\ \A fp \in StatesIn(records) : Entry(records', fp) = Entry(records, fp)
      BY <2>3, FolderHeld
    <3> QED
      BY <2>1, <3>1 DEF HeldIn
  <2>4. ASSUME NEW r \in Requests, ApplyBatch(r), StoredIn(job[r], records, records')
        PROVE  Promise!Next
    <3>1. PICK old : old = Superseded(job[r])
      OBVIOUS
    <3>2. PICK new : new = job[r].fp
      OBVIOUS
    <3>3. /\ new \in Fingerprints /\ new \notin StatesIn(records) /\ new \in StatesIn(records')
          /\ old = {} \/ \E fp \in StatesIn(records) : old = {fp}
          /\ \A fp \in old :
                /\ fp \in StatesIn(records) /\ Entry(records, fp).live /\ fp[1] = new[1]
                /\ Entry(records', fp) = [revision |-> Entry(records, fp).revision + 1, live |-> FALSE]
          /\ StatesIn(records') = StatesIn(records) \cup {new}
          /\ Entry(records', new) = [revision |-> 1, live |-> TRUE]
          /\ \A fp \in StatesIn(records) \ old : Entry(records', fp) = Entry(records, fp)
      <4>1. SpaceOK(records, blobs, applied) /\ JobOK(job[r], records, blobs, applied)
            /\ job[r].pc = "apply"
        BY <2>4 DEF IInv, ApplyBatch
      <4>2. PICK j, N : j = job[r] /\ N = records'
        OBVIOUS
      <4>3. /\ SpaceOK(records, blobs, applied) /\ JobOK(j, records, blobs, applied)
            /\ j.pc = "apply" /\ StoredIn(j, records, N) /\ old = Superseded(j)
        BY <2>4, <3>1, <4>1, <4>2
      <4>4. /\ j.fp \in Fingerprints /\ j.fp \notin StatesIn(records) /\ j.fp \in StatesIn(N)
            /\ old = {} \/ \E fp \in StatesIn(records) : old = {fp}
            /\ \A fp \in old :
                /\ fp \in StatesIn(records) /\ Entry(records, fp).live /\ fp[1] = j.fp[1]
                /\ Entry(N, fp) = [revision |-> Entry(records, fp).revision + 1, live |-> FALSE]
            /\ StatesIn(N) = StatesIn(records) \cup {j.fp}
            /\ Entry(N, j.fp) = [revision |-> 1, live |-> TRUE]
            /\ \A fp \in StatesIn(records) \ old : Entry(N, fp) = Entry(records, fp)
        BY <4>3, StoredHeld
      <4> QED
        BY <3>2, <4>2, <4>4
    <3>4. /\ DOMAIN HeldIn(records) = StatesIn(records) /\ DOMAIN HeldIn(records') = StatesIn(records')
          /\ \A fp \in StatesIn(records) : HeldIn(records)[fp] = Entry(records, fp)
      BY DEF HeldIn
    <3>5. HeldIn(records') =
            [fp \in DOMAIN HeldIn(records) \cup {new} |->
                IF fp = new THEN [revision |-> 1, live |-> TRUE]
                ELSE IF fp \in old
                    THEN [revision |-> HeldIn(records)[fp].revision + 1, live |-> FALSE]
                    ELSE HeldIn(records)[fp]]
      <4>1. \A fp \in StatesIn(records') : Entry(records', fp) =
                IF fp = new THEN [revision |-> 1, live |-> TRUE]
                ELSE IF fp \in old
                    THEN [revision |-> HeldIn(records)[fp].revision + 1, live |-> FALSE]
                    ELSE HeldIn(records)[fp]
        BY <3>3, <3>4
      <4>2. StatesIn(records') = DOMAIN HeldIn(records) \cup {new}
        BY <3>3, <3>4
      <4>3. HeldIn(records') = [fp \in StatesIn(records') |-> Entry(records', fp)]
        BY DEF HeldIn
      <4> HIDE DEF HeldIn
      <4> QED
        BY <4>1, <4>2, <4>3
    <3>6. Promise!Store(new, old)
      BY <2>1, <3>3, <3>4, <3>5 DEF Promise!Store, Promise!Bury, SourceOf
    <3>7. new \in DOMAIN Held' /\ old \in {{}} \cup {{fp} : fp \in DOMAIN Held}
      BY <2>1, <3>3, <3>4
    <3> QED
      BY <3>6, <3>7 DEF Promise!Next
  <2>5. ASSUME NEW r \in Requests, PutState(r), ChangedIn(job[r], records, records')
        PROVE  Promise!Next
    <3>1. PICK fp : fp = job[r].mut.fp
      OBVIOUS
    <3>2. /\ fp \in StatesIn(records) /\ Entry(records, fp).live
          /\ StatesIn(records') = StatesIn(records)
          /\ \E live \in BOOLEAN :
                Entry(records', fp) = [revision |-> Entry(records, fp).revision + 1, live |-> live]
          /\ \A g \in StatesIn(records) \ {fp} : Entry(records', g) = Entry(records, g)
      <4>1. SpaceOK(records, blobs, applied) /\ JobOK(job[r], records, blobs, applied)
            /\ job[r].pc = "put"
        BY <2>5 DEF IInv, PutState
      <4>2. PICK j, N : j = job[r] /\ N = records'
        OBVIOUS
      <4>3. /\ SpaceOK(records, blobs, applied) /\ JobOK(j, records, blobs, applied)
            /\ j.pc = "put" /\ ChangedIn(j, records, N)
        BY <2>5, <4>1, <4>2
      <4>4. /\ j.mut.fp \in StatesIn(records) /\ Entry(records, j.mut.fp).live
            /\ StatesIn(N) = StatesIn(records)
            /\ \E live \in BOOLEAN :
                Entry(N, j.mut.fp) = [revision |-> Entry(records, j.mut.fp).revision + 1, live |-> live]
            /\ \A g \in StatesIn(records) \ {j.mut.fp} : Entry(N, g) = Entry(records, g)
        BY <4>3, ChangedHeld
      <4> QED
        BY <3>1, <4>2, <4>4
    <3>3. PICK live \in BOOLEAN :
            Entry(records', fp) = [revision |-> Entry(records, fp).revision + 1, live |-> live]
      BY <3>2
    <3>4. HeldIn(records') = [HeldIn(records) EXCEPT
                                ![fp] = [revision |-> @.revision + 1, live |-> live]]
      BY <3>2, <3>3 DEF HeldIn
    <3>5. fp \in DOMAIN Held /\ Held[fp].live
      BY <2>1, <3>2 DEF HeldIn
    <3>6. Promise!Change(fp)
      BY <2>1, <3>4, <3>5 DEF Promise!Change
    <3> QED
      BY <3>5, <3>6 DEF Promise!Next
  <2> QED
    BY <2>2, <2>3, <2>4, <2>5, RecordsStep
<1>3. Spec => []IInv
  BY AgentInvariant
<1> QED
  BY <1>1, <1>2, <1>3, PTL DEF Spec, ImplementsVersionedStore, Promise!Spec

LiveIn(R, key) == {fp \in StatesIn(R) : fp[1] = key /\ Entry(R, fp).live}

\* The live versions of a source are read from the records
LEMMA LiveIs ==
    ASSUME SpaceOK(records, blobs, applied)
    PROVE  \A key \in SourceKeys : Live(key) = LiveIn(records, key)
<1> SUFFICES ASSUME NEW key \in SourceKeys PROVE Live(key) = LiveIn(records, key)
  OBVIOUS
<1>1. Messages = StatesIn(records)
  BY Listed
<1>2. ASSUME NEW fp \in StatesIn(records)
      PROVE  /\ Value("message", fp).key = fp[1] /\ Exists("state", fp)
             /\ Entry(records, fp).live = ~State(fp).tombstone
  <2>1. fp \in Fingerprints /\ Has(records, "state", fp) /\ PairOK(records, blobs, fp)
    BY DEF StatesIn, SpaceOK
  <2>2. Value("message", fp) = Message(fp)
    BY <2>1 DEF PairOK, Value
  <2>3. Message(fp).key = fp[1]
    BY DEF Message
  <2> QED
    BY <2>1, <2>2, <2>3 DEF Exists, Has, Entry, StateIn, State, Value
<1> QED
  BY <1>1, <1>2 DEF Live, OfSource, LiveIn

\* Putting one member to rest for a new one leaves as many
LEMMA ReplaceOne ==
    ASSUME NEW S, IsFiniteSet(S), NEW x \in S, NEW y, y \notin S
    PROVE  Cardinality((S \ {x}) \cup {y}) = Cardinality(S)
<1>1. IsFiniteSet(S \ {x}) /\ Cardinality(S \ {x}) = Cardinality(S) - 1
  BY FS_RemoveElement
<1>2. Cardinality((S \ {x}) \cup {y}) = Cardinality(S \ {x}) + 1
  BY <1>1, FS_AddElement
<1>3. Cardinality(S) \in Nat
  BY FS_CardinalityType
<1> QED
  BY <1>1, <1>2, <1>3

\* A batch with a prior version leaves as many live versions of every source
LEMMA StoredLive ==
    ASSUME NEW R, NEW N, NEW B, NEW A, SpaceOK(R, B, A), NEW j, JobOK(j, R, B, A),
           j.pc = "apply", StoredIn(j, R, N), j.prior # {}, NEW key
    PROVE  Cardinality(LiveIn(N, key)) = Cardinality(LiveIn(R, key))
<1>1. PICK old : old = Superseded(j)
  OBVIOUS
<1>2. /\ j.fp \in Fingerprints /\ j.fp \notin StatesIn(R) /\ j.fp \in StatesIn(N)
      /\ old = {} \/ \E fp \in StatesIn(R) : old = {fp}
      /\ \A fp \in old : /\ fp \in StatesIn(R) /\ Entry(R, fp).live /\ fp[1] = j.fp[1]
                         /\ Entry(N, fp) = [revision |-> Entry(R, fp).revision + 1, live |-> FALSE]
      /\ StatesIn(N) = StatesIn(R) \cup {j.fp}
      /\ Entry(N, j.fp) = [revision |-> 1, live |-> TRUE]
      /\ \A fp \in StatesIn(R) \ old : Entry(N, fp) = Entry(R, fp)
  <2>1. SpaceOK(R, B, A) /\ JobOK(j, R, B, A) /\ j.pc = "apply" /\ StoredIn(j, R, N)
    OBVIOUS
  <2> QED
    BY ONLY <1>1, <2>1, StoredHeld
<1>3. old # {}
  BY <1>1 DEF Superseded
<1>4. PICK x \in StatesIn(R) : old = {x}
  BY <1>2, <1>3
<1>5. /\ Entry(R, x).live /\ x[1] = j.fp[1] /\ Entry(N, x).live = FALSE
      /\ Entry(N, j.fp).live = TRUE /\ j.fp # x
  <2>1. x \in old
    BY <1>4
  <2>2. /\ Entry(R, x).live /\ x[1] = j.fp[1]
        /\ Entry(N, x) = [revision |-> Entry(R, x).revision + 1, live |-> FALSE]
    BY <1>2, <2>1
  <2> QED
    BY <1>2, <1>4, <2>2
<1>6. CASE key = j.fp[1]
  <2>1. x \in LiveIn(R, key) /\ j.fp \notin LiveIn(R, key)
    BY <1>2, <1>5, <1>6 DEF LiveIn
  <2>2. LiveIn(N, key) = (LiveIn(R, key) \ {x}) \cup {j.fp}
    BY <1>2, <1>4, <1>5, <1>6 DEF LiveIn
  <2>3. IsFiniteSet(LiveIn(R, key))
    BY StatesFinite, FS_Subset DEF SpaceOK, LiveIn
  <2> QED
    BY <2>1, <2>2, <2>3, ReplaceOne
<1>7. CASE key # j.fp[1]
  <2>1. LiveIn(N, key) = LiveIn(R, key)
    BY <1>2, <1>4, <1>5, <1>7 DEF LiveIn
  <2> QED
    BY <2>1
<1> QED
  BY <1>6, <1>7

(***************************************************************************)
(* EditKeepsOneLive: the batch of a capture that found a live version      *)
(* leaves no more live versions of any source than there were, also when   *)
(* two edits of a draft, or an edit and a deletion, race.                  *)
(***************************************************************************)
THEOREM EditsKeepOneLive == Spec => EditKeepsOneLive
<1> DEFINE Kept == \A r \in Requests :
                job[r].pc = "apply" /\ job'[r].pc # "apply" /\ job[r].prior # {} =>
                    \A k \in SourceKeys : Cardinality(Live(k)') <= Cardinality(Live(k))
<1>1. IInv /\ IInv' /\ [Next]_vars => Kept
  <2> SUFFICES ASSUME IInv, IInv', [Next]_vars, NEW r \in Requests,
                      job[r].pc = "apply", job'[r].pc # "apply", job[r].prior # {},
                      NEW k \in SourceKeys
               PROVE  Cardinality(Live(k)') <= Cardinality(Live(k))
    OBVIOUS
  <2>1. Live(k) = LiveIn(records, k) /\ Live(k)' = LiveIn(records', k)
    <3>1. Live(k) = LiveIn(records, k)
      BY LiveIs DEF IInv
    <3>2. SpaceOK(records, blobs, applied)'
      BY DEF IInv
    <3>3. (\A key \in SourceKeys : Live(key) = LiveIn(records, key))'
      BY <3>2, LiveIs, PTL
    <3> QED
      BY <3>1, <3>3
  <2>2. Cardinality(LiveIn(records, k)) \in Nat
    BY StatesFinite, FS_Subset, FS_CardinalityType DEF IInv, SpaceOK, LiveIn
  <2>3. SUFFICES Cardinality(LiveIn(records', k)) = Cardinality(LiveIn(records, k))
    BY <2>1, <2>2
  <2>4. CASE records' = records
    BY <2>4
  <2>5. CASE \E mailbox \in Mailboxes : FolderIn(mailbox, records, records')
    <3>1. StatesIn(records') = StatesIn(records)
          /\ \A fp \in StatesIn(records) : Entry(records', fp) = Entry(records, fp)
      BY <2>5, FolderHeld
    <3>2. LiveIn(records', k) = LiveIn(records, k)
      BY <3>1 DEF LiveIn
    <3> QED
      BY <3>2
  <2>6. ASSUME NEW q \in Requests, ApplyBatch(q), StoredIn(job[q], records, records')
        PROVE  Cardinality(LiveIn(records', k)) = Cardinality(LiveIn(records, k))
    <3>1. q = r
      <4>1. q # r => job'[r] = job[r]
        BY <2>6 DEF ApplyBatch, Goto, Answer, IInv
      <4> QED
        BY <4>1
    <3>2. PICK j, N : j = job[r] /\ N = records'
      OBVIOUS
    <3>3. /\ SpaceOK(records, blobs, applied) /\ JobOK(j, records, blobs, applied)
          /\ j.pc = "apply" /\ StoredIn(j, records, N) /\ j.prior # {}
      BY <2>6, <3>1, <3>2 DEF IInv
    <3>4. Cardinality(LiveIn(N, k)) = Cardinality(LiveIn(records, k))
      BY <3>3, StoredLive
    <3> QED
      BY <3>2, <3>4
  <2>7. ASSUME NEW q \in Requests, PutState(q) PROVE FALSE
    <3>1. q # r
      BY <2>7 DEF PutState
    <3>2. job'[r] = job[r]
      BY <2>7, <3>1 DEF PutState, Changed, Refused, Goto, Answer, IInv
    <3> QED
      BY <3>2
  <2> QED
    BY <2>4, <2>5, <2>6, <2>7, RecordsStep
<1>2. IInv /\ IInv' /\ [Next]_vars => [Kept]_vars
  BY <1>1
<1>3. Spec => []IInv
  BY AgentInvariant
<1> QED
  BY <1>2, <1>3, PTL DEF Spec, EditKeepsOneLive

=============================================================================
