--------------------------- MODULE AuthVaultProofs ---------------------------
(***************************************************************************)
(* The vault file behind its two locks is the atomic RecordStore, and what *)
(* one call took no other call takes: for any number of processes, calls   *)
(* and names, with failures, process deaths and power losses anywhere.     *)
(*                                                                         *)
(* The inductive invariant says that whoever may write holds the flock;    *)
(* that what such a call is about to rename over the vault is still the    *)
(* change of the vault's contents, because nobody else could write since   *)
(* it read them; and, for the second result, that the record of a writer   *)
(* is stored at one name at most, appears only after the writer's rename,  *)
(* and is gone for good once a call that took it has been answered.        *)
(***************************************************************************)
EXTENDS AuthVault, TLAPS

\* The calls that have opened the vault under the lock
Holding == {"locked", "loaded", "renamed"}

\* A call that has not yet replaced the vault's contents
Early == {"idle", "called", "mutex", "locked", "loaded"}

WrittenBy(recs, w) == \E n \in Names : recs[n] # None /\ recs[n].by = w

\* One record at most is the work of one call
OneRecordEach(recs) ==
    \A n, m \in Names :
        recs[n] # None /\ recs[m] # None /\ recs[n].by = recs[m].by => n = m

LockHeld == \A c \in Calls : call[c].pc \in Holding => flock = c

OwnOperation ==
    \A c \in Calls : call[c].pc \in Early \ {"idle"} =>
        call[c].op \in Requested /\ call[c].op.by = c

\* What call c is about to write is the change of what is stored
PreparedAt(c, time) ==
    LET result == Change(call[c].op, records, time) IN
    /\ result.write /\ call[c].next = result.records /\ call[c].answer = result.answer
    /\ call[c].took = IF result.answer = "ok" THEN Taken(call[c].op, records) ELSE None

Prepared == \A c \in Calls : call[c].pc = "loaded" => \E time \in 0 .. now : PreparedAt(c, time)

\* A call that has replaced the contents knows its answer
Decided == \A c \in Calls : call[c].pc = "renamed" => call[c].answer \in Answers

RecordsOnce == OneRecordEach(records) /\ OneRecordEach(safe)

NotYetWritten ==
    \A w \in Calls : call[w].pc \in Early => ~WrittenBy(records, w) /\ ~WrittenBy(safe, w)

\* Call c acted on the record of w and has replaced the vault's contents
Has(c, w) == call[c].pc \in {"renamed", "ok"} /\ call[c].took = w

TakenAway ==
    \A c, w \in Calls : Has(c, w) =>
        /\ ~WrittenBy(records, w) /\ call[w].pc \notin Early
        /\ call[c].pc = "ok" => ~WrittenBy(safe, w)
        /\ \A e \in Calls : Has(e, w) => e = c

IInv ==
    /\ TypeOK /\ LockHeld /\ OwnOperation /\ Prepared /\ Decided
    /\ RecordsOnce /\ NotYetWritten /\ TakenAway

-----------------------------------------------------------------------------
(* What one operation does to the contents.                                 *)

\* pruneExpired keeps a record as it is or drops it
LEMMA PrunedShape ==
    ASSUME NEW recs \in Contents, NEW time
    PROVE  /\ Pruned(recs, time) \in Contents
           /\ \A n \in Names : Pruned(recs, time)[n] \in {recs[n], None}
  BY DEF Pruned, Contents

(***************************************************************************)
(* An operation leaves each record, drops it, or puts its caller's own     *)
(* record at the name it was asked for; one that acted on a record took it *)
(* from that name.                                                         *)
(***************************************************************************)
LEMMA ChangeShape ==
    ASSUME NEW op \in Requested, NEW recs \in Contents, NEW time
    PROVE  /\ Change(op, recs, time).answer \in Answers
           /\ Change(op, recs, time).write \in BOOLEAN
           /\ Change(op, recs, time).records \in Contents
           /\ \A n \in Names :
                \/ Change(op, recs, time).records[n] \in {recs[n], None}
                \/ n = op.name /\ Change(op, recs, time).records[n].by = op.by
           /\ Change(op, recs, time).write /\ Change(op, recs, time).answer = "ok" =>
                \/ Change(op, recs, time).records[op.name] = None
                \/ Change(op, recs, time).records[op.name].by = op.by
<1> DEFINE pruned == Pruned(recs, time)
<1>1. pruned \in Contents /\ \A n \in Names : pruned[n] \in {recs[n], None}
  BY PrunedShape
<1>2. op \in Operation /\ op.name \in Names /\ op.kind \in Kinds
  BY DEF Requested, Operation
<1> HIDE DEF pruned
<1> DEFINE new == [value |-> op.value, expires |-> op.expires, by |-> op.by]
<1>3. new \in Stored /\ new.by = op.by
  BY <1>2 DEF Stored, Operation
<1> HIDE DEF new
<1> DEFINE Fits(result) ==
        /\ result.answer \in Answers /\ result.write \in BOOLEAN /\ result.records \in Contents
        /\ \A n \in Names : \/ result.records[n] \in {recs[n], None}
                            \/ n = op.name /\ result.records[n].by = op.by
        /\ result.write /\ result.answer = "ok" =>
             result.records[op.name] = None \/ result.records[op.name].by = op.by
<1>4. ASSUME NEW answer \in Answers, NEW base \in {recs, pruned}
      PROVE  Fits(Kept(answer, base)) /\ (answer # "ok" => Fits(Written(answer, base)))
  BY <1>1, <1>4 DEF Kept, Written
<1>5. ASSUME NEW base \in {recs, pruned}
      PROVE  Fits(Replaced(base, op)) /\ Fits(Removed(base, op))
  <2>1. base \in Contents /\ \A n \in Names : base[n] \in {recs[n], None}
    BY <1>1
  <2>2. Fits(Replaced(base, op))
    <3> DEFINE after == [base EXCEPT ![op.name] = new]
    <3>1. after \in Contents /\ after[op.name] = new
          /\ \A n \in Names : n # op.name => after[n] = base[n]
      BY <1>2, <1>3, <2>1 DEF Contents
    <3>2. Replaced(base, op) = [answer |-> "ok", write |-> TRUE, records |-> after]
      BY DEF Replaced, Written, new
    <3> HIDE DEF after
    <3> QED
      BY <1>2, <1>3, <2>1, <3>1, <3>2 DEF Answers
  <2>3. Fits(Removed(base, op))
    <3> DEFINE after == [base EXCEPT ![op.name] = None]
    <3>1. after \in Contents /\ after[op.name] = None
          /\ \A n \in Names : n # op.name => after[n] = base[n]
      BY <1>2, <2>1 DEF Contents
    <3>2. Removed(base, op) = [answer |-> "ok", write |-> TRUE, records |-> after]
      BY DEF Removed, Written
    <3> HIDE DEF after
    <3> QED
      BY <1>2, <2>1, <3>1, <3>2 DEF Answers
  <2> QED
    BY <2>2, <2>3
<1>6. "ok" \in Answers /\ "exists" \in Answers /\ "full" \in Answers /\ "stale" \in Answers
      /\ "missing" \in Answers
  BY DEF Answers
<1> HIDE DEF Fits
<1>7. Fits(Change(op, recs, time))
  <2>1. CASE op.kind = "create"
    BY <2>1, <1>4, <1>5, <1>6 DEF Change, CreateRecord, pruned
  <2>2. CASE op.kind = "set"
    BY <2>2, <1>4, <1>5, <1>6 DEF Change, SetRecord, pruned
  <2>3. CASE op.kind = "swap"
    BY <2>3, <1>4, <1>5, <1>6 DEF Change, CompareAndSwapRecord, pruned
  <2>4. CASE op.kind = "compareDelete"
    BY <2>4, <1>4, <1>5, <1>6 DEF Change, CompareAndDeleteRecord, pruned
  <2>5. CASE op.kind = "consume"
    BY <2>5, <1>4, <1>5, <1>6 DEF Change, ConsumeRecord
  <2>6. CASE op.kind = "delete"
    BY <2>6, <1>4, <1>5, <1>6 DEF Change
  <2>7. CASE op.kind = "get"
    BY <2>7, <1>4, <1>5, <1>6 DEF Change, GetRecord
  <2> QED
    BY <1>2, <2>1, <2>2, <2>3, <2>4, <2>5, <2>6, <2>7 DEF Kinds
<1> QED
  BY <1>7 DEF Fits
-----------------------------------------------------------------------------
(* Steps that leave the file alone.                                         *)

\* A call that has answered nothing, or the answer of one that took nothing
LEMMA EndedType ==
    ASSUME NEW answer \in Answers \cup {"idle"}, NEW took \in Calls \cup {None}
    PROVE  /\ [NoCall EXCEPT !.pc = answer, !.took = took] \in CallType
           /\ [NoCall EXCEPT !.pc = answer, !.took = took].pc = answer
           /\ [NoCall EXCEPT !.pc = answer, !.took = took].took = took
  BY DEF NoCall, CallType

\* How a call may move in a step that does not change the vault
Moves(c) ==
    \/ call'[c] = call[c]
    \/ /\ call'[c].pc \notin {"loaded", "renamed"}
       /\ call'[c].pc = "ok" => call'[c].took = None
       /\ call'[c].pc \in Early => call[c].pc \in Early
       /\ call'[c].pc \in Early \ {"idle"} =>
            call'[c].op \in Requested /\ call'[c].op.by = c

\* Such a step preserves the invariant
LEMMA QuietStep ==
    ASSUME IInv, TypeOK', LockHeld', UNCHANGED <<records, safe>>, now <= now',
           \A c \in Calls : Moves(c)
    PROVE  IInv'
<1>1. now \in Nat /\ now' \in Nat /\ 0 .. now \subseteq 0 .. now'
  BY StoreAssumption DEF IInv, TypeOK
<1>2. OwnOperation'
  BY DEF IInv, OwnOperation, Moves
<1>3. Prepared'
  <2> SUFFICES ASSUME NEW c \in Calls, call'[c].pc = "loaded"
               PROVE  \E time \in 0 .. now' : PreparedAt(c, time)'
    BY DEF Prepared
  <2>1. call'[c] = call[c]
    BY DEF Moves
  <2>2. PICK time \in 0 .. now : PreparedAt(c, time)
    BY <2>1 DEF IInv, Prepared
  <2> QED
    BY <1>1, <2>1, <2>2 DEF PreparedAt
<1>4. RecordsOnce'
  BY DEF IInv, RecordsOnce
<1>5. NotYetWritten'
  <2> SUFFICES ASSUME NEW w \in Calls, call'[w].pc \in Early
               PROVE  ~WrittenBy(records, w) /\ ~WrittenBy(safe, w)
    BY DEF NotYetWritten, WrittenBy
  <2>1. call[w].pc \in Early
    BY DEF Moves
  <2> QED
    BY <2>1 DEF IInv, NotYetWritten
<1>6. TakenAway'
  <2>1. ASSUME NEW c \in Calls, NEW w \in Calls, Has(c, w)'
        PROVE  Has(c, w) /\ call'[c].pc = call[c].pc
    BY <2>1, VaultAssumption DEF Moves, Has
  <2> SUFFICES ASSUME NEW c \in Calls, NEW w \in Calls, Has(c, w)'
               PROVE  /\ ~WrittenBy(records, w) /\ call'[w].pc \notin Early
                      /\ call'[c].pc = "ok" => ~WrittenBy(safe, w)
                      /\ \A e \in Calls : Has(e, w)' => e = c
    BY DEF TakenAway, WrittenBy
  <2>2. call'[w].pc \in Early => call[w].pc \in Early
    BY DEF Moves
  <2> QED
    BY <2>1, <2>2 DEF IInv, TakenAway
<1>7. Decided'
  BY DEF IInv, Decided, Moves
<1> QED
  BY <1>2, <1>3, <1>4, <1>5, <1>6, <1>7 DEF IInv

\* Return unlocks what the call holds
LEMMA ReturnOK ==
    ASSUME IInv, NEW c \in Calls, NEW answer \in Answers, NEW took \in Calls \cup {None},
           Return(c, answer, took)
    PROVE  /\ mu' \in [Processes -> Calls \cup {None}] /\ flock' \in Calls \cup {None}
           /\ call' \in [Calls -> CallType] /\ LockHeld'
           /\ call'[c].pc = answer /\ call'[c].took = took
           /\ \A e \in Calls \ {c} : call'[e] = call[e]
<1> DEFINE new == [NoCall EXCEPT !.pc = answer, !.took = took]
<1>1. new \in CallType /\ new.pc = answer /\ new.took = took
  BY EndedType
<1>2. call' = [call EXCEPT ![c] = new]
  BY DEF Return, Set
<1> HIDE DEF new
<1>3. /\ call' \in [Calls -> CallType] /\ call'[c] = new
      /\ \A e \in Calls \ {c} : call'[e] = call[e]
  BY <1>1, <1>2 DEF IInv, TypeOK
<1>4. mu' \in [Processes -> Calls \cup {None}] /\ flock' \in Calls \cup {None}
  BY VaultAssumption DEF Return, IInv, TypeOK
<1>5. LockHeld'
  <2> SUFFICES ASSUME NEW e \in Calls, call'[e].pc \in Holding PROVE flock' = e
    BY DEF LockHeld
  <2>1. e # c
    BY <1>1, <1>3 DEF Holding, Answers
  <2>2. flock = e
    BY <1>3, <2>1 DEF IInv, LockHeld
  <2> QED
    BY <2>1, <2>2 DEF Return
<1> QED
  BY <1>1, <1>3, <1>4, <1>5

\* A new call is early and asks for an operation of its own
LEMMA BeginOK == ASSUME IInv, NEW c \in Calls, Begin(c) PROVE IInv'
<1>1. PICK op \in Requested :
        op.by = c /\ Set(c, [NoCall EXCEPT !.pc = "called", !.op = op])
  BY DEF Begin
<1> DEFINE new == [NoCall EXCEPT !.pc = "called", !.op = op]
<1>2. new \in CallType /\ new.pc = "called" /\ new.op = op
  BY DEF NoCall, CallType, Waiting
<1> HIDE DEF new
<1>3. /\ call' \in [Calls -> CallType] /\ call'[c] = new
      /\ \A e \in Calls \ {c} : call'[e] = call[e]
  BY <1>1, <1>2 DEF new, Set, IInv, TypeOK
<1>4. UNCHANGED <<records, safe, now, mu, flock>> /\ call[c].pc = "idle"
  BY DEF Begin, At, storeVars
<1>5. TypeOK'
  BY <1>3, <1>4 DEF IInv, TypeOK
<1>6. LockHeld'
  BY <1>2, <1>3, <1>4 DEF IInv, LockHeld, Holding
<1>7. Moves(c)
  BY <1>1, <1>2, <1>3, <1>4 DEF Moves, Early
<1>8. now <= now'
  BY <1>4, StoreAssumption DEF IInv, TypeOK
<1> QED
  BY <1>3, <1>4, <1>5, <1>6, <1>7, <1>8, QuietStep DEF Moves

\* What Goto does
LEMMA GotoOK ==
    ASSUME IInv, NEW c \in Calls, NEW label \in Waiting, Goto(c, label)
    PROVE  /\ call' \in [Calls -> CallType]
           /\ call'[c] = [call[c] EXCEPT !.pc = label]
           /\ call'[c].pc = label /\ call'[c].op = call[c].op /\ call'[c].next = call[c].next
           /\ call'[c].answer = call[c].answer /\ call'[c].took = call[c].took
           /\ \A e \in Calls \ {c} : call'[e] = call[e]
<1> DEFINE new == [call[c] EXCEPT !.pc = label]
<1>1. call[c] \in CallType /\ call \in [Calls -> CallType]
  BY DEF IInv, TypeOK
<1>2. /\ new \in CallType /\ new.pc = label /\ new.op = call[c].op /\ new.next = call[c].next
      /\ new.answer = call[c].answer /\ new.took = call[c].took
  BY <1>1 DEF CallType
<1> HIDE DEF new
<1> QED
  BY <1>1, <1>2 DEF new, Goto, Set

\* Both locks are taken without a look at the file
LEMMA TakeMutexOK == ASSUME IInv, NEW c \in Calls, TakeMutex(c) PROVE IInv'
<1>1. UNCHANGED <<records, safe, now, flock>> /\ call[c].pc = "called" /\ Goto(c, "mutex")
  BY DEF TakeMutex, At, storeVars
<1>2. /\ call' \in [Calls -> CallType] /\ call'[c].pc = "mutex" /\ call'[c].op = call[c].op
      /\ \A e \in Calls \ {c} : call'[e] = call[e]
  BY <1>1, GotoOK DEF Waiting
<1>3. TypeOK'
  BY <1>1, <1>2 DEF IInv, TypeOK, TakeMutex
<1>4. LockHeld'
  BY <1>1, <1>2 DEF IInv, LockHeld, Holding
<1>5. Moves(c)
  BY <1>1, <1>2 DEF Moves, Early, IInv, OwnOperation
<1>6. now <= now'
  BY <1>1, StoreAssumption DEF IInv, TypeOK
<1> QED
  BY <1>1, <1>2, <1>3, <1>4, <1>5, <1>6, QuietStep DEF Moves

\* Who takes the lock file finds nobody holding it
LEMMA TakeLockOK == ASSUME IInv, NEW c \in Calls, TakeLock(c) PROVE IInv'
<1>1. /\ UNCHANGED <<records, safe, now, mu>> /\ call[c].pc = "mutex" /\ Goto(c, "locked")
      /\ flock = None /\ flock' = c
  BY DEF TakeLock, At, storeVars
<1>2. /\ call' \in [Calls -> CallType] /\ call'[c].pc = "locked" /\ call'[c].op = call[c].op
      /\ \A e \in Calls \ {c} : call'[e] = call[e]
  BY <1>1, GotoOK DEF Waiting
<1>3. TypeOK'
  BY <1>1, <1>2 DEF IInv, TypeOK
<1>4. LockHeld'
  BY <1>1, <1>2, VaultAssumption DEF IInv, LockHeld, Holding
<1>5. Moves(c)
  BY <1>1, <1>2 DEF Moves, Early, IInv, OwnOperation
<1>6. now <= now'
  BY <1>1, StoreAssumption DEF IInv, TypeOK
<1> QED
  BY <1>1, <1>2, <1>3, <1>4, <1>5, <1>6, QuietStep DEF Moves

\* A call that returns empty-handed from wherever it was
LEMMA ReturnQuietly ==
    ASSUME IInv, NEW c \in Calls, NEW answer \in Answers, Return(c, answer, None),
           UNCHANGED <<records, safe, now>>
    PROVE  IInv'
<1>1. /\ mu' \in [Processes -> Calls \cup {None}] /\ flock' \in Calls \cup {None}
      /\ call' \in [Calls -> CallType] /\ LockHeld'
      /\ call'[c].pc = answer /\ call'[c].took = None
      /\ \A e \in Calls \ {c} : call'[e] = call[e]
  BY ReturnOK
<1>2. TypeOK'
  BY <1>1 DEF IInv, TypeOK
<1>3. Moves(c)
  BY <1>1 DEF Moves, Early, Answers
<1>4. now <= now'
  BY StoreAssumption DEF IInv, TypeOK
<1> QED
  BY <1>1, <1>2, <1>3, <1>4, QuietStep DEF Moves

\* A cancelled context is noticed before the vault is read
LEMMA CancelledOK == ASSUME IInv, NEW c \in Calls, Cancelled(c) PROVE IInv'
  BY ReturnQuietly DEF Cancelled, storeVars, Answers

\* A failure, also one after the rename, takes nothing and unlocks
LEMMA FailOK == ASSUME IInv, NEW c \in Calls, Fail(c) PROVE IInv'
  BY ReturnQuietly DEF Fail, storeVars, Answers
\* Time passes; what was prepared at an earlier time stays prepared
LEMMA AdvanceOK == ASSUME IInv, Advance PROVE IInv'
<1>1. UNCHANGED <<records, safe, mu, flock, call>> /\ now' = now + 1 /\ now < maxTime
  BY DEF Advance, Tick
<1>2. now \in 0 .. maxTime /\ maxTime \in Nat
  BY StoreAssumption DEF IInv, TypeOK
<1>3. TypeOK' /\ now <= now'
  BY <1>1, <1>2 DEF IInv, TypeOK
<1>4. LockHeld'
  BY <1>1 DEF IInv, LockHeld
<1> QED
  BY <1>1, <1>3, <1>4, QuietStep DEF Moves

\* What becomes of the calls of a process that dies
LEMMA DeadOK ==
    ASSUME IInv, NEW died \in SUBSET Calls, call' = Dead(died)
    PROVE  /\ call' \in [Calls -> CallType]
           /\ \A c \in Calls : Moves(c)
           /\ \A c \in Calls : call'[c].pc \in Holding => c \notin died /\ call[c].pc \in Holding
<1>1. /\ [NoCall EXCEPT !.pc = "dead"] \in CallType
      /\ [NoCall EXCEPT !.pc = "dead"].pc = "dead"
  BY DEF NoCall, CallType, Answers
<1>2. ASSUME NEW c \in Calls
      PROVE  \/ call'[c] = [NoCall EXCEPT !.pc = "dead"]
             \/ call'[c] = call[c] /\ (c \in died => call[c].pc \notin Waiting)
  BY DEF Dead
<1>3. call' \in [Calls -> CallType]
  BY <1>1 DEF Dead, IInv, TypeOK
<1>4. \A c \in Calls : Moves(c)
  BY <1>1, <1>2 DEF Moves, Early
<1>5. \A c \in Calls : call'[c].pc \in Holding => c \notin died /\ call[c].pc \in Holding
  BY <1>1, <1>2 DEF Holding, Waiting
<1> QED
  BY <1>3, <1>4, <1>5

\* A process that dies takes its lock with it, and no other call's
LEMMA CrashOK == ASSUME IInv, NEW p \in Processes, Crash(p) PROVE IInv'
<1> DEFINE died == {c \in Calls : ProcessOf[c] = p}
<1>1. /\ call' = Dead(died) /\ UNCHANGED <<records, safe, now>>
      /\ mu' = [mu EXCEPT ![p] = None]
      /\ flock' = IF flock # None /\ ProcessOf[flock] = p THEN None ELSE flock
  BY DEF Crash, storeVars
<1>2. /\ call' \in [Calls -> CallType] /\ \A c \in Calls : Moves(c)
      /\ \A c \in Calls : call'[c].pc \in Holding => c \notin died /\ call[c].pc \in Holding
  BY <1>1, DeadOK
<1>3. TypeOK'
  BY <1>1, <1>2 DEF IInv, TypeOK
<1>4. LockHeld'
  BY <1>1, <1>2 DEF IInv, LockHeld
<1>5. now <= now'
  BY <1>1, StoreAssumption DEF IInv, TypeOK
<1> QED
  BY <1>1, <1>2, <1>3, <1>4, <1>5, QuietStep

-----------------------------------------------------------------------------
(* Reading, replacing and synchronising the file.                           *)

\* The change a call prepares under the lock
LEMMA LoadOK == ASSUME IInv, NEW c \in Calls, Load(c) PROVE IInv'
<1> DEFINE result == Change(call[c].op, records, now)
<1>1. /\ call[c].pc = "locked" /\ UNCHANGED <<records, safe, now>>
      /\ call \in [Calls -> CallType] /\ records \in Contents
      /\ call[c].op \in Requested /\ call[c].op.by = c
  BY DEF Load, At, storeVars, IInv, TypeOK, OwnOperation, Early
<1>2. result.answer \in Answers /\ result.write \in BOOLEAN /\ result.records \in Contents
  BY <1>1, ChangeShape
<1>3. CASE ~result.write
  BY <1>1, <1>2, <1>3, ReturnQuietly DEF Load
<1>4. CASE result.write
  <2> DEFINE took == IF result.answer = "ok" THEN Taken(call[c].op, records) ELSE None
             new == [call[c] EXCEPT !.pc = "loaded", !.next = result.records,
                                    !.answer = result.answer, !.took = took]
  <2>1. UNCHANGED <<mu, flock>> /\ call' = [call EXCEPT ![c] = new]
    BY <1>4 DEF Load, Set
  <2>2. took \in Calls \cup {None}
    BY <1>1 DEF Taken, Contents, Stored, Requested, Operation
  <2> HIDE DEF took
  <2>3. /\ new \in CallType /\ new.pc = "loaded" /\ new.op = call[c].op
        /\ new.next = result.records /\ new.answer = result.answer /\ new.took = took
    <3>1. call[c] \in CallType
      BY <1>1
    <3> HIDE DEF result
    <3> QED
      BY <3>1, <1>2, <2>2 DEF CallType, Waiting
  <2> HIDE DEF new
  <2>4. /\ call' \in [Calls -> CallType] /\ call'[c] = new
        /\ \A e \in Calls \ {c} : call'[e] = call[e]
    BY <1>1, <2>1, <2>3
  <2>5. TypeOK'
    BY <1>1, <2>1, <2>4 DEF IInv, TypeOK
  <2>6. LockHeld'
    BY <1>1, <2>1, <2>3, <2>4 DEF IInv, LockHeld, Holding
  <2>7. OwnOperation'
    BY <1>1, <2>3, <2>4 DEF IInv, OwnOperation, Early
  <2>8. Prepared'
    <3>1. now \in 0 .. now
      BY StoreAssumption DEF IInv, TypeOK
    <3>2. PreparedAt(c, now)'
      BY <1>1, <1>4, <2>3, <2>4 DEF PreparedAt, took
    <3>3. ASSUME NEW e \in Calls \ {c}, call'[e].pc = "loaded" PROVE FALSE
      BY <1>1, <2>4, <3>3 DEF IInv, LockHeld, Holding
    <3> QED
      BY <1>1, <3>1, <3>2, <3>3 DEF Prepared
  <2>9. RecordsOnce' /\ NotYetWritten'
    <3>1. \A w \in Calls : call'[w].pc \in Early => call[w].pc \in Early
      BY <1>1, <2>4 DEF Early
    <3> QED
      BY <1>1, <3>1 DEF IInv, RecordsOnce, NotYetWritten, WrittenBy
  <2>10. TakenAway'
    <3>1. \A e, w \in Calls : Has(e, w)' => e # c /\ Has(e, w) /\ call'[e].pc = call[e].pc
      BY <2>3, <2>4 DEF Has
    <3>2. \A w \in Calls : call'[w].pc \in Early => call[w].pc \in Early
      BY <1>1, <2>4 DEF Early
    <3> QED
      BY <1>1, <3>1, <3>2 DEF IInv, TakenAway, WrittenBy
  <2>11. Decided'
    BY <2>3, <2>4 DEF IInv, Decided
  <2> QED
    BY <2>5, <2>6, <2>7, <2>8, <2>9, <2>10, <2>11 DEF IInv
<1> QED
  BY <1>2, <1>3, <1>4

(***************************************************************************)
(* The file call c renames over the vault: the change of what is stored    *)
(* now, as of some earlier time.                                           *)
(***************************************************************************)
LEMMA RenameShape ==
    ASSUME IInv, NEW c \in Calls, Rename(c)
    PROVE  /\ call[c].op \in Requested /\ call[c].op.by = c
           /\ \E time \in 0 .. now : PreparedAt(c, time)
           /\ call[c].answer \in Answers
           /\ records \in Contents /\ records' \in Contents
           /\ \A n \in Names : records'[n] \in {records[n], None}
                             \/ (n = call[c].op.name /\ records'[n].by = c)
           /\ call[c].took # None =>
                /\ call[c].took \in Calls /\ WrittenBy(records, call[c].took)
                /\ ~WrittenBy(records', call[c].took)
<1> DEFINE op == call[c].op
<1>1. call[c].pc = "loaded" /\ records' = call[c].next
  BY DEF Rename, At
<1>2. op \in Requested /\ op.by = c /\ records \in Contents
  BY <1>1 DEF IInv, OwnOperation, Early, TypeOK
<1>3. PICK time \in 0 .. now : PreparedAt(c, time)
  BY <1>1 DEF IInv, Prepared
<1> DEFINE result == Change(op, records, time)
<1>4. /\ result.write /\ records' = result.records /\ call[c].answer = result.answer
      /\ call[c].took = IF result.answer = "ok" THEN Taken(op, records) ELSE None
  BY <1>1, <1>3 DEF PreparedAt
<1>5. /\ records' \in Contents /\ call[c].answer \in Answers
      /\ \A n \in Names : records'[n] \in {records[n], None} \/ (n = op.name /\ records'[n].by = c)
      /\ result.answer = "ok" => records'[op.name] = None \/ records'[op.name].by = c
  BY <1>2, <1>4, ChangeShape
<1>6. ASSUME call[c].took # None
      PROVE  /\ call[c].took \in Calls /\ WrittenBy(records, call[c].took)
             /\ ~WrittenBy(records', call[c].took)
  <2>1. op.name \in Names
    BY <1>2 DEF Requested, Operation
  <2>2. /\ result.answer = "ok" /\ records[op.name] # None
        /\ call[c].took = records[op.name].by
    BY <1>4, <1>6 DEF Taken
  <2>3. call[c].took \in Calls /\ WrittenBy(records, call[c].took)
    BY <1>2, <2>1, <2>2 DEF WrittenBy, Contents, Stored
  <2>4. call[c].took # c
    BY <1>1, <2>3 DEF IInv, NotYetWritten, Early
  <2>5. OneRecordEach(records)
    BY DEF IInv, RecordsOnce
  <2>6. ASSUME NEW n \in Names, records'[n] # None, records'[n].by = call[c].took PROVE FALSE
    <3>1. n # op.name
      BY <1>5, <2>2, <2>4, <2>6
    <3>2. records'[n] = records[n]
      BY <1>5, <2>6, <3>1
    <3> QED
      BY <2>1, <2>2, <2>5, <2>6, <3>1, <3>2 DEF OneRecordEach
  <2> QED
    BY <2>3, <2>6 DEF WrittenBy
<1> QED
  BY <1>2, <1>3, <1>5, <1>6

\* The rename, with the lock held since the vault was read
LEMMA RenameOK == ASSUME IInv, NEW c \in Calls, Rename(c) PROVE IInv'
<1>1. /\ call[c].pc = "loaded" /\ Goto(c, "renamed") /\ UNCHANGED <<safe, now, mu, flock>>
      /\ flock = c
  BY DEF Rename, At, IInv, LockHeld, Holding
<1>2. /\ call' \in [Calls -> CallType] /\ call'[c].pc = "renamed" /\ call'[c].took = call[c].took
      /\ call'[c].answer = call[c].answer
      /\ \A e \in Calls \ {c} : call'[e] = call[e]
  BY <1>1, GotoOK DEF Waiting
<1>3. /\ records' \in Contents /\ call[c].answer \in Answers
      /\ \A n \in Names : records'[n] \in {records[n], None}
                        \/ (n = call[c].op.name /\ records'[n].by = c)
      /\ call[c].took # None =>
            /\ call[c].took \in Calls /\ WrittenBy(records, call[c].took)
            /\ ~WrittenBy(records', call[c].took)
  BY RenameShape
<1>4. TypeOK'
  BY <1>1, <1>2, <1>3 DEF IInv, TypeOK
<1>5. LockHeld'
  BY <1>1, <1>2 DEF IInv, LockHeld, Holding
<1>6. OwnOperation'
  BY <1>2 DEF IInv, OwnOperation, Early
<1>7. \A e \in Calls \ {c} : call[e].pc \notin Holding
  BY <1>1 DEF IInv, LockHeld
<1>8. Prepared'
  BY <1>2, <1>7 DEF Prepared, Holding
<1>9. \A w \in Calls : WrittenBy(records', w) => w = c \/ WrittenBy(records, w)
  BY <1>3 DEF WrittenBy
<1>10. ~WrittenBy(records, c) /\ ~WrittenBy(safe, c)
  BY <1>1 DEF IInv, NotYetWritten, Early
<1>11. RecordsOnce'
  <2>1. OneRecordEach(records) /\ OneRecordEach(safe)
    BY DEF IInv, RecordsOnce
  <2>2. OneRecordEach(records')
    BY <1>3, <1>10, <2>1 DEF OneRecordEach, WrittenBy
  <2> QED
    BY <1>1, <2>1, <2>2 DEF RecordsOnce, OneRecordEach
<1>12. NotYetWritten'
  <2> SUFFICES ASSUME NEW w \in Calls, call'[w].pc \in Early
               PROVE  ~WrittenBy(records', w) /\ ~WrittenBy(safe, w)
    BY <1>1 DEF NotYetWritten, WrittenBy
  <2>1. w # c /\ call[w].pc \in Early
    BY <1>2 DEF Early
  <2> QED
    BY <1>9, <2>1 DEF IInv, NotYetWritten
<1>13. TakenAway'
  <2> SUFFICES ASSUME NEW e \in Calls, NEW w \in Calls, Has(e, w)'
               PROVE  /\ ~WrittenBy(records', w) /\ call'[w].pc \notin Early
                      /\ call'[e].pc = "ok" => ~WrittenBy(safe, w)
                      /\ \A f \in Calls : Has(f, w)' => f = e
    BY <1>1 DEF TakenAway, WrittenBy
  <2>1. \A f \in Calls \ {c} : Has(f, w)' => Has(f, w)
    BY <1>2 DEF Has
  <2>2. call'[w].pc \in Early => call[w].pc \in Early /\ w # c
    BY <1>2 DEF Early
  <2>3. CASE e = c
    <3>1. w = call[c].took
      BY <1>2, <2>3 DEF Has
    <3>2. WrittenBy(records, w) /\ ~WrittenBy(records', w)
      BY <1>3, <3>1, VaultAssumption
    <3>3. call[w].pc \notin Early
      BY <3>2 DEF IInv, NotYetWritten
    <3>4. \A f \in Calls : ~Has(f, w)
      BY <3>2 DEF IInv, TakenAway
    <3> QED
      BY <1>2, <2>1, <2>2, <2>3, <3>2, <3>3, <3>4
  <2>4. CASE e # c
    <3>1. Has(e, w)
      BY <2>1, <2>4
    <3>2. /\ ~WrittenBy(records, w) /\ call[w].pc \notin Early
          /\ call[e].pc = "ok" => ~WrittenBy(safe, w)
          /\ \A f \in Calls : Has(f, w) => f = e
      BY <3>1 DEF IInv, TakenAway
    <3>3. w # c
      BY <1>1, <3>2 DEF Early
    <3>4. ~Has(c, w)'
      BY <1>2, <1>3, <3>2, VaultAssumption DEF Has
    <3> QED
      BY <1>2, <1>9, <2>1, <2>2, <2>4, <3>2, <3>3, <3>4
  <2> QED
    BY <2>3, <2>4
<1>14. Decided'
  BY <1>2, <1>3 DEF IInv, Decided
<1> QED
  BY <1>4, <1>5, <1>6, <1>8, <1>11, <1>12, <1>13, <1>14 DEF IInv
\* The directory is synchronised and the call is answered
LEMMA SyncOK == ASSUME IInv, NEW c \in Calls, Sync(c) PROVE IInv'
<1> DEFINE answer == call[c].answer
           took == call[c].took
<1>1. /\ call[c].pc = "renamed" /\ safe' = records /\ UNCHANGED <<records, now>>
      /\ Return(c, answer, took)
  BY DEF Sync, At
<1>2. answer \in Answers /\ took \in Calls \cup {None}
  BY <1>1 DEF IInv, TypeOK, CallType, Decided
<1>3. /\ mu' \in [Processes -> Calls \cup {None}] /\ flock' \in Calls \cup {None}
      /\ call' \in [Calls -> CallType] /\ LockHeld'
      /\ call'[c].pc = answer /\ call'[c].took = took
      /\ \A e \in Calls \ {c} : call'[e] = call[e]
  BY <1>1, <1>2, ReturnOK
<1>4. TypeOK'
  BY <1>1, <1>3 DEF IInv, TypeOK
<1>5. answer \notin Early /\ answer \notin {"loaded", "renamed"}
  BY <1>2 DEF Early, Answers
<1>6. OwnOperation'
  BY <1>3, <1>5 DEF IInv, OwnOperation
<1>7. \A e \in Calls : call'[e].pc \notin Holding
  BY <1>1, <1>3, <1>5 DEF IInv, LockHeld, Holding, Early
<1>8. Prepared' /\ Decided'
  BY <1>7 DEF Prepared, Decided, Holding
<1>9. RecordsOnce' /\ NotYetWritten'
  BY <1>1, <1>3, <1>5 DEF IInv, RecordsOnce, NotYetWritten, OneRecordEach, WrittenBy
<1>10. TakenAway'
  <2>1. \A e, w \in Calls : Has(e, w)' => Has(e, w)
    BY <1>1, <1>3 DEF Has
  <2>2. \A w \in Calls : call'[w].pc \in Early => call[w].pc \in Early
    BY <1>3, <1>5
  <2> QED
    BY <1>1, <2>1, <2>2 DEF IInv, TakenAway, WrittenBy
<1> QED
  BY <1>3, <1>4, <1>6, <1>8, <1>9, <1>10 DEF IInv

\* A power loss: whatever was answered had been synchronised
LEMMA PowerLossOK == ASSUME IInv, PowerLoss PROVE IInv'
<1>1. /\ records' \in {records, safe} /\ safe' = records' /\ now' = now
      /\ call' = Dead(Calls) /\ mu' = [p \in Processes |-> None] /\ flock' = None
  BY DEF PowerLoss
<1>2. /\ call' \in [Calls -> CallType] /\ \A c \in Calls : Moves(c)
      /\ \A c \in Calls : call'[c].pc \notin Holding
  BY <1>1, DeadOK
<1>3. TypeOK'
  BY <1>1, <1>2 DEF IInv, TypeOK
<1>4. LockHeld' /\ Prepared' /\ Decided'
  BY <1>2 DEF LockHeld, Prepared, Decided, Holding
<1>5. OwnOperation'
  BY <1>2 DEF IInv, OwnOperation, Moves
<1>6. RecordsOnce'
  BY <1>1 DEF IInv, RecordsOnce
<1>7. \A w \in Calls : call'[w].pc \in Early => call[w].pc \in Early
  BY <1>2 DEF Moves
<1>8. NotYetWritten'
  BY <1>1, <1>7 DEF IInv, NotYetWritten, WrittenBy
<1>9. TakenAway'
  <2>1. \A e, w \in Calls : Has(e, w)' => Has(e, w) /\ call[e].pc = "ok"
    BY <1>2, VaultAssumption DEF Has, Moves, Holding
  <2> QED
    BY <1>1, <1>7, <2>1 DEF IInv, TakenAway, WrittenBy
<1> QED
  BY <1>3, <1>4, <1>5, <1>6, <1>8, <1>9 DEF IInv

-----------------------------------------------------------------------------

\* The empty vault, before any call
LEMMA IInvInit == Init => IInv
<1> SUFFICES ASSUME Init PROVE IInv
  OBVIOUS
<1>1. NoCall \in CallType /\ NoCall.pc = "idle"
  BY DEF NoCall, CallType
<1>2. \A c \in Calls : call[c] = NoCall
  BY DEF Init
<1>3. \A n \in Names : records[n] = None /\ safe[n] = None
  BY DEF Init, StoreInit
<1>4. TypeOK
  BY <1>1, StoreAssumption DEF Init, StoreInit, TypeOK, Contents
<1> QED
  BY <1>1, <1>2, <1>3, <1>4
     DEF IInv, LockHeld, OwnOperation, Prepared, Decided, RecordsOnce, OneRecordEach,
         NotYetWritten, WrittenBy, TakenAway, Has, Holding, Early

\* Every step preserves the inductive invariant
LEMMA IInvStep == IInv /\ [Next]_vars => IInv'
<1> SUFFICES ASSUME IInv, [Next]_vars PROVE IInv'
  OBVIOUS
<1>1. CASE UNCHANGED vars
  <2>1. TypeOK' /\ LockHeld' /\ now <= now'
    BY <1>1, StoreAssumption DEF vars, IInv, TypeOK, LockHeld
  <2> QED
    BY <1>1, <2>1, QuietStep DEF vars, Moves
<1>2. CASE \E c \in Calls : Begin(c) \/ Step(c) \/ Cancelled(c) \/ Fail(c)
  BY <1>2, BeginOK, TakeMutexOK, TakeLockOK, LoadOK, RenameOK, SyncOK, CancelledOK, FailOK DEF Step
<1>3. CASE (\E p \in Processes : Crash(p)) \/ PowerLoss \/ Advance
  BY <1>3, CrashOK, PowerLossOK, AdvanceOK
<1> QED
  BY <1>1, <1>2, <1>3 DEF Next

(***************************************************************************)
(* The inductive invariant of the vault: locks, prepared contents and what *)
(* has been taken, in every reachable state.                               *)
(***************************************************************************)
THEOREM VaultInvariant == Spec => []IInv
  BY IInvInit, IInvStep, PTL DEF Spec

\* The vault's contents, its locks and its calls keep their types
THEOREM VaultTypeCorrect == Spec => []TypeOK
<1>1. IInv => TypeOK
  BY DEF IInv
<1> QED
  BY <1>1, VaultInvariant, PTL

(***************************************************************************)
(* No record is consumed, swapped or deleted by comparison twice, whatever *)
(* processes the calls run in and whatever dies between two steps of       *)
(* withLock and writeLocked.                                               *)
(***************************************************************************)
THEOREM RecordsTakenOnce == Spec => []TakenOnce
<1>1. IInv => TakenOnce
  <2> SUFFICES ASSUME IInv, NEW c \in Calls, NEW w \in Calls, Took(c, w)
               PROVE  /\ \A e \in Calls : Took(e, w) => e = c
                      /\ ~WrittenBy(records, w) /\ ~WrittenBy(safe, w)
    BY DEF TakenOnce, WrittenBy
  <2>1. \A e \in Calls : Took(e, w) => Has(e, w) /\ call[e].pc = "ok"
    BY DEF Took, Has, At
  <2> QED
    BY <2>1 DEF IInv, TakenAway
<1> QED
  BY <1>1, VaultInvariant, PTL

(***************************************************************************)
(* The vault implements RecordStore: a rename is one atomic operation on   *)
(* the records, a directory sync makes them safe, a power loss goes back   *)
(* to the safe ones, and every other step leaves the store as it is.       *)
(***************************************************************************)
THEOREM VaultImplementsRecordStore == Spec => ImplementsRecordStore
<1>1. Init => StoreInit
  BY DEF Init
<1>2. IInv /\ [Next]_vars => [StoreNext]_storeVars
  <2> SUFFICES ASSUME IInv, [Next]_vars, ~UNCHANGED storeVars PROVE StoreNext
    OBVIOUS
  <2>1. \/ \E c \in Calls : Rename(c)
        \/ \E c \in Calls : Sync(c)
        \/ PowerLoss \/ Advance
    BY DEF Next, vars, storeVars, Step, Begin, TakeMutex, TakeLock, Load, Cancelled, Fail, Crash
  <2>2. CASE \E c \in Calls : Rename(c)
    <3>1. PICK c \in Calls : Rename(c)
      BY <2>2
    <3>2. call[c].op \in Requested /\ \E time \in 0 .. now : PreparedAt(c, time)
      BY <3>1, RenameShape
    <3>3. Perform(call[c].op)
      BY <3>1, <3>2 DEF Perform, PreparedAt, Rename
    <3>4. records' # records
      BY <3>1 DEF Rename, storeVars
    <3> QED
      BY <3>2, <3>3, <3>4 DEF StoreNext
  <2>3. CASE \E c \in Calls : Sync(c)
    BY <2>3 DEF Sync, StoreNext, Synchronise
  <2>4. CASE PowerLoss
    BY <2>4 DEF PowerLoss, StoreNext, Synchronise, Forget
  <2>5. CASE Advance
    BY <2>5 DEF Advance, StoreNext
  <2> QED
    BY <2>1, <2>2, <2>3, <2>4, <2>5
<1> QED
  BY <1>1, <1>2, VaultInvariant, PTL DEF Spec, StoreSpec, ImplementsRecordStore

=============================================================================
