----------------------------- MODULE AuthVault -----------------------------
(***************************************************************************)
(* internal/authvault's Store: one encrypted file that several processes   *)
(* read and replace.  A call takes its process's mutex, then the exclusive *)
(* flock of the lock file, reads the whole vault, changes it, writes a     *)
(* synchronised temporary file, renames it over the vault and synchronises *)
(* the directory; only then is it answered.  The kernel drops the flock of *)
(* a process that dies.                                                    *)
(*                                                                         *)
(* records is the vault file as a reader finds it and safe the one its     *)
(* directory entry names on stable storage: they differ from the rename to *)
(* the directory's sync.  A temporary file that was never renamed is not   *)
(* part of the state, and neither are the encryption and the key file.     *)
(***************************************************************************)
EXTENDS RecordStore

CONSTANTS
    Processes,      \* processes that have the vault open
    ProcessOf,      \* [Calls -> Processes]
    CallKinds       \* the operations each call of an instance may be

ASSUME VaultAssumption ==
    /\ ProcessOf \in [Calls -> Processes]
    /\ None \notin Calls
    /\ CallKinds \in [Calls -> SUBSET Kinds]

VARIABLES
    mu,             \* the call that holds each process's mutex
    flock,          \* the call that holds the lock file
    call            \* the progress of each call

vars == <<records, safe, now, mu, flock, call>>

Waiting == {"called", "mutex", "locked", "loaded", "renamed"}
Answers == {"ok", "exists", "full", "stale", "missing", "cancelled", "error", "dead"}

NoCall == [pc |-> "idle", op |-> None, next |-> None, answer |-> None, took |-> None]

Set(c, new) == call' = [call EXCEPT ![c] = new]
Goto(c, label) == Set(c, [call[c] EXCEPT !.pc = label])
At(c, label) == call[c].pc = label

\* The call returns: withLock's and the store's deferred unlocks
Return(c, answer, took) ==
    /\ Set(c, [NoCall EXCEPT !.pc = answer, !.took = took])
    /\ flock' = IF flock = c THEN None ELSE flock
    /\ mu' = [mu EXCEPT ![ProcessOf[c]] = IF @ = c THEN None ELSE @]

\* validateRecord: a new record's expiry lies in the future
Begin(c) ==
    /\ At(c, "idle")
    /\ \E op \in Requested :
        /\ op.by = c /\ op.kind \in CallKinds[c]
        /\ op.expires # Never => op.expires > now
        /\ Set(c, [NoCall EXCEPT !.pc = "called", !.op = op])
    /\ UNCHANGED <<storeVars, mu, flock>>

TakeMutex(c) ==
    /\ At(c, "called")
    /\ mu[ProcessOf[c]] = None
    /\ mu' = [mu EXCEPT ![ProcessOf[c]] = c]
    /\ Goto(c, "mutex")
    /\ UNCHANGED <<storeVars, flock>>

\* Mutant: the mutex of the process is taken to be enough
TakeLockAlways(c) ==
    /\ At(c, "mutex")
    /\ flock' = c
    /\ Goto(c, "locked")
    /\ UNCHANGED <<storeVars, mu>>

\* unix.Flock blocks until the lock is free, whatever the context says
TakeLock(c) ==
    /\ At(c, "mutex")
    /\ flock = None
    /\ flock' = c
    /\ Goto(c, "locked")
    /\ UNCHANGED <<storeVars, mu>>

\* withLock looks at the context before it opens the lock file and again after
Cancelled(c) ==
    /\ At(c, "mutex") \/ At(c, "locked")
    /\ Return(c, "cancelled", None)
    /\ UNCHANGED storeVars

\* The record a conditional operation acts on, told apart by its writer
Taken(op, recs) ==
    IF op.kind \in {"swap", "compareDelete", "consume"} /\ recs[op.name] # None
    THEN recs[op.name].by ELSE None

\* readLocked and the change; without one to write the call returns at once
Load(c) ==
    LET op == call[c].op
        result == Change(op, records, now)
    IN  /\ At(c, "locked")
        /\ IF result.write
           THEN /\ Set(c, [call[c] EXCEPT !.pc = "loaded", !.next = result.records,
                           !.answer = result.answer,
                           !.took = IF result.answer = "ok" THEN Taken(op, records) ELSE None])
                /\ UNCHANGED <<mu, flock>>
           ELSE Return(c, result.answer, None)
        /\ UNCHANGED storeVars

\* os.Rename of the temporary file over the vault
Rename(c) ==
    /\ At(c, "loaded")
    /\ records' = call[c].next
    /\ Goto(c, "renamed")
    /\ UNCHANGED <<safe, now, mu, flock>>

\* Mutant: the call returns without synchronising the directory
SyncSkipped(c) ==
    /\ At(c, "renamed")
    /\ Return(c, call[c].answer, call[c].took)
    /\ UNCHANGED storeVars

\* dir.Sync; the call is answered
Sync(c) ==
    /\ At(c, "renamed")
    /\ safe' = records
    /\ Return(c, call[c].answer, call[c].took)
    /\ UNCHANGED <<records, now>>

\* Reading, encrypting, writing, renaming or synchronising fails
Fail(c) ==
    /\ call[c].pc \in {"locked", "loaded", "renamed"}
    /\ Return(c, "error", None)
    /\ UNCHANGED storeVars

Dead(calls) ==
    [c \in Calls |-> IF c \in calls /\ call[c].pc \in Waiting
                     THEN [NoCall EXCEPT !.pc = "dead"] ELSE call[c]]

\* Mutant: a lock file that stays behind
CrashKeepsLock(p) ==
    /\ call' = Dead({c \in Calls : ProcessOf[c] = p})
    /\ call' # call
    /\ mu' = [mu EXCEPT ![p] = None]
    /\ UNCHANGED <<storeVars, flock>>

\* A process dies and is started again
Crash(p) ==
    /\ call' = Dead({c \in Calls : ProcessOf[c] = p})
    /\ call' # call
    /\ mu' = [mu EXCEPT ![p] = None]
    /\ flock' = IF flock # None /\ ProcessOf[flock] = p THEN None ELSE flock
    /\ UNCHANGED storeVars

\* The machine goes down; a rename that was not synchronised may be undone
PowerLoss ==
    /\ records' \in {records, safe} /\ safe' = records'
    /\ call' = Dead(Calls)
    /\ call' # call \/ records # safe
    /\ mu' = [p \in Processes |-> None] /\ flock' = None
    /\ UNCHANGED now

Advance == Tick /\ UNCHANGED <<mu, flock, call>>

Init ==
    /\ StoreInit
    /\ mu = [p \in Processes |-> None] /\ flock = None
    /\ call = [c \in Calls |-> NoCall]

Step(c) == TakeMutex(c) \/ TakeLock(c) \/ Load(c) \/ Rename(c) \/ Sync(c)

Next ==
    \/ \E c \in Calls : Begin(c) \/ Step(c) \/ Cancelled(c) \/ Fail(c)
    \/ \E p \in Processes : Crash(p)
    \/ PowerLoss \/ Advance

Spec == Init /\ [][Next]_vars

\* File operations return, and a lock that stays free is taken by who waits
Fairness == \A c \in Calls : WF_vars(Step(c))
FairSpec == Spec /\ Fairness

-----------------------------------------------------------------------------
(* Properties *)

CallType ==
    [pc: {"idle"} \cup Waiting \cup Answers, op: Requested \cup {None},
     next: Contents \cup {None}, answer: Answers \cup {None}, took: Calls \cup {None}]

\* The type of the vault's contents, the locks and the calls
TypeOK ==
    /\ records \in Contents /\ safe \in Contents /\ now \in 0 .. maxTime
    /\ mu \in [Processes -> Calls \cup {None}] /\ flock \in Calls \cup {None}
    /\ call \in [Calls -> CallType]

(***************************************************************************)
(* The calls of all processes change the vault as if each were atomic, and *)
(* a power loss undoes at most what no synchronised call has answered: the *)
(* store the onboarding broker is written against.                         *)
(***************************************************************************)
ImplementsRecordStore == StoreSpec

\* Call c was answered and acted on the record that call writer wrote
Took(c, writer) == At(c, "ok") /\ call[c].took = writer

(***************************************************************************)
(* A stored record is consumed, replaced by comparison or deleted by       *)
(* comparison by one answered call at most, in whatever process it runs,   *)
(* and once taken never comes back, not even after a power loss: browser   *)
(* and OAuth states are single use.                                        *)
(***************************************************************************)
TakenOnce ==
    \A c \in Calls, writer \in Calls : Took(c, writer) =>
        /\ \A e \in Calls : Took(e, writer) => e = c
        /\ \A n \in Names : /\ records[n] # None => records[n].by # writer
                            /\ safe[n] # None => safe[n].by # writer

\* Every call returns: nobody waits for a lock that nobody holds
Returns == \A c \in Calls : call[c].pc \in Waiting ~> call[c].pc \in Answers

=============================================================================
