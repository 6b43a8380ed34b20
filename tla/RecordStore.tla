---------------------------- MODULE RecordStore ----------------------------
(***************************************************************************)
(* What internal/authvault promises its callers: named records changed by  *)
(* atomic operations, and a power loss that goes back at most to the last  *)
(* contents that were synchronised.                                        *)
(*                                                                         *)
(* A stored record carries its value, the time it expires and the call     *)
(* that wrote it; the last is no part of the vault and only serves to tell *)
(* two records with equal values apart.                                    *)
(***************************************************************************)
EXTENDS Naturals, FiniteSets

CONSTANTS
    Names,          \* record names
    Values,         \* record contents
    Calls,          \* calls of the store
    None,           \* no record
    Never,          \* the expiry of a record without one
    maxTime,        \* bound of the model's clock
    maxRecords      \* 4096 in the code

ASSUME StoreAssumption ==
    /\ maxTime \in Nat /\ maxRecords \in Nat
    /\ None \notin Values /\ Never \notin Nat

VARIABLES
    records,        \* the contents of the vault
    safe,           \* the contents a power loss goes back to
    now             \* the clock

storeVars == <<records, safe, now>>

Kinds == {"create", "set", "swap", "compareDelete", "consume", "delete", "get"}
Stored == [value: Values, expires: (1 .. maxTime) \cup {Never}, by: Calls]
Contents == [Names -> Stored \cup {None}]
Operation ==
    [kind: Kinds, name: Names, value: Values, expected: Values \cup {None},
     expires: (1 .. maxTime) \cup {Never}, by: Calls]

\* An operation uses only some of the fields; the others have one value
Requested == {op \in Operation :
    /\ op.kind \notin {"create", "set", "swap"} =>
        op.value = (CHOOSE v \in Values : TRUE) /\ op.expires = Never
    /\ op.kind \notin {"swap", "compareDelete"} => op.expected = None
    /\ op.kind = "compareDelete" => op.expected # None}

Expired(rec, time) == rec.expires # Never /\ rec.expires <= time

\* pruneExpired, on the records
Pruned(recs, time) ==
    [n \in Names |-> IF recs[n] # None /\ Expired(recs[n], time) THEN None ELSE recs[n]]

Full(recs) == Cardinality({n \in Names : recs[n] # None}) >= maxRecords

Kept(answer, recs) == [answer |-> answer, write |-> FALSE, records |-> recs]
Written(answer, recs) == [answer |-> answer, write |-> TRUE, records |-> recs]
Replaced(recs, op) ==
    Written("ok", [recs EXCEPT ![op.name] =
        [value |-> op.value, expires |-> op.expires, by |-> op.by]])
Removed(recs, op) == Written("ok", [recs EXCEPT ![op.name] = None])

CreateRecord(op, recs) ==
    IF recs[op.name] # None THEN Kept("exists", recs)
    ELSE IF Full(recs) THEN Kept("full", recs)
    ELSE Replaced(recs, op)

SetRecord(op, recs) ==
    IF recs[op.name] = None /\ Full(recs) THEN Kept("full", recs) ELSE Replaced(recs, op)

\* The comparison of both conditional operations: values, not identities
Matches(op, recs) ==
    IF op.expected = None THEN recs[op.name] = None
    ELSE recs[op.name] # None /\ recs[op.name].value = op.expected

(***************************************************************************)
(* A stale comparison is no error, so mutate writes the vault again: the   *)
(* expired records are gone from it.                                       *)
(***************************************************************************)
CompareAndSwapRecord(op, recs) ==
    IF ~Matches(op, recs) THEN Written("stale", recs)
    ELSE IF recs[op.name] = None /\ Full(recs) THEN Kept("full", recs)
    ELSE Replaced(recs, op)

CompareAndDeleteRecord(op, recs) ==
    IF op.expected = None \/ ~Matches(op, recs) THEN Written("stale", recs)
    ELSE Removed(recs, op)

\* ConsumeRecord and GetRecord look at the one record and prune nothing
ConsumeRecord(op, recs, time) ==
    IF recs[op.name] = None \/ Expired(recs[op.name], time) THEN Kept("missing", recs)
    ELSE Removed(recs, op)

GetRecord(op, recs, time) ==
    IF recs[op.name] = None \/ Expired(recs[op.name], time) THEN Kept("missing", recs)
    ELSE Kept("ok", recs)

\* The change of one operation: its answer and the contents it leaves
Change(op, recs, time) ==
    CASE op.kind = "create" -> CreateRecord(op, Pruned(recs, time))
      [] op.kind = "set" -> SetRecord(op, Pruned(recs, time))
      [] op.kind = "swap" -> CompareAndSwapRecord(op, Pruned(recs, time))
      [] op.kind = "compareDelete" -> CompareAndDeleteRecord(op, Pruned(recs, time))
      [] op.kind = "consume" -> ConsumeRecord(op, recs, time)
      [] op.kind = "delete" -> Removed(recs, op)
      [] op.kind = "get" -> GetRecord(op, recs, time)

-----------------------------------------------------------------------------

StoreInit == records = [n \in Names |-> None] /\ safe = records /\ now = 0

\* An operation takes effect; it has looked at the clock some time before
Perform(op) ==
    /\ \E time \in 0 .. now :
        /\ Change(op, records, time).write
        /\ records' = Change(op, records, time).records
    /\ UNCHANGED <<safe, now>>

Synchronise == safe' = records /\ UNCHANGED <<records, now>>

Forget == records' = safe /\ UNCHANGED <<safe, now>>

Tick == now < maxTime /\ now' = now + 1 /\ UNCHANGED <<records, safe>>

StoreNext ==
    \/ Synchronise \/ Forget \/ Tick
    \/ records' # records /\ \E op \in Requested : Perform(op)

StoreSpec == StoreInit /\ [][StoreNext]_storeVars

=============================================================================
