----------------------------- MODULE Repository -----------------------------
(***************************************************************************)
(* One permissioned mailbox space as the v2 repository contract presents   *)
(* it (internal/repository) and the in-memory provider implements it       *)
(* (internal/memory): records by collection and key, batches that apply as *)
(* a whole or not at all, compare-and-swap on the content identifier of a  *)
(* record, and blobs that can be read once a record refers to them.  Every *)
(* operation runs under the backend's lock and is one step of its caller.  *)
(*                                                                         *)
(* The content identifier of a record is a hash of its value: comparing    *)
(* identifiers is comparing values.                                        *)
(***************************************************************************)
EXTENDS Naturals, Sequences, FiniteSets

CONSTANT NoCID      \* no compare-and-swap asked for

VARIABLES
    records,        \* the records: a function on pairs <<collection, key>>
    blobs           \* the uploaded blobs

repoVars == <<records, blobs>>

Exists(c, k) == <<c, k>> \in DOMAIN records
Value(c, k) == records[<<c, k>>]
ListRecords(c) == {a[2] : a \in {b \in DOMAIN records : b[1] = c}}

\* findBlobCIDs: only a message record refers to a blob
BlobCIDs(c, value) == IF c = "message" THEN {value.raw} ELSE {}

\* A blob that some record of the space refers to can be read
GetBlob(b) ==
    b \in blobs /\ \E k \in ListRecords("message") : b \in BlobCIDs("message", Value("message", k))

-----------------------------------------------------------------------------

Create(c, k, value) ==
    [action |-> "create", collection |-> c, rkey |-> k, value |-> value, swap |-> NoCID]
Update(c, k, value, cid) ==
    [action |-> "update", collection |-> c, rkey |-> k, value |-> value, swap |-> cid]

Address(w) == <<w.collection, w.rkey>>

\* applyOneLocked: the error of one write, or "none".  The contract also has
\* deletes, which nothing in the system issues.
WriteError(w) ==
    LET there == Address(w) \in DOMAIN records IN
    IF w.action = "create" /\ there THEN "exists"
    ELSE IF w.action = "update" /\ ~there THEN "notFound"
    ELSE IF w.action = "update" /\ w.swap # NoCID /\ records[Address(w)] # w.swap THEN "conflict"
    ELSE IF BlobCIDs(w.collection, w.value) \subseteq blobs THEN "none" ELSE "notFound"

\* The writes are tried in order; the first that fails decides the error
BatchError(writes) ==
    LET failed == {i \in DOMAIN writes : WriteError(writes[i]) # "none"} IN
    IF failed = {} THEN "none"
    ELSE WriteError(writes[CHOOSE i \in failed : \A j \in failed : i <= j])

\* The records after a batch; its addresses differ
Applied(writes) ==
    LET touched == {Address(writes[i]) : i \in DOMAIN writes}
        At(a) == writes[CHOOSE i \in DOMAIN writes : Address(writes[i]) = a].value
    IN  [a \in DOMAIN records \cup touched |-> IF a \in touched THEN At(a) ELSE records[a]]

\* ApplyWrites: all of the batch, on a clone of the space, or nothing
ApplyWrites(writes) ==
    /\ records' = IF BatchError(writes) = "none" THEN Applied(writes) ELSE records
    /\ UNCHANGED blobs

\* PutRecordCAS: a missing record, an empty or another identifier conflict
CASError(c, k, cid) ==
    IF ~Exists(c, k) \/ cid = NoCID \/ Value(c, k) # cid THEN "conflict" ELSE "none"

PutRecordCAS(c, k, value, cid) ==
    /\ records' = IF CASError(c, k, cid) = "none"
                    THEN [records EXCEPT ![<<c, k>>] = value] ELSE records
    /\ UNCHANGED blobs

UploadBlob(b) == blobs' = blobs \cup {b} /\ UNCHANGED records

EmptySpace == records = [a \in {} |-> NoCID] /\ blobs = {}

=============================================================================
