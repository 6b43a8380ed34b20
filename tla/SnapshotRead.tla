---------------------------- MODULE SnapshotRead ----------------------------
(***************************************************************************)
(* What the recovery read of a permissioned repository promises its        *)
(* callers, the V3 authority and the projection: however many requests it  *)
(* takes and whatever is committed meanwhile, a source that is handed out  *)
(* is one committed state, with every blob it names, and it was the latest *)
(* one at the moment it was handed out.                                    *)
(***************************************************************************)
EXTENDS Sequences, Naturals

CONSTANTS
    BlobsOf(_),     \* the blobs a committed state names
    NoSource        \* no source is handed out

VARIABLES
    log,            \* the committed states, oldest first
    handed          \* the source handed out: its revision, state and blobs

Latest ==
    [at |-> Len(log), contents |-> log[Len(log)], blobs |-> BlobsOf(log[Len(log)])]

Commit == Len(log') = Len(log) + 1 /\ SubSeq(log', 1, Len(log)) = log

Init == log # <<>> /\ handed = NoSource

Next ==
    \/ Commit /\ UNCHANGED handed
    \/ handed = NoSource /\ handed' = Latest /\ UNCHANGED log
    \/ handed' = NoSource /\ UNCHANGED log

Spec == Init /\ [][Next]_<<log, handed>>

=============================================================================
