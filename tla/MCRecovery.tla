----------------------------- MODULE MCRecovery -----------------------------
(* Small instances of Recovery for TLC.                                     *)
EXTENDS Recovery, TLC

CONSTANTS inbox, work, home, b1, b2, v1, v2, v3, INBOX, Work, Home

Owners == v1 :> 1 @@ v2 :> 1 @@ v3 :> 2
Folded == INBOX :> 1 @@ Work :> 2 @@ Home :> 3
StandardNames == inbox :> INBOX

FolderRoot(k, f, n, role) ==
    [key |-> k, folder |-> f, op |-> k, parents |-> {}, rev |-> 1, name |-> n, role |-> role,
     tombstone |-> FALSE, merge |-> FALSE]
MessageRoot(k, m, v, box) ==
    [key |-> k, lm |-> m, op |-> k, parents |-> {}, rev |-> 1, version |-> v, mailboxes |-> box,
     on |-> {}, off |-> {}, nilKeywords |-> TRUE, deletePending |-> "unset", tombstone |-> FALSE]

\* The standard folder, a folder of the user's and a message in both
Began == WithFolderRevision(Empty, FolderRoot(2, inbox, INBOX, inbox))
Used == WithRevision(WithFolderRevision(Began, FolderRoot(3, work, Work, NoRole)),
                     MessageRoot(4, 1, v1, {inbox, work}))

\* Two clients rename the folder at the same time
Rename(k, n) == [FolderRoot(k, work, n, NoRole) EXCEPT !.parents = {3}, !.rev = 2]
Renamed == WithFolderRevision(Used, Rename(5, Home))
Forked == <<Used, Renamed, WithFolderRevision(Renamed, Rename(6, Work))>>

\* A second message arrives; then the first one is given a second version
Second == WithRevision(Used, MessageRoot(5, 2, v3, {inbox, work}))
Third ==
    WithRevision(Second, [MessageRoot(6, 1, v2, {inbox}) EXCEPT !.parents = {4}, !.rev = 2])
Grown == <<Began, Used, Second, Third>>

(***************************************************************************)
(* Either nobody rebuilds while other clients change a folder with two     *)
(* heads, or two rebuilds of a mailbox that has grown share a destination. *)
(***************************************************************************)
Watched ==
    /\ history = Forked
    /\ builder = [b \in Builders |-> [NoBuild EXCEPT !.pc = "absent"]]
Rebuilt == history = Grown /\ builder = [b \in Builders |-> NoBuild]

MCInit ==
    /\ Watched \/ Rebuilt
    /\ reader = Idle /\ source = NoSource /\ file = NoFile /\ faults = 0

MCSpec == MCInit /\ [][Next]_vars /\ Fairness

=============================================================================
