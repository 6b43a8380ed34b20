---------------------------- MODULE MCMigration ----------------------------
(* Small instances of Migration for TLC.                                    *)
EXTENDS Migration, TLC

CONSTANTS i1, i2, b, m1, m2, x, y, c1, c2, inbox, archive

\* Two bodies share their first chunk; m1 is in one folder and keeps its UID
Contents == x :> <<c1>> @@ y :> <<c1, c2>>
FolderOrder == <<inbox, archive>>
MessageOrder == <<m1, m2>>
Snapshot ==
    m1 :> [body |-> x, mailboxes |-> {inbox}, uid |-> 1, keywords |-> {}] @@
    m2 :> [body |-> y, mailboxes |-> {inbox, archive}, uid |-> 0, keywords |-> {}]
Validities == inbox :> 1 @@ archive :> 2
AgentValidities == inbox :> 3 @@ archive :> 4
Ranks == inbox :> 2 @@ archive :> 1 @@ m1 :> 2 @@ m2 :> 1

Op(operation, mailbox) == [operation |-> operation, mailbox |-> mailbox]
Ops == {Op("flag", "same"), Op("tombstone", "same"), Op("move", archive), Op("replace", archive)}

(***************************************************************************)
(* Either the importers start on an empty account, or one of them is about *)
(* to store m2 while the mailbox is rebuilt.                               *)
(***************************************************************************)
Absent(P) == [p \in Processes |-> IF p \in P THEN [NoProc EXCEPT !.pc = "absent"] ELSE NoProc]
SideBySide == Init /\ proc = Absent(Builders)

Uploaded(body) == {UploadPlan(body)[i] : i \in DOMAIN UploadPlan(body)}
Underway ==
    /\ space = "private"
    /\ stored = [a \in Uploaded(x) \cup Uploaded(y) |-> Part(a)] @@ Pair(m1) @@
                [a \in {<<"folder", f>> : f \in SourceFolders} |-> Folder(a[2])]
    /\ proc = [Absent(Importers \ {i1}) EXCEPT
                    ![i1] = [NoProc EXCEPT !.pc = "pair", !.n = 2, !.k = Len(UploadPlan(y)) + 1]]
    /\ file = [p \in Builders |-> "none"] /\ faults = 0 /\ touched = FALSE

MCInit == SideBySide \/ Underway
UnderwaySpec == Underway /\ [][Next]_vars
FairSpec == MCInit /\ [][Next]_vars /\ Fairness

=============================================================================
