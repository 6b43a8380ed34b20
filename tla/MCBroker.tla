------------------------------ MODULE MCBroker ------------------------------
(* Small instances of Broker for TLC.                                       *)
EXTENDS Broker, TLC

CONSTANTS a, b, d, seedStages

AllRoles == Endpoints
CallbackRoles == {"steady", "revoke"}
Seeds == {a, b, d} \cap Requests
Symmetry == Permutations(Requests \ Seeds) \cup Permutations(Flows)

(***************************************************************************)
(* States Init reaches.  Used: a was installed, b replaced it and the      *)
(* provider refused to revoke a; d failed its first proof and is still     *)
(* queued.  An instance may leave a or d out.  New: nothing is installed,  *)
(* and every flow is about to provision a space of any kind.               *)
(***************************************************************************)
UsedInit ==
    /\ live = Seeds /\ local = Seeds
    /\ vault = [n \in RecordNames |->
            CASE n = "ready" -> Record(b, {a} \cap Requests)
              [] n = "steady" /\ d \in Requests -> Record(None, {d})
              [] OTHER -> Absent]
    /\ flow \in [Flows -> seedStages] /\ space = "exact"
NewInit ==
    /\ live = {} /\ local = {} /\ vault = [n \in RecordNames |-> Absent]
    /\ flow = [f \in Flows |-> "provision"] /\ space \in Spaces

SeededInit ==
    /\ UsedInit \/ NewInit
    /\ job = [r \in Requests |-> IF r \in Seeds THEN [NoJob EXCEPT !.pc = "failed"] ELSE NoJob]

SeededSpec == SeededInit /\ [][Next]_vars

\* A flow that has not begun, was offered or is in its first OAuth stage; the
\* owner has made the space
BrowserInit ==
    /\ live = {} /\ local = {} /\ vault = [n \in RecordNames |-> Absent]
    /\ flow \in [Flows -> {"fresh", "entry", "provision"}] /\ space = "exact"
    /\ job = [r \in Requests |-> NoJob]
FairSpec == BrowserInit /\ [][Next]_vars /\ Fairness

=============================================================================
