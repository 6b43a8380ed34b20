--------------------------- MODULE VersionedStore ---------------------------
(***************************************************************************)
(* What the v2 mailbox promises the relay about the messages it holds: a   *)
(* message stays, its state moves through consecutive revisions, and a     *)
(* tombstone is the end.  A new version of a source may put one earlier    *)
(* version of the same source to rest in the step that stores it.          *)
(***************************************************************************)
EXTENDS Naturals

CONSTANT Source(_)  \* the source key of a message

VARIABLE held       \* the messages, each with its revision and whether it is live

\* The mailbox may have been in use before
Init == \A fp \in DOMAIN held : held[fp].revision \in Nat \ {0}

Bury(entry) == [revision |-> entry.revision + 1, live |-> FALSE]

Store(new, old) ==
    /\ new \notin DOMAIN held
    /\ \A fp \in old : held[fp].live /\ Source(fp) = Source(new)
    /\ held' = [fp \in DOMAIN held \cup {new} |->
            IF fp = new THEN [revision |-> 1, live |-> TRUE]
            ELSE IF fp \in old THEN Bury(held[fp]) ELSE held[fp]]

Change(fp) ==
    /\ held[fp].live
    /\ \E live \in BOOLEAN :
        held' = [held EXCEPT ![fp] = [revision |-> @.revision + 1, live |-> live]]

Next ==
    \/ \E new \in DOMAIN held', old \in {{}} \cup {{fp} : fp \in DOMAIN held} : Store(new, old)
    \/ \E fp \in DOMAIN held : Change(fp)

Spec == Init /\ [][Next]_held

=============================================================================
