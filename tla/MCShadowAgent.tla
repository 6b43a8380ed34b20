--------------------------- MODULE MCShadowAgent ---------------------------
(* A small instance of ShadowAgent for TLC.                                 *)
EXTENDS ShadowAgent, TLC

CONSTANTS o1, o2, o3, k, b1, b2, b3, inbox, drafts

First1 == <<k, b1>>
Edits == {[fp |-> <<k, b>>, mailbox |-> drafts, keywords |-> {}] : b \in {b1, b2, b3}}
Inbound == {[raw |-> b1, mailbox |-> inbox]}

Change(operation, expected, mailbox) ==
    [operation |-> operation, fp |-> First1, expected |-> expected, op |-> 0,
     mailbox |-> mailbox, keywords |-> {}, tombstone |-> FALSE]
Changes == [o \in Ops |->
    CASE o = o1 -> Change("replace", 1, drafts)
      [] o = o2 -> Change("flag", 2, inbox)
      [] o = o3 -> Change("tombstone", 1, inbox)]

Ranks == [fp \in Fingerprints |->
    CASE fp[2] = b2 -> 1 [] fp = First1 -> 2 [] fp[2] = b1 -> 3 [] OTHER -> 4]
Sizes == [b \in Bodies |-> IF b = b1 THEN 3 ELSE 1]

(***************************************************************************)
(* A mailbox in use: one draft has been captured, in the inbox; then, it   *)
(* may be, o1 moved it and its answer was lost, or o3 deleted it.          *)
(***************************************************************************)
Captured ==
    [mailbox |-> inbox, keywords |-> {}, revision |-> 1, tombstone |-> FALSE, last |-> <<"none">>]
InUse ==
  \E done \in {{}, {o1}, {o3}} :
    LET state == IF done = {} THEN Captured
                 ELSE LET o == CHOOSE o \in done : TRUE
                      IN  NextState(Captured, [Changes[o] EXCEPT !.op = o])
    IN
    /\ records = [a \in {<<"folder", inbox>>, <<"message", First1>>, <<"state", First1>>}
                    \cup {<<"folder", drafts>> : o \in done \cap {o1}} |->
            CASE a[1] = "folder" -> [name |-> a[2]]
              [] a[1] = "message" -> Message(First1)
              [] OTHER -> state]
    /\ blobs = {b1}
    /\ job = [r \in Requests |-> NoJob]
    /\ walk = NoWalk
    /\ applied = [o \in Ops |-> IF o \in done THEN 1 ELSE 0]

InUseSpec == InUse /\ [][Next]_vars
FairSpec == InUseSpec /\ Fairness

=============================================================================
