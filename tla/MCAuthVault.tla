---------------------------- MODULE MCAuthVault ----------------------------
(* Small instances of AuthVault for TLC.                                    *)
EXTENDS AuthVault, TLC

CONSTANTS c1, c2, c3, p1, p2

\* c1 and c2 share a process
Placement == [c \in Calls |-> IF c = c3 THEN p2 ELSE p1]
\* Between them the calls are every operation, and two may take what c1 wrote
SomeKinds == c1 :> {"create", "set", "swap"} @@ c2 :> {"consume", "compareDelete", "get"}
          @@ c3 :> {"create", "consume", "delete"}

=============================================================================
