--------------------------- MODULE MCAuthorityV3 ---------------------------
(* Small instances of AuthorityV3 for TLC.                                  *)
EXTENDS AuthorityV3, TLC

CONSTANTS v1, v2, m1, f1, f2, k1, k2, r0

OneVersion == [v \in {v1} |-> m1]
OneMessage == [v \in {v1, v2} |-> m1]

\* Client operations 1 and 5 sort before and after every "version-..." one
VersionOps == [v \in Versions |-> IF v = v1 THEN 3 ELSE 4]
OneBox == {{f1}}
OneKeyword == {{}, {k1}}
TwoKeywords == {{k1}, {k2}}
Symmetry == Permutations(Requests \ {r0})
\* Where KeywordChoices treats the keywords alike
KeywordSymmetry == Symmetry \cup Permutations(Keywords)

\* The state Init reaches when request r0 stores v1 before any other begins
SeededInit ==
    /\ folders = TRUE /\ commit = 2
    /\ blobs = {v1} /\ msgs = {v1}
    /\ pc = [r \in Requests |-> IF r = r0 THEN "ok" ELSE "idle"]
    /\ input = [r \in Requests |->
            IF r = r0 THEN [NoInput EXCEPT !.kind = "store", !.lm = m1,
                                           !.version = v1, !.mailboxes = {f1}]
            ELSE NoInput]
    /\ built = [r \in Requests |-> IF r = r0 THEN InitialRevision(r0) ELSE None]
    /\ revs = {Decoded(built[r0])}
    /\ claims = {ClaimOf(built[r0])}

SeededSpec == SeededInit /\ [][Next]_vars

=============================================================================
