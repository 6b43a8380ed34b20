------------------------------ MODULE HappyView ------------------------------
(***************************************************************************)
(* The HappyView provider as its client sees it                            *)
(* (internal/providers/happyview): one permissioned space whose records    *)
(* are created in atomic batches.  The provider has no private blobs, so   *)
(* the client keeps them as records of its own: the chunks of the body, a  *)
(* manifest that names them, and an index from the manifest's content      *)
(* identifier to the manifest.  A chunk's key is the hash of its bytes,    *)
(* and bodies that share a chunk share its record; the manifest's key and  *)
(* identifier are hashes of the body.  A body stands for its own hash.     *)
(***************************************************************************)
EXTENDS Naturals, Sequences, FiniteSets, FiniteSetsExt, Functions

CONSTANTS
    Bodies,         \* RFC 5322 contents
    Chunks,         \* the chunks of each body, in order
    Rank,           \* the provider's order of record keys
    pageSize        \* records per listing page, 100 in the code

ChunkKeys == UNION {Range(Chunks[b]) : b \in Bodies}

ASSUME HappyViewAssumption ==
    pageSize \in Nat \ {0} /\ Chunks \in [Bodies -> Seq(ChunkKeys)]

VARIABLES
    space,          \* the mailbox space: absent, private, or made with another policy
    stored          \* its records: a function on pairs <<collection, key>>

providerVars == <<space, stored>>

Has(a) == a \in DOMAIN stored
Keys(c) == {a[2] : a \in {b \in DOMAIN stored : b[1] = c}}

\* Records of one collection, as GetRecord returns them
RecordsOf(c) == [k \in Keys(c) |-> stored[<<c, k>>]]

\* What the deterministic key of a part of a blob stands for
Part(a) == IF a[1] = "manifest" THEN Chunks[a[2]] ELSE a[2]

\* Mutant: the index is written before what it points to
UploadPlanIndexFirst(b) ==
    <<<<"index", b>>, <<"manifest", b>>>> \o [i \in DOMAIN Chunks[b] |-> <<"chunk", Chunks[b][i]>>]

\* UploadBlob: the records it makes sure of, one after the other
UploadPlan(b) ==
    [i \in DOMAIN Chunks[b] |-> <<"chunk", Chunks[b][i]>>] \o <<<<"manifest", b>>, <<"index", b>>>>

\* GetBlob: through the index and the manifest to every chunk.  The records
\* are never changed or removed, so the order of the reads does not matter.
Readable(b) ==
    /\ Has(<<"index", b>>) /\ Has(<<"manifest", b>>)
    /\ \A i \in DOMAIN Chunks[b] : Has(<<"chunk", Chunks[b][i]>>)

\* Mutant: a record that exists is replaced
CanCreateAlways(writes) == TRUE

\* applyWrites of creations only: the whole batch, or nothing when one exists
CanCreate(writes) == \A a \in DOMAIN writes : ~Has(a)
Create(writes) ==
    stored' = [a \in DOMAIN stored \cup DOMAIN writes |->
        IF a \in DOMAIN writes THEN writes[a] ELSE stored[a]]

\* putRecord with swapRecord: the caller's identifier is current
Put(a, value) == Has(a) /\ stored' = [stored EXCEPT ![a] = value]

-----------------------------------------------------------------------------
(* ListRecords: page after page, and every item read again                 *)

NoList == [of |-> "none", after |-> 0, page |-> <<>>, got |-> <<>>, last |-> FALSE]
ListOf(c) == [NoList EXCEPT !.of = c]

Beyond(list) == {k \in Keys(list.of) : Rank[k] > list.after}

\* The keys of the next page
PageKeys(list) ==
    {k \in Beyond(list) : Cardinality({j \in Beyond(list) : Rank[j] < Rank[k]}) < pageSize}

\* The provider's answer; its cursor is empty on the last page
NextPage(list) ==
    [list EXCEPT !.page = [k \in PageKeys(list) |-> stored[<<list.of, k>>]],
                 !.last = PageKeys(list) = Beyond(list)]

\* A record that changed after it was listed fails the listing
Unchanged(list) == \A k \in DOMAIN list.page : stored[<<list.of, k>>] = list.page[k]

\* The listing with the page added; the last cursor seen is the last key
WithPage(list) ==
    LET got == [k \in DOMAIN list.got \cup DOMAIN list.page |->
                    IF k \in DOMAIN list.page THEN list.page[k] ELSE list.got[k]]
    IN  [list EXCEPT !.got = got, !.page = <<>>,
                     !.after = Max({Rank[k] : k \in DOMAIN got} \cup {0})]

==============================================================================
