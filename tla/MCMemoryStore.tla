--------------------------- MODULE MCMemoryStore ---------------------------
(* Three writers and a reader.  The first two drafts meet in every way two  *)
(* drafts can; the third is valid or wrong in one of its checked fields.    *)
EXTENDS MemoryStore, TLC

CONSTANTS w1, w2, w3, r1

D(id, candidate, name, identity, material, at) ==
    [id |-> id, candidate |-> candidate, name |-> name, connector |-> "gh",
     identity |-> identity, material |-> material, payload |-> "p",
     createdAt |-> at, status |-> "pending", parses |-> TRUE,
     history |-> [sequence |-> 1, status |-> "pending", occurredAt |-> at]]

Offers1 == {D("t1", "R1", "api", 101, "v1", 1)}

Offers2 == {D("t2", "R2", "api", 101, "v2", 2),   \* same resource
            D("t2", "R3", "web", 101, "v2", 2),   \* second alias
            D("t2", "R2", "api", 102, "v2", 2),   \* alias moved
            D("t2", "R3", "web", 102, "v2", 2),   \* another resource
            D("t1", "R2", "api", 101, "v2", 2)}   \* task id collides

Good == D("t1", "R4", "web", 102, "v3", 2)

Offers3 == {Good,
            [Good EXCEPT !.parses = FALSE],
            [Good EXCEPT !.status = "other", !.history.status = "other"],
            [Good EXCEPT !.history.sequence = 0],
            [Good EXCEPT !.history.status = "other"],
            [Good EXCEPT !.history.occurredAt = 1]}

MCOffers == w1 :> Offers1 @@ w2 :> Offers2 @@ w3 :> Offers3

MCWanted == r1 :> "t1"
=============================================================================
