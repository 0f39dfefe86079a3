--------------------------- MODULE MCSqliteStore ---------------------------
(* Small instances of SqliteStore.  The drafts of the two submitters are    *)
(* chosen so that every way two submissions can meet occurs: two aliases of *)
(* one repository, one alias of two repositories, the same resource twice,  *)
(* two resources, and collisions of the random task and resource ids.       *)
EXTENDS SqliteStore, TLC

CONSTANTS s1, s2, r1, f1, f2

MCTaskIDs == {"t1", "t2"}
MCResourceIDs == {"R1", "R2", "R3"}
MCNames == {"api", "web"}
MCConnectors == {"gh"}
MCIdentities == {101, 102}
MCMaterials == {"v1", "v2"}
MCPayloads == {"p1", "p2", "seed"}
MCTimes == {1, 2}

D(id, candidate, name, identity, material, payload, at) ==
    [id |-> id, candidate |-> candidate, name |-> name, connector |-> "gh",
     identity |-> identity, material |-> material, payload |-> payload,
     createdAt |-> at]

Offers1 == {D("t1", "R1", "api", 101, "v1", "p1", 1)}

Offers2 == {D("t2", "R2", "api", 101, "v2", "p2", 2),   \* same resource
            D("t2", "R2", "web", 101, "v2", "p2", 2),   \* second alias
            D("t2", "R2", "api", 102, "v2", "p2", 2),   \* alias moved
            D("t2", "R2", "web", 102, "v2", "p2", 2),   \* another resource
            D("t2", "R1", "web", 102, "v2", "p2", 2),   \* resource id collides
            D("t1", "R2", "api", 101, "v2", "p2", 2)}   \* task id collides

MCOffers == s1 :> Offers1 @@ s2 :> Offers2

MCSeeds == {D("t1", "R3", "api", 101, "v2", "seed", 1),
            D("t2", "R3", "web", 102, "v2", "seed", 1)}

(* Which process what may go wrong in.                                      *)
AllFaults == [p \in Procs |-> FaultKinds]
NoFaults == [p \in Procs |-> {}]
OnlyCancel == [p \in Procs |-> {"cancel"}]
FaultsOfOthers == [p \in Procs |-> IF p = s2 THEN {"crash"} ELSE {"error", "cancel", "crash"}]

MCWanted == r1 :> "t1"
=============================================================================
