------------------------ MODULE ConfigurationProofs ------------------------
(***************************************************************************)
(* Deployment documents of any size: what a document that a loader accepts *)
(* has passed, the checks `doctor` makes of it, and the policy requests,   *)
(* which are normalised once more by the task service.                     *)
(***************************************************************************)
EXTENDS Configuration, TLAPS, NaturalsInduction, WellFoundedInduction, FiniteSetTheorems

-----------------------------------------------------------------------------
(* A set of numbers has a least element.                                   *)
LEMMA LeastFailed ==
    ASSUME NEW S \in SUBSET Nat, S # {}
    PROVE  Min(S) \in S /\ \A j \in S : Min(S) <= j
<1>1. IsWellFoundedOn(OpToRel(<, Nat), Nat)
  BY NatLessThanWellFounded
<1>2. PICK i \in S : \A j \in S : ~(<<j, i>> \in OpToRel(<, Nat))
  BY <1>1, WFMin
<1>3. \A j \in S : ~(j < i)
  BY <1>2 DEF OpToRel
<1>4. \A j \in S : i <= j
  BY <1>3
<1> QED BY <1>4 DEF Min

(* Checks that are made in order find nothing if all of them pass, and     *)
(* otherwise say what the first that fails says.                           *)
LEMMA FirstFailureIs ==
    ASSUME NEW list, NEW n \in Nat, DOMAIN list = 1..n
    PROVE  /\ (\A i \in 1..n : list[i][1]) => FirstFailure(list) = ""
           /\ \A i \in 1..n :
                ~list[i][1] /\ (\A j \in 1..n : j < i => list[j][1])
                => FirstFailure(list) = list[i][2]
<1> DEFINE failed == {i \in DOMAIN list : ~list[i][1]}
<1>1. FirstFailure(list) = IF failed = {} THEN "" ELSE list[Min(failed)][2]
  BY DEF FirstFailure
<1>2. failed \in SUBSET Nat
  <2> SUFFICES \A i \in failed : i \in Nat
    OBVIOUS
  <2>1. \A i \in failed : i \in 1..n
    BY Zenon
  <2>2. \A i \in 1..n : i \in Nat
    OBVIOUS
  <2> QED BY <2>1, <2>2, Zenon
<1>3. \A i : i \in failed <=> i \in 1..n /\ ~list[i][1]
  BY Zenon
<1> HIDE DEF failed
<1>4. ASSUME \A i \in 1..n : list[i][1] PROVE FirstFailure(list) = ""
  BY <1>1, <1>3, <1>4, Zenon
<1>5. ASSUME NEW i \in 1..n, ~list[i][1], \A j \in 1..n : j < i => list[j][1]
      PROVE  FirstFailure(list) = list[i][2]
  <2>1. i \in failed
    BY <1>3, <1>5
  <2>2. Min(failed) \in failed /\ Min(failed) <= i
    BY <1>2, <2>1, LeastFailed
  <2>3. Min(failed) \in 1..n /\ ~list[Min(failed)][1]
    BY <1>3, <2>2
  <2>4. ~(Min(failed) < i)
    BY <1>5, <2>3
  <2>5. Min(failed) = i
    BY <2>2, <2>3, <2>4
  <2> QED BY <1>1, <2>1, <2>5, Zenon
<1> QED BY <1>4, <1>5, Zenon

(* The same for two checks.                                                *)
LEMMA FirstOfTwo ==
    ASSUME NEW list, DOMAIN list = 1..2
    PROVE  /\ ~list[1][1] => FirstFailure(list) = list[1][2]
           /\ list[1][1] /\ ~list[2][1] => FirstFailure(list) = list[2][2]
           /\ list[1][1] /\ list[2][1] => FirstFailure(list) = ""
<1>1. \A k \in 1..2 : k = 1 \/ k = 2
  OBVIOUS
<1>2. ASSUME ~list[1][1] PROVE FirstFailure(list) = list[1][2]
  <2>1. 1 \in 1..2 /\ \A j \in 1..2 : j < 1 => FALSE
    BY <1>1
  <2>2. \A j \in 1..2 : j < 1 => list[j][1]
    BY <1>2, <2>1, Zenon
  <2> QED BY <1>2, <2>1, <2>2, FirstFailureIs, Zenon
<1>3. ASSUME list[1][1] /\ ~list[2][1] PROVE FirstFailure(list) = list[2][2]
  <2>1. 2 \in 1..2 /\ \A j \in 1..2 : j < 2 => j = 1
    BY <1>1
  <2>2. \A j \in 1..2 : j < 2 => list[j][1]
    BY <1>3, <2>1, Zenon
  <2> QED BY <1>3, <2>1, <2>2, FirstFailureIs, Zenon
<1>4. ASSUME list[1][1] /\ list[2][1] PROVE FirstFailure(list) = ""
  <2>1. \A j \in 1..2 : list[j][1]
    BY <1>1, <1>4, Zenon
  <2>2. 2 \in Nat
    OBVIOUS
  <2> QED BY <2>1, <2>2, FirstFailureIs, Zenon
<1> QED BY <1>2, <1>3, <1>4, Zenon

(* And for three.                                                          *)
LEMMA FirstOfThree ==
    ASSUME NEW list, DOMAIN list = 1..3
    PROVE  /\ ~list[1][1] => FirstFailure(list) = list[1][2]
           /\ list[1][1] /\ ~list[2][1] => FirstFailure(list) = list[2][2]
           /\ list[1][1] /\ list[2][1] /\ ~list[3][1] => FirstFailure(list) = list[3][2]
           /\ list[1][1] /\ list[2][1] /\ list[3][1] => FirstFailure(list) = ""
<1>1. \A k \in 1..3 : k = 1 \/ k = 2 \/ k = 3
  OBVIOUS
<1>2. ASSUME ~list[1][1] PROVE FirstFailure(list) = list[1][2]
  <2>1. 1 \in 1..3 /\ \A j \in 1..3 : j < 1 => FALSE
    BY <1>1
  <2>2. \A j \in 1..3 : j < 1 => list[j][1]
    BY <1>2, <2>1, Zenon
  <2> QED BY <1>2, <2>1, <2>2, FirstFailureIs, Zenon
<1>3. ASSUME list[1][1] /\ ~list[2][1] PROVE FirstFailure(list) = list[2][2]
  <2>1. 2 \in 1..3 /\ \A j \in 1..3 : j < 2 => j = 1
    BY <1>1
  <2>2. \A j \in 1..3 : j < 2 => list[j][1]
    BY <1>3, <2>1, Zenon
  <2> QED BY <1>3, <2>1, <2>2, FirstFailureIs, Zenon
<1>4. ASSUME list[1][1] /\ list[2][1] /\ ~list[3][1] PROVE FirstFailure(list) = list[3][2]
  <2>1. 3 \in 1..3 /\ \A j \in 1..3 : j < 3 => j = 1 \/ j = 2
    BY <1>1
  <2>2. \A j \in 1..3 : j < 3 => list[j][1]
    BY <1>4, <2>1, Zenon
  <2> QED BY <1>4, <2>1, <2>2, FirstFailureIs, Zenon
<1>5. ASSUME list[1][1] /\ list[2][1] /\ list[3][1] PROVE FirstFailure(list) = ""
  <2>1. \A j \in 1..3 : list[j][1]
    BY <1>1, <1>5, Zenon
  <2>2. 3 \in Nat
    OBVIOUS
  <2> QED BY <2>1, <2>2, FirstFailureIs, Zenon
<1> QED BY <1>2, <1>3, <1>4, <1>5, Zenon

(* If checks that are made in order find nothing, all of them pass.        *)
LEMMA NoneFails ==
    ASSUME NEW list, NEW n \in Nat, DOMAIN list = 1..n
    PROVE  FirstFailure(list) = "" /\ (\A i \in 1..n : list[i][2] # "")
             => \A i \in 1..n : list[i][1]
<1> DEFINE failed == {i \in DOMAIN list : ~list[i][1]}
<1>1. FirstFailure(list) = IF failed = {} THEN "" ELSE list[Min(failed)][2]
  BY DEF FirstFailure
<1>2. \A i : i \in failed <=> i \in 1..n /\ ~list[i][1]
  BY Zenon
<1>3. failed \in SUBSET Nat
  <2>1. \A i \in 1..n : i \in Nat
    OBVIOUS
  <2> QED BY <1>2, <2>1, Zenon
<1> HIDE DEF failed
<1>4. failed # {} => Min(failed) \in failed
  BY <1>3, LeastFailed
<1> QED BY <1>1, <1>2, <1>4, Zenon

(* Checks that are made in order find nothing or what one that fails says. *)
LEMMA OneOfThem ==
    ASSUME NEW list, NEW n \in Nat, DOMAIN list = 1..n
    PROVE  \/ FirstFailure(list) = ""
           \/ \E i \in 1..n : ~list[i][1] /\ FirstFailure(list) = list[i][2]
<1> DEFINE failed == {i \in DOMAIN list : ~list[i][1]}
<1>1. FirstFailure(list) = IF failed = {} THEN "" ELSE list[Min(failed)][2]
  BY DEF FirstFailure
<1>2. \A i : i \in failed <=> i \in 1..n /\ ~list[i][1]
  BY Zenon
<1>3. failed \in SUBSET Nat
  <2>1. \A i \in 1..n : i \in Nat
    OBVIOUS
  <2> QED BY <1>2, <2>1, Zenon
<1> HIDE DEF failed
<1>4. failed # {} => Min(failed) \in failed
  BY <1>3, LeastFailed
<1> QED BY <1>1, <1>2, <1>4, Zenon

-----------------------------------------------------------------------------
(* The places of a short list.                                             *)
LEMMA UpTo6 == \A i \in 1..6 : i \in {1, 2, 3, 4, 5, 6}
  OBVIOUS

LEMMA UpTo16 == \A i \in 1..16 : i \in {1, 2, 3, 4, 5, 6, 7, 8, 9, 10, 11, 12, 13, 14, 15, 16}
  OBVIOUS

LEMMA UpTo8 == \A i \in 1..8 : i \in {1, 2, 3, 4, 5, 6, 7, 8}
  OBVIOUS

(* A document that Load accepts has passed all of its checks.              *)
LEMMA LoadIs ==
    ASSUME NEW d
    PROVE  Load(d) = "" =>
           /\ d.file # "unreadable" /\ d.file # "oversize" /\ d.file # "malformed"
           /\ d.file # "two documents"
           /\ d.aliases = {} /\ d.interpolated \cup d.unknown \cup d.repeated = {}
           /\ d.version = 1 /\ d.hasStore /\ ValidKind(d.store.kind)
           /\ ValidRequest(d.policy) /\ ValidResources(d)
<1> DEFINE c1 == <<d.file # "unreadable", "configuration file is unreadable">>
           c2 == <<d.file # "oversize", "configuration exceeds 1 MiB">>
           c3 == <<d.file # "malformed" /\ d.aliases = {}, "configuration YAML is invalid">>
           c4 == <<d.file # "two documents", "configuration must contain exactly one document">>
           c5 == <<d.interpolated \cup d.unknown \cup d.repeated = {}, "configuration YAML is invalid">>
           c6 == <<d.version = 1, "version must be 1">>
           c7 == <<d.hasStore, "store is required">>
           c8 == <<DOMAIN d.connectors # {}, "connectors must contain at least one instance">>
           c9 == <<DOMAIN d.workspaceProviders # {}, "workspace_providers must contain at least one instance">>
           c10 == <<DOMAIN d.agentRuntimes # {}, "agent_runtimes must contain at least one instance">>
           c11 == <<ValidKind(d.store.kind), "store kind is missing or invalid">>
           c12 == <<ValidInstances(d.connectors), "connectors is invalid">>
           c13 == <<ValidInstances(d.workspaceProviders), "workspace_providers is invalid">>
           c14 == <<ValidInstances(d.agentRuntimes), "agent_runtimes is invalid">>
           c15 == <<ValidRequest(d.policy), "configuration YAML is invalid">>
           c16 == <<ValidResources(d), "resources is invalid">>
           list == <<c1, c2, c3, c4>> \o <<c5, c6, c7, c8, c9, c10, c11, c12, c13, c14, c15, c16>>
<1>1. Load(d) = "" => FirstFailure(list) = ""
  BY Zenon DEF Load, RootChecks
<1>2. /\ c1[2] # "" /\ c2[2] # "" /\ c3[2] # "" /\ c4[2] # ""
      /\ c5[2] # "" /\ c6[2] # "" /\ c7[2] # "" /\ c8[2] # ""
      /\ c9[2] # "" /\ c10[2] # "" /\ c11[2] # "" /\ c12[2] # ""
      /\ c13[2] # "" /\ c14[2] # "" /\ c15[2] # "" /\ c16[2] # ""
  OBVIOUS
<1>3. /\ c1[1] => d.file # "unreadable"
      /\ c2[1] => d.file # "oversize"
      /\ c3[1] => d.file # "malformed" /\ d.aliases = {}
      /\ c4[1] => d.file # "two documents"
      /\ c5[1] => d.interpolated \cup d.unknown \cup d.repeated = {}
      /\ c6[1] => d.version = 1
      /\ c7[1] => d.hasStore
      /\ c11[1] => ValidKind(d.store.kind)
      /\ c15[1] => ValidRequest(d.policy)
      /\ c16[1] => ValidResources(d)
  OBVIOUS
<1> HIDE DEF c1, c2, c3, c4, c5, c6, c7, c8, c9, c10, c11, c12, c13, c14, c15, c16
<1>4. DOMAIN list = 1..16
  OBVIOUS
<1>5. /\ list[1] = c1 /\ list[2] = c2 /\ list[3] = c3 /\ list[4] = c4
      /\ list[5] = c5 /\ list[6] = c6 /\ list[7] = c7 /\ list[8] = c8
      /\ list[9] = c9 /\ list[10] = c10 /\ list[11] = c11 /\ list[12] = c12
      /\ list[13] = c13 /\ list[14] = c14 /\ list[15] = c15 /\ list[16] = c16
  OBVIOUS
<1> HIDE DEF list
<1>6. \A i \in 1..16 : list[i][2] # ""
  BY <1>2, <1>5, UpTo16
<1>7. FirstFailure(list) = "" => \A i \in 1..16 : list[i][1]
  BY <1>4, <1>6, NoneFails
<1>8. (\A i \in 1..16 : list[i][1]) => c1[1] /\ c2[1] /\ c3[1] /\ c4[1] /\ c5[1] /\ c6[1] /\ c7[1] /\ c11[1] /\ c15[1] /\ c16[1]
  BY <1>5
<1> QED BY <1>1, <1>3, <1>7, <1>8, Zenon

(* So has a repository configuration that DecodeRepository accepts.        *)
LEMMA DecodeIs ==
    ASSUME NEW profile
    PROVE  DecodeRepository(profile) = "" =>
           ValidRequest(profile.policy)
<1> DEFINE c1 == <<profile.wellFormed, "configuration YAML is invalid">>
           c2 == <<profile.version = 1, "repository configuration version must be 1">>
           c3 == <<\A i \in DOMAIN profile.instructions :
                     ValidInstructionPath(profile.instructions[i]), "invalid instruction path">>
           c4 == <<NoDuplicates(profile.instructions), "duplicate instruction path">>
           c5 == <<ValidRequest(profile.policy), "invalid policy">>
           c6 == <<ValidValidation(profile.validation), "validation is invalid">>
           list == <<c1, c2, c3, c4, c5, c6>>
<1>1. DecodeRepository(profile) = "" => FirstFailure(list) = ""
  BY Zenon DEF DecodeRepository
<1>2. /\ c1[2] # "" /\ c2[2] # "" /\ c3[2] # "" /\ c4[2] # ""
      /\ c5[2] # "" /\ c6[2] # ""
  OBVIOUS
<1>3. /\ c5[1] => ValidRequest(profile.policy)
  OBVIOUS
<1> HIDE DEF c1, c2, c3, c4, c5, c6
<1>4. DOMAIN list = 1..6
  OBVIOUS
<1>5. /\ list[1] = c1 /\ list[2] = c2 /\ list[3] = c3 /\ list[4] = c4
      /\ list[5] = c5 /\ list[6] = c6
  OBVIOUS
<1> HIDE DEF list
<1>6. \A i \in 1..6 : list[i][2] # ""
  BY <1>2, <1>5, UpTo6
<1>7. FirstFailure(list) = "" => \A i \in 1..6 : list[i][1]
  BY <1>4, <1>6, NoneFails
<1>8. (\A i \in 1..6 : list[i][1]) => c5[1]
  BY <1>5
<1> QED BY <1>1, <1>3, <1>7, <1>8, Zenon

(* What Load accepts LoadStore accepts, but for one thing: the version must *)
(* be a key of the document itself.                                        *)
LEMMA StoreLoads ==
    ASSUME NEW d, IsDocument(d)
    PROVE  Load(d) = "" =>
             LoadStore(d) = IF d.versionKey = "merged" THEN "configuration YAML is invalid" ELSE ""
<1> DEFINE bad == d.aliases \cup d.interpolated \cup d.unknown \cup d.repeated
           c1 == <<d.file # "unreadable", "configuration file is unreadable">>
           c2 == <<d.file # "oversize", "configuration exceeds 1 MiB">>
           c3 == <<d.file # "malformed" /\ {} = {}, "configuration YAML is invalid">>
           c4 == <<d.file # "two documents", "configuration must contain exactly one document">>
           c5 == <<d.versionKey = "plain" /\ d.hasStore, "configuration YAML is invalid">>
           c6 == <<"projection" \notin bad, "configuration YAML is invalid">>
           c7 == <<d.version = 1, "version must be 1">>
           c8 == <<ValidKind(d.store.kind), "store kind is missing or invalid">>
           list == <<c1, c2, c3, c4>> \o <<c5, c6, c7, c8>>
           plain == d.versionKey = "plain"
<1>1. LoadStore(d) = FirstFailure(list)
  BY Zenon DEF LoadStore, RootChecks
<1>2. Load(d) = "" => "projection" \notin bad
  <2>1. d.aliases = {} /\ d.interpolated \cup d.unknown \cup d.repeated = {} => "projection" \notin bad
    OBVIOUS
  <2> QED BY <2>1, LoadIs, Zenon
<1>3. Load(d) = "" => /\ d.file # "unreadable" /\ d.file # "oversize" /\ d.file # "malformed"
                      /\ d.file # "two documents" /\ d.version = 1 /\ d.hasStore
                      /\ ValidKind(d.store.kind)
  BY LoadIs, Zenon
<1>4. /\ d.versionKey \in {"plain", "merged", "none"}
      /\ d.versionKey = "none" => d.version = 0
  BY Zenon DEF IsDocument
<1>5. Load(d) = "" => (plain <=> d.versionKey # "merged")
  <2>1. \A key : key \in {"plain", "merged", "none"} /\ key # "none" =>
          (key = "plain" <=> key # "merged")
    OBVIOUS
  <2>2. d.version = 1 => d.version # 0
    OBVIOUS
  <2> QED BY <1>3, <1>4, <2>1, <2>2, Zenon
<1> HIDE DEF bad
<1>6. Load(d) = "" => /\ c1[1] /\ c2[1] /\ c3[1] /\ c4[1]
                      /\ c6[1] /\ c7[1] /\ c8[1] /\ (plain <=> c5[1])
  BY <1>2, <1>3
<1>7. c5[2] = "configuration YAML is invalid"
  OBVIOUS
<1> HIDE DEF c1, c2, c3, c4, c5, c6, c7, c8, plain
<1>8. DOMAIN list = 1..8
  OBVIOUS
<1>9. /\ list[1] = c1 /\ list[2] = c2 /\ list[3] = c3 /\ list[4] = c4
      /\ list[5] = c5 /\ list[6] = c6 /\ list[7] = c7 /\ list[8] = c8
  OBVIOUS
<1> HIDE DEF list
<1>10. Load(d) = "" /\ plain => \A i \in 1..8 : list[i][1]
  BY <1>6, <1>9, UpTo8
<1>11. (\A i \in 1..8 : list[i][1]) => FirstFailure(list) = ""
  BY <1>8, FirstFailureIs
<1>12. Load(d) = "" /\ ~plain => ~list[5][1] /\ \A i \in 1..8 : i < 5 => list[i][1]
  <2>1. \A i \in 1..8 : i < 5 => i = 1 \/ i = 2 \/ i = 3 \/ i = 4
    OBVIOUS
  <2> QED BY <1>6, <1>9, <2>1, Zenon
<1>13. ~list[5][1] /\ (\A i \in 1..8 : i < 5 => list[i][1]) => FirstFailure(list) = list[5][2]
  <2>1. 5 \in 1..8
    OBVIOUS
  <2> QED BY <1>8, <2>1, FirstFailureIs, Zenon
<1> QED BY <1>1, <1>5, <1>7, <1>9, <1>10, <1>11, <1>12, <1>13, Zenon

(* With a store that decodes, `task show` gets as far as opening it: all    *)
(* depends on the file.                                                    *)
LEMMA ShowOpens ==
    ASSUME NEW d, NEW db
    PROVE  /\ LoadStore(d) = "" /\ d.store.kind = "sqlite" /\ d.store.decodes =>
                (Show(d, db) = "" <=> OpensReadOnly(db))
           /\ LoadStore(d) # "" => Show(d, db) # ""
<1> DEFINE c1 == <<d.store.kind = "sqlite", "state store is unavailable">>
           c2 == <<d.store.decodes, "state store is unavailable">>
           c3 == <<OpensReadOnly(db), "state store is unavailable">>
           list == <<c1, c2, c3>>
<1>1. LoadStore(d) = "" => Show(d, db) = FirstFailure(list)
  BY Zenon DEF Show
<1>2. /\ d.store.kind = "sqlite" /\ d.store.decodes => c1[1] /\ c2[1]
      /\ OpensReadOnly(db) <=> c3[1]
      /\ c3[2] # ""
  OBVIOUS
<1> HIDE DEF c1, c2, c3
<1>3. DOMAIN list = 1..3
  OBVIOUS
<1>4. list[1] = c1 /\ list[2] = c2 /\ list[3] = c3
  OBVIOUS
<1> HIDE DEF list
<1>5. /\ list[1][1] /\ list[2][1] /\ ~list[3][1] => FirstFailure(list) = list[3][2]
      /\ list[1][1] /\ list[2][1] /\ list[3][1] => FirstFailure(list) = ""
  BY <1>3, FirstOfThree, Zenon
<1>6. LoadStore(d) # "" => Show(d, db) # ""
  BY Zenon DEF Show
<1> QED BY <1>1, <1>2, <1>4, <1>5, <1>6, Zenon

(* With a connector and a store that decode and a file that Open takes,     *)
(* `task submit` is refused only for the resource; it is refused whenever   *)
(* Open is.                                                                *)
LEMMA SubmitOpens ==
    ASSUME NEW d, NEW n \in DOMAIN d.resources, NEW db
    PROVE  LET connector == d.connectors[d.resources[n].connector]
           IN  /\ Load(d) = "" /\ connector.kind = "github" /\ connector.decodes
                  /\ d.store.decodes /\ Opens(db)
                  => Submit(d, n, db) \in
                       {"", "resource is unsupported", "resource configuration is invalid"}
               /\ Load(d) = "" /\ ~Opens(db) => Submit(d, n, db) # ""
<1> DEFINE resource == d.resources[n]
           connector == d.connectors[resource.connector]
           good == /\ connector.kind = "github" /\ connector.decodes /\ d.store.decodes
                   /\ Opens(db)
           c1 == <<resource.kind = "repository", "resource is unsupported">>
           c2 == <<connector.kind = "github", "resource is unsupported">>
           c3 == <<connector.decodes, "connector configuration is invalid">>
           c4 == <<resource.decodes, "resource configuration is invalid">>
           c5 == <<d.store.decodes, "state store is unavailable">>
           c6 == <<Opens(db), "state store is unavailable">>
           list == <<c1, c2, c3, c4, c5, c6>>
<1>1. Load(d) = "" => Submit(d, n, db) = FirstFailure(list)
  BY Zenon DEF Submit
<1>2. /\ c1[2] = "resource is unsupported" /\ c4[2] = "resource configuration is invalid"
      /\ good => c2[1] /\ c3[1] /\ c5[1] /\ c6[1]
  OBVIOUS
<1>3. /\ c1[2] # "" /\ c2[2] # "" /\ c3[2] # "" /\ c4[2] # "" /\ c5[2] # "" /\ c6[2] # ""
      /\ ~Opens(db) => ~c6[1]
  OBVIOUS
<1> HIDE DEF c1, c2, c3, c4, c5, c6
<1>4. DOMAIN list = 1..6
  OBVIOUS
<1>5. /\ list[1] = c1 /\ list[2] = c2 /\ list[3] = c3
      /\ list[4] = c4 /\ list[5] = c5 /\ list[6] = c6
  OBVIOUS
<1> HIDE DEF list, good
<1>6. good => \A i \in 1..6 : ~list[i][1] => i = 1 \/ i = 4
  BY <1>2, <1>5, UpTo6
<1>7. \/ FirstFailure(list) = ""
      \/ \E i \in 1..6 : ~list[i][1] /\ FirstFailure(list) = list[i][2]
  BY <1>4, OneOfThem
<1>8. good => FirstFailure(list) \in
                {"", "resource is unsupported", "resource configuration is invalid"}
  BY <1>2, <1>5, <1>6, <1>7
<1>9. \A i \in 1..6 : list[i][2] # ""
  BY <1>3, <1>5, UpTo6
<1>10. FirstFailure(list) = "" => list[6][1]
  <2>1. 6 \in Nat /\ 6 \in 1..6
    OBVIOUS
  <2> QED BY <1>4, <1>9, <2>1, NoneFails, Zenon
<1>11. ~Opens(db) => FirstFailure(list) # ""
  BY <1>3, <1>5, <1>10, Zenon
<1> QED BY <1>1, <1>8, <1>11, Zenon DEF good

-----------------------------------------------------------------------------
(* Trimming a trimmed path changes nothing.                                *)
LEMMA TrimAgain ==
    ASSUME NEW raw \in [segments : Seq(Segments), padded : BOOLEAN]
    PROVE  /\ TrimSpace(raw) \in [segments : Seq(Segments), padded : BOOLEAN]
           /\ TrimSpace(TrimSpace(raw)) = TrimSpace(raw)
           /\ TrimSpace(raw).segments = raw.segments
  BY DEF TrimSpace

(* The decoders normalise a request with NormalizeRequest and the task     *)
(* service normalises the result: the service never refuses it and stores  *)
(* what the decoder returned.                                              *)
THEOREM NormalizedAgain ==
    ASSUME NEW request, IsRequest(request), ValidRequest(request)
    PROVE  /\ ValidRequest(Normalized(request))
           /\ Normalized(Normalized(request)) = Normalized(request)
<1> DEFINE paths == request.protectedPaths
           trimmed == [i \in DOMAIN paths |-> TrimSpace(paths[i])]
<1>1. Normalized(request) = [actions |-> request.actions, protectedPaths |-> trimmed]
  BY DEF Normalized
<1>2. \A i \in DOMAIN paths : paths[i] \in [segments : Seq(Segments), padded : BOOLEAN]
  BY DEF IsRequest
<1>3. \A i \in DOMAIN paths : ValidProtectedPath(paths[i])
  BY DEF ValidRequest
<1>4. \A i \in DOMAIN paths : ValidProtectedPath(trimmed[i])
  BY <1>2, <1>3, TrimAgain DEF ValidProtectedPath
<1>5. \A i \in DOMAIN paths : TrimSpace(trimmed[i]) = trimmed[i]
  BY <1>2, TrimAgain
<1>6. NoDuplicates(trimmed)
  <2>1. \A i, j \in DOMAIN paths : trimmed[i] = trimmed[j] => i = j
    BY DEF ValidRequest, NoDuplicates
  <2>2. DOMAIN trimmed = DOMAIN paths
    OBVIOUS
  <2> QED
    BY <1>5, <2>1, <2>2 DEF NoDuplicates
<1>7. ValidRequest(Normalized(request))
  <2>1. \A name \in DOMAIN request.actions :
          ValidAction(name) /\ request.actions[name] \in Decisions
    BY DEF ValidRequest
  <2>2. Normalized(request).actions = request.actions
    BY <1>1
  <2>3. Normalized(request).protectedPaths = trimmed /\ DOMAIN trimmed = DOMAIN paths
    BY <1>1
  <2> QED
    BY <1>4, <1>6, <2>1, <2>2, <2>3 DEF ValidRequest
<1>8. [i \in DOMAIN trimmed |-> TrimSpace(trimmed[i])] = trimmed
  BY <1>5
<1> QED
  BY <1>1, <1>7, <1>8 DEF Normalized

(* Every path of a request is, trimmed, a path of what is made of it.      *)
LEMMA PathKept ==
    ASSUME NEW request, NEW path \in PathsOf(request)
    PROVE  TrimSpace(path) \in PathsOf(Normalized(request))
<1>1. PICK i \in DOMAIN request.protectedPaths : path = request.protectedPaths[i]
  BY DEF PathsOf
<1>2. /\ DOMAIN Normalized(request).protectedPaths = DOMAIN request.protectedPaths
      /\ Normalized(request).protectedPaths[i] = TrimSpace(path)
  BY <1>1 DEF Normalized
<1> QED BY <1>2 DEF PathsOf

(* Two requests that were accepted: what the service makes of both.        *)
LEMMA PolicyOfBoth ==
    ASSUME NEW one, NEW other, IsRequest(one), IsRequest(other),
           ValidRequest(one), ValidRequest(other)
    PROVE  LET policy == EffectivePolicy(Normalized(one), Normalized(other))
           IN  /\ ServiceAccepts(Normalized(one), Normalized(other))
               /\ \A path \in PathsOf(one) \cup PathsOf(other) :
                    TrimSpace(path) \in policy.protectedPaths
               /\ \A name \in DOMAIN policy.actions : policy.actions[name] = "deny"
<1> DEFINE policy == EffectivePolicy(Normalized(one), Normalized(other))
<1>1. ServiceAccepts(Normalized(one), Normalized(other))
  BY NormalizedAgain DEF ServiceAccepts
<1>2. policy = Resolve(Normalized(one), Normalized(other), {})
  BY NormalizedAgain DEF EffectivePolicy
<1>3. policy.protectedPaths = PathsOf(Normalized(one)) \cup PathsOf(Normalized(other))
  BY <1>2 DEF Resolve
<1>4. \A name \in DOMAIN policy.actions : policy.actions[name] = "deny"
  BY <1>2 DEF Resolve
<1> HIDE DEF policy
<1>5. ASSUME NEW path \in PathsOf(one) \cup PathsOf(other)
      PROVE  TrimSpace(path) \in policy.protectedPaths
  BY <1>3, PathKept
<1> QED BY <1>1, <1>4, <1>5 DEF policy

-----------------------------------------------------------------------------
(* A finite set of numbers can be listed in order: each number at the place *)
(* that counts the numbers up to it.                                       *)
LEMMA Listed ==
    ASSUME NEW S, S \subseteq Nat, IsFiniteSet(S)
    PROVE  /\ Cardinality(S) \in Nat
           /\ \E names \in [1..Cardinality(S) -> S] :
                \A i, j \in 1..Cardinality(S) : i < j => names[i] < names[j]
<1> DEFINE n == Cardinality(S)
           upTo(x) == {y \in S : y <= x}
           place == [x \in S |-> Cardinality(upTo(x))]
<1>1. n \in Nat
  BY FS_CardinalityType
<1>2. \A x \in S : /\ IsFiniteSet(upTo(x)) /\ Cardinality(upTo(x)) \in Nat
                   /\ Cardinality(upTo(x)) <= n
  <2> TAKE x \in S
  <2>1. upTo(x) \in SUBSET S
    OBVIOUS
  <2> QED BY <2>1, FS_Subset, FS_CardinalityType
<1>3. ASSUME NEW x \in S, NEW y \in S, x < y
      PROVE  Cardinality(upTo(x)) < Cardinality(upTo(y))
  <2>1. x \in Nat /\ y \in Nat
    OBVIOUS
  <2>2. upTo(x) \in SUBSET upTo(y)
    <3> SUFFICES ASSUME NEW z \in S, z <= x PROVE z <= y
      OBVIOUS
    <3>1. z \in Nat
      OBVIOUS
    <3> QED BY <1>3, <2>1, <3>1
  <2>3. y \in upTo(y) /\ y \notin upTo(x)
    BY <1>3, <2>1
  <2>4. Cardinality(upTo(x)) <= Cardinality(upTo(y))
        /\ (Cardinality(upTo(y)) = Cardinality(upTo(x)) => upTo(y) = upTo(x))
    BY <1>2, <2>2, FS_Subset
  <2>5. upTo(x) # upTo(y)
    BY <2>3, Zenon
  <2>6. Cardinality(upTo(x)) \in Nat /\ Cardinality(upTo(y)) \in Nat
    BY <1>2
  <2> HIDE DEF upTo
  <2> QED BY <2>4, <2>5, <2>6
<1>4. \A x \in S : Cardinality(upTo(x)) \in 1..n
  <2> TAKE x \in S
  <2>1. x \in upTo(x)
    OBVIOUS
  <2>2. Cardinality(upTo(x)) # 0
    BY <1>2, <2>1, FS_EmptySet
  <2> HIDE DEF upTo
  <2> QED BY <1>1, <1>2, <2>2
<1>5. \A x, y \in S : place[x] = place[y] => x = y
  <2> SUFFICES ASSUME NEW x \in S, NEW y \in S, place[x] = place[y] PROVE x = y
    OBVIOUS
  <2>0. place[x] = place[y]
    OBVIOUS
  <2>1. x \in Nat /\ y \in Nat
    OBVIOUS
  <2>2. ~(x < y) /\ ~(y < x)
    <3>1. place[x] = Cardinality(upTo(x)) /\ place[y] = Cardinality(upTo(y))
      OBVIOUS
    <3>2. Cardinality(upTo(x)) \in Nat /\ Cardinality(upTo(y)) \in Nat
      BY <1>2
    <3> HIDE DEF upTo, place
    <3>3. Cardinality(upTo(x)) = Cardinality(upTo(y))
      BY <2>0, <3>1
    <3>4. x < y => Cardinality(upTo(x)) < Cardinality(upTo(y))
      BY <1>3
    <3>5. y < x => Cardinality(upTo(y)) < Cardinality(upTo(x))
      BY <1>3
    <3> QED BY <3>2, <3>3, <3>4, <3>5
  <2> QED BY <2>1, <2>2
<1>6. place \in Injection(S, 1..n)
  BY <1>4, <1>5 DEF Injection, IsInjective
<1>7. IsFiniteSet(1..n) /\ Cardinality(1..n) = n
  BY <1>1, FS_Interval
<1>8. place \in Surjection(S, 1..n)
  BY <1>6, <1>7, FS_Injection
<1>9. \A i \in 1..n : \E x \in S : place[x] = i
  BY <1>8 DEF Surjection
<1> DEFINE names == [i \in 1..n |-> CHOOSE x \in S : place[x] = i]
<1>10. \A i \in 1..n : names[i] \in S /\ place[names[i]] = i
  BY <1>9
<1>11. ASSUME NEW i \in 1..n, NEW j \in 1..n, i < j
       PROVE  names[i] < names[j]
  <2>1. names[i] \in S /\ names[j] \in S /\ place[names[i]] = i /\ place[names[j]] = j
    BY <1>10
  <2> HIDE DEF names
  <2>2. names[i] \in Nat /\ names[j] \in Nat
    BY <2>1
  <2>3. i \in Nat /\ j \in Nat
    OBVIOUS
  <2>4. names[i] # names[j]
    BY <1>11, <2>1, <2>3
  <2>5. ~(names[j] < names[i])
    <3> SUFFICES ASSUME names[j] < names[i] PROVE FALSE
      OBVIOUS
    <3>1. Cardinality(upTo(names[j])) < Cardinality(upTo(names[i]))
      BY <1>3, <2>1
    <3>2. Cardinality(upTo(names[j])) = j /\ Cardinality(upTo(names[i])) = i
      BY <2>1
    <3> HIDE DEF upTo, place
    <3> QED BY <1>11, <2>3, <3>1, <3>2
  <2> QED BY <2>2, <2>4, <2>5
<1>12. names \in [1..n -> S]
  BY <1>10
<1> QED BY <1>1, <1>11, <1>12

(* So the names of a section are, each of them once.                       *)
LEMMA SortedNames ==
    ASSUME NEW instances, AreInstances(instances)
    PROVE  /\ Cardinality(DOMAIN instances) \in Nat
           /\ sortedNames(instances) \in [1..Cardinality(DOMAIN instances) -> DOMAIN instances]
           /\ \A i, j \in 1..Cardinality(DOMAIN instances) :
                sortedNames(instances)[i] = sortedNames(instances)[j] => i = j
<1> DEFINE S == DOMAIN instances
           n == Cardinality(S)
           names == sortedNames(instances)
<1>1. S \subseteq Nat /\ IsFiniteSet(S)
  BY DEF AreInstances
<1>2. /\ n \in Nat
      /\ \E list \in [1..n -> S] : \A i, j \in 1..n : i < j => list[i] < list[j]
  BY <1>1, Listed
<1>3. \E list \in [1..n -> S] : \A i, j \in DOMAIN list : i < j => list[i] < list[j]
  BY <1>2
<1>4. names \in [1..n -> S] /\ \A i, j \in DOMAIN names : i < j => names[i] < names[j]
  BY <1>3 DEF sortedNames
<1> HIDE DEF names
<1>5. ASSUME NEW i \in 1..n, NEW j \in 1..n, names[i] = names[j] PROVE i = j
  <2>1. i \in Nat /\ j \in Nat /\ names[i] \in Nat /\ names[j] \in Nat
    BY <1>1, <1>2, <1>4
  <2>2. ~(names[i] < names[j]) /\ ~(names[j] < names[i])
    BY <1>5, <2>1
  <2>3. ~(i < j) /\ ~(j < i)
    BY <1>4, <2>2
  <2> QED BY <2>1, <2>3
<1> QED BY <1>2, <1>4, <1>5 DEF names

-----------------------------------------------------------------------------
(* Two parts are joined: the elements of one, then those of the other.     *)
LEMMA TwoParts ==
    ASSUME NEW A, NEW r \in Seq(A), NEW s \in Seq(A), NEW a, NEW b, Len(r) = a, Len(s) = b
    PROVE    /\ r \o s \in Seq(A) /\ Len(r \o s) = a + b
             /\ \A i \in 1..a : (r \o s)[i] = r[i]
             /\ \A i \in 1..b : (r \o s)[a + i] = s[i]
<1>1. r \o s \in Seq(A)
  OBVIOUS
<1>2. Len(r \o s) = a + b
  OBVIOUS
<1>3. \A i \in 1..a : (r \o s)[i] = r[i]
  OBVIOUS
<1>4. \A i \in 1..b : (r \o s)[a + i] = s[i]
  OBVIOUS
<1> QED BY <1>1, <1>2, <1>3, <1>4

(* What a list that is joined of four parts, the last of one element, is.  *)
FromFour(list, a, b, c, r, s, t, u) ==
    /\ DOMAIN list = 1..(a + b + c + 1)
    /\ \A i \in 1..a : list[i] = r[i]
    /\ \A i \in 1..b : list[a + i] = s[i]
    /\ \A i \in 1..c : list[a + b + i] = t[i]
    /\ list[a + b + c + 1] = u

(* The parts of a list stay as they are when the list is joined of them.   *)
LEMMA FourParts ==
    ASSUME NEW A, NEW a \in Nat, NEW b \in Nat, NEW c \in Nat,
           NEW r \in Seq(A), NEW s \in Seq(A), NEW t \in Seq(A), NEW u \in A,
           Len(r) = a, Len(s) = b, Len(t) = c
    PROVE  FromFour(r \o s \o t \o <<u>>, a, b, c, r, s, t, u)
<1> DEFINE two == r \o s
           three == two \o t
           last == <<u>>
           list == three \o last
<1>1. last \in Seq(A) /\ Len(last) = 1 /\ last[1] = u
  OBVIOUS
<1> HIDE DEF last
<1>2. /\ two \in Seq(A) /\ Len(two) = a + b
      /\ \A i \in 1..a : two[i] = r[i]
      /\ \A i \in 1..b : two[a + i] = s[i]
  <2>1. two \in Seq(A)
    BY TwoParts
  <2>2. Len(two) = a + b
    BY TwoParts
  <2>3. \A i \in 1..a : two[i] = r[i]
    BY TwoParts
  <2>4. \A i \in 1..b : two[a + i] = s[i]
    BY TwoParts
  <2> QED BY <2>1, <2>2, <2>3, <2>4
<1> HIDE DEF two
<1>3. /\ three \in Seq(A) /\ Len(three) = a + b + c
      /\ \A i \in 1..(a + b) : three[i] = two[i]
      /\ \A i \in 1..c : three[a + b + i] = t[i]
  <2>1. two \in Seq(A) /\ t \in Seq(A)
    BY <1>2
  <2>2. ASSUME NEW n, NEW m, Len(two) = n, Len(t) = m
        PROVE  /\ three \in Seq(A) /\ Len(three) = n + m
               /\ \A i \in 1..n : three[i] = two[i]
               /\ \A i \in 1..m : three[n + i] = t[i]
    <3>1. three \in Seq(A)
      BY <2>1, <2>2, TwoParts
    <3>2. Len(three) = n + m
      BY <2>1, <2>2, TwoParts
    <3>3. \A i \in 1..n : three[i] = two[i]
      BY <2>1, <2>2, TwoParts
    <3>4. \A i \in 1..m : three[n + i] = t[i]
      BY <2>1, <2>2, TwoParts
    <3> QED BY <3>1, <3>2, <3>3, <3>4, Zenon
  <2> HIDE DEF three
  <2>3. Len(two) = a + b /\ Len(t) = c
    BY <1>2
  <2> QED BY <2>2, <2>3
<1> HIDE DEF three
<1>4. /\ list \in Seq(A) /\ Len(list) = a + b + c + 1
      /\ \A i \in 1..(a + b + c) : list[i] = three[i]
      /\ list[a + b + c + 1] = u
  <2>1. three \in Seq(A) /\ last \in Seq(A)
    BY <1>1, <1>3
  <2>2. ASSUME NEW n, NEW m, Len(three) = n, Len(last) = m
        PROVE  /\ list \in Seq(A) /\ Len(list) = n + m
               /\ \A i \in 1..n : list[i] = three[i]
               /\ \A i \in 1..m : list[n + i] = last[i]
    <3>1. list \in Seq(A)
      BY <2>1, <2>2, TwoParts
    <3>2. Len(list) = n + m
      BY <2>1, <2>2, TwoParts
    <3>3. \A i \in 1..n : list[i] = three[i]
      BY <2>1, <2>2, TwoParts
    <3>4. \A i \in 1..m : list[n + i] = last[i]
      BY <2>1, <2>2, TwoParts
    <3> QED BY <3>1, <3>2, <3>3, <3>4, Zenon
  <2> HIDE DEF list
  <2>3. Len(three) = a + b + c /\ Len(last) = 1
    BY <1>1, <1>3
  <2>4. /\ list \in Seq(A) /\ Len(list) = a + b + c + 1
        /\ \A i \in 1..(a + b + c) : list[i] = three[i]
        /\ \A i \in 1..1 : list[a + b + c + i] = last[i]
    BY <2>3, <2>2
  <2>5. 1 \in 1..1
    OBVIOUS
  <2> QED BY <1>1, <2>4, <2>5, Zenon
<1> HIDE DEF list
<1>5. \A i \in 1..a : i \in 1..(a + b) /\ i \in 1..(a + b + c)
  OBVIOUS
<1>6. \A i \in 1..b : a + i \in 1..(a + b) /\ a + i \in 1..(a + b + c)
  OBVIOUS
<1>7. \A i \in 1..c : a + b + i \in 1..(a + b + c)
  OBVIOUS
<1>8. \A i \in 1..a : list[i] = r[i]
  BY <1>2, <1>3, <1>4, <1>5
<1>9. \A i \in 1..b : list[a + i] = s[i]
  BY <1>2, <1>3, <1>4, <1>6
<1>10. \A i \in 1..c : list[a + b + i] = t[i]
  BY <1>3, <1>4, <1>7
<1>11. DOMAIN list = 1..(a + b + c + 1)
  BY <1>4
<1>12. FromFour(list, a, b, c, r, s, t, u)
  BY <1>4, <1>8, <1>9, <1>10, <1>11 DEF FromFour
<1> QED BY <1>12 DEF list, last, three, two

(* A function on 1..n is a list of length n.                               *)
LEMMA IsList ==
    ASSUME NEW A, NEW n \in Nat, NEW s \in [1..n -> A]
    PROVE  s \in Seq(A) /\ Len(s) = n
  OBVIOUS

(* The arithmetic of four parts.                                           *)
LEMMA PartOf ==
    ASSUME NEW a \in Nat, NEW b \in Nat, NEW c \in Nat
    PROVE  \A i \in 1..(a + b + c + 1) :
             \/ i \in 1..a
             \/ \E k \in 1..b : i = a + k
             \/ \E k \in 1..c : i = a + b + k
             \/ i = a + b + c + 1
<1> TAKE i \in 1..(a + b + c + 1)
<1>1. i \in Nat /\ 1 <= i /\ i <= a + b + c + 1
  OBVIOUS
<1>2. CASE i <= a
  BY <1>1, <1>2
<1>3. CASE a < i /\ i <= a + b
  <2>1. i - a \in 1..b /\ i = a + (i - a)
    BY <1>1, <1>3
  <2> QED BY <2>1
<1>4. CASE a + b < i /\ i <= a + b + c
  <2>1. i - (a + b) \in 1..c /\ i = a + b + (i - (a + b))
    BY <1>1, <1>4
  <2> QED BY <2>1
<1>5. CASE a + b + c < i
  BY <1>1, <1>5
<1> QED BY <1>1, <1>2, <1>3, <1>4, <1>5

(* One check for every instance of a section, in the order of the names.   *)
FromSection(list, section, instances, adapter) ==
    LET names == sortedNames(instances)
    IN  \A i \in 1..Cardinality(DOMAIN instances) :
          list[i] = CheckOf(section, names[i], instances[names[i]], adapter)

(* The checks of a section are made so.                                    *)
LEMMA SectionIs ==
    ASSUME NEW section, NEW instances, AreInstances(instances), NEW adapter, NEW A,
           \A n \in DOMAIN instances : CheckOf(section, n, instances[n], adapter) \in A
    PROVE  LET list == SectionChecks(section, instances, adapter)
           IN  /\ list \in Seq(A) /\ Len(list) = Cardinality(DOMAIN instances)
               /\ FromSection(list, section, instances, adapter)
<1> DEFINE n == Cardinality(DOMAIN instances)
           names == sortedNames(instances)
           list == SectionChecks(section, instances, adapter)
<1>1. n \in Nat /\ names \in [1..n -> DOMAIN instances]
  BY SortedNames
<1>2. list = [i \in 1..n |-> CheckOf(section, names[i], instances[names[i]], adapter)]
  BY <1>1 DEF SectionChecks
<1> HIDE DEF names, n, list
<1>3. \A i \in 1..n : names[i] \in DOMAIN instances
  BY <1>1
<1>4. list \in [1..n -> A]
  BY <1>2, <1>3
<1>5. list \in Seq(A) /\ Len(list) = n
  BY <1>1, <1>4, IsList
<1>6. \A i \in 1..n : list[i] = CheckOf(section, names[i], instances[names[i]], adapter)
  BY <1>2
<1>7. FromSection(list, section, instances, adapter)
  BY <1>6 DEF names, n, FromSection
<1> QED BY <1>5, <1>7 DEF n, list

(* The checks of a document: those of three sections and the store's.      *)
ChecksAre(d, list) ==
    LET a == Cardinality(DOMAIN d.connectors)
        b == Cardinality(DOMAIN d.workspaceProviders)
        c == Cardinality(DOMAIN d.agentRuntimes)
    IN  /\ a \in Nat /\ b \in Nat /\ c \in Nat
        /\ FromFour(list, a, b, c, SectionChecks("connector", d.connectors, "github"),
                    SectionChecks("workspace_provider", d.workspaceProviders, "docker"),
                    SectionChecks("agent_runtime", d.agentRuntimes, "omp"),
                    CheckOf("store", 0, d.store, "sqlite"))
        /\ FromSection(SectionChecks("connector", d.connectors, "github"),
                       "connector", d.connectors, "github")
        /\ FromSection(SectionChecks("workspace_provider", d.workspaceProviders, "docker"),
                       "workspace_provider", d.workspaceProviders, "docker")
        /\ FromSection(SectionChecks("agent_runtime", d.agentRuntimes, "omp"),
                       "agent_runtime", d.agentRuntimes, "omp")

(* So are the checks of a document.                                        *)
LEMMA ChecksOf ==
    ASSUME NEW d, IsDocument(d)
    PROVE  ChecksAre(d, LoadDoctor(d))
<1> DEFINE a == Cardinality(DOMAIN d.connectors)
           b == Cardinality(DOMAIN d.workspaceProviders)
           c == Cardinality(DOMAIN d.agentRuntimes)
           one == SectionChecks("connector", d.connectors, "github")
           two == SectionChecks("workspace_provider", d.workspaceProviders, "docker")
           three == SectionChecks("agent_runtime", d.agentRuntimes, "omp")
           store == CheckOf("store", 0, d.store, "sqlite")
           A == {CheckOf("connector", n, d.connectors[n], "github") : n \in DOMAIN d.connectors}
                \cup {CheckOf("workspace_provider", n, d.workspaceProviders[n], "docker") :
                        n \in DOMAIN d.workspaceProviders}
                \cup {CheckOf("agent_runtime", n, d.agentRuntimes[n], "omp") : n \in DOMAIN d.agentRuntimes}
                \cup {store}
<1>1. /\ AreInstances(d.connectors) /\ AreInstances(d.workspaceProviders)
      /\ AreInstances(d.agentRuntimes)
  BY DEF IsDocument
<1>2. a \in Nat /\ b \in Nat /\ c \in Nat
  BY <1>1, SortedNames
<1>3. /\ \A n \in DOMAIN d.connectors : CheckOf("connector", n, d.connectors[n], "github") \in A
      /\ \A n \in DOMAIN d.workspaceProviders :
           CheckOf("workspace_provider", n, d.workspaceProviders[n], "docker") \in A
      /\ \A n \in DOMAIN d.agentRuntimes : CheckOf("agent_runtime", n, d.agentRuntimes[n], "omp") \in A
      /\ store \in A
  OBVIOUS
<1> HIDE DEF A, store
<1>4. one \in Seq(A) /\ Len(one) = a /\ FromSection(one, "connector", d.connectors, "github")
  BY <1>1, <1>3, SectionIs
<1>5. /\ two \in Seq(A) /\ Len(two) = b
      /\ FromSection(two, "workspace_provider", d.workspaceProviders, "docker")
  BY <1>1, <1>3, SectionIs
<1>6. three \in Seq(A) /\ Len(three) = c /\ FromSection(three, "agent_runtime", d.agentRuntimes, "omp")
  BY <1>1, <1>3, SectionIs
<1>7. LoadDoctor(d) = one \o two \o three \o <<store>>
  BY Zenon DEF LoadDoctor, store
<1> HIDE DEF a, b, c, one, two, three
<1>8. FromFour(one \o two \o three \o <<store>>, a, b, c, one, two, three, store)
  BY <1>2, <1>3, <1>4, <1>5, <1>6, FourParts, Zenon
<1> QED
  BY <1>2, <1>4, <1>5, <1>6, <1>7, <1>8, Zenon
     DEF ChecksAre, a, b, c, one, two, three, store

(* The check at place i of the list is that of an instance, or the store's. *)
CheckAt(d, i, check) ==
    LET a == Cardinality(DOMAIN d.connectors)
        b == Cardinality(DOMAIN d.workspaceProviders)
        c == Cardinality(DOMAIN d.agentRuntimes)
        p == sortedNames(d.connectors)
        q == sortedNames(d.workspaceProviders)
        r == sortedNames(d.agentRuntimes)
    IN  \/ \E k \in 1..a : i = k /\ check = CheckOf("connector", p[k], d.connectors[p[k]], "github")
        \/ \E k \in 1..b : i = a + k /\ check =
             CheckOf("workspace_provider", q[k], d.workspaceProviders[q[k]], "docker")
        \/ \E k \in 1..c : i = a + b + k /\ check =
             CheckOf("agent_runtime", r[k], d.agentRuntimes[r[k]], "omp")
        \/ i = a + b + c + 1 /\ check = CheckOf("store", 0, d.store, "sqlite")

(* Every check of a document is at one of these places.                    *)
LEMMA EachCheck ==
    ASSUME NEW d, IsDocument(d), NEW i \in DOMAIN LoadDoctor(d)
    PROVE  CheckAt(d, i, LoadDoctor(d)[i])
<1> DEFINE a == Cardinality(DOMAIN d.connectors)
           b == Cardinality(DOMAIN d.workspaceProviders)
           c == Cardinality(DOMAIN d.agentRuntimes)
           p == sortedNames(d.connectors)
           q == sortedNames(d.workspaceProviders)
           r == sortedNames(d.agentRuntimes)
           one == SectionChecks("connector", d.connectors, "github")
           two == SectionChecks("workspace_provider", d.workspaceProviders, "docker")
           three == SectionChecks("agent_runtime", d.agentRuntimes, "omp")
           store == CheckOf("store", 0, d.store, "sqlite")
           list == LoadDoctor(d)
<1>1. /\ a \in Nat /\ b \in Nat /\ c \in Nat
      /\ FromFour(list, a, b, c, one, two, three, store)
      /\ FromSection(one, "connector", d.connectors, "github")
      /\ FromSection(two, "workspace_provider", d.workspaceProviders, "docker")
      /\ FromSection(three, "agent_runtime", d.agentRuntimes, "omp")
  BY ChecksOf, Zenon DEF ChecksAre
<1>2. \A k \in 1..a : one[k] = CheckOf("connector", p[k], d.connectors[p[k]], "github")
  BY <1>1, Zenon DEF FromSection
<1>3. \A k \in 1..b : two[k] = CheckOf("workspace_provider", q[k], d.workspaceProviders[q[k]], "docker")
  BY <1>1, Zenon DEF FromSection
<1>4. \A k \in 1..c : three[k] = CheckOf("agent_runtime", r[k], d.agentRuntimes[r[k]], "omp")
  BY <1>1, Zenon DEF FromSection
<1>5. /\ DOMAIN list = 1..(a + b + c + 1)
      /\ \A k \in 1..a : list[k] = one[k]
      /\ \A k \in 1..b : list[a + k] = two[k]
      /\ \A k \in 1..c : list[a + b + k] = three[k]
      /\ list[a + b + c + 1] = store
  BY <1>1, Zenon DEF FromFour
<1>6. i \in DOMAIN list
  OBVIOUS
<1> HIDE DEF a, b, c, p, q, r, one, two, three, store, list
<1>7. \/ i \in 1..a
      \/ \E k \in 1..b : i = a + k
      \/ \E k \in 1..c : i = a + b + k
      \/ i = a + b + c + 1
  <2>1. i \in 1..(a + b + c + 1)
    BY <1>5, <1>6, Zenon
  <2>2. a \in Nat /\ b \in Nat /\ c \in Nat
    BY <1>1
  <2> QED BY <2>1, <2>2, PartOf
<1>8. \/ \E k \in 1..a : i = k /\ list[i] = CheckOf("connector", p[k], d.connectors[p[k]], "github")
      \/ \E k \in 1..b : i = a + k /\ list[i] =
           CheckOf("workspace_provider", q[k], d.workspaceProviders[q[k]], "docker")
      \/ \E k \in 1..c : i = a + b + k /\ list[i] =
           CheckOf("agent_runtime", r[k], d.agentRuntimes[r[k]], "omp")
      \/ i = a + b + c + 1 /\ list[i] = store
  BY <1>2, <1>3, <1>4, <1>5, <1>7, Zenon
<1> QED BY <1>8, Zenon DEF CheckAt, a, b, c, p, q, r, store, list

(* The names of the checks tell the instances apart.                       *)
LEMMA IdsDiffer ==
    ASSUME NEW d, IsDocument(d), NEW i \in DOMAIN LoadDoctor(d), NEW j \in DOMAIN LoadDoctor(d),
           LoadDoctor(d)[i].id = LoadDoctor(d)[j].id
    PROVE  i = j
<1> DEFINE a == Cardinality(DOMAIN d.connectors)
           b == Cardinality(DOMAIN d.workspaceProviders)
           c == Cardinality(DOMAIN d.agentRuntimes)
           p == sortedNames(d.connectors)
           q == sortedNames(d.workspaceProviders)
           r == sortedNames(d.agentRuntimes)
           At(x, id) == \/ \E k \in 1..a : x = k /\ id = <<"connector", p[k]>>
                        \/ \E k \in 1..b : x = a + k /\ id = <<"workspace_provider", q[k]>>
                        \/ \E k \in 1..c : x = a + b + k /\ id = <<"agent_runtime", r[k]>>
                        \/ x = a + b + c + 1 /\ id = <<"store", 0>>
<1>1. \A x \in DOMAIN LoadDoctor(d) : At(x, LoadDoctor(d)[x].id)
  <2> SUFFICES ASSUME NEW x \in DOMAIN LoadDoctor(d) PROVE At(x, LoadDoctor(d)[x].id)
    OBVIOUS
  <2>1. CheckAt(d, x, LoadDoctor(d)[x])
    BY EachCheck
  <2>2. \A section, n, instance, adapter : CheckOf(section, n, instance, adapter).id = <<section, n>>
    BY DEF CheckOf
  <2> DEFINE check == LoadDoctor(d)[x]
  <2> HIDE DEF check
  <2>3. CASE \E k \in 1..a : x = k /\ check = CheckOf("connector", p[k], d.connectors[p[k]], "github")
    <3>1. PICK k \in 1..a : x = k /\ check = CheckOf("connector", p[k], d.connectors[p[k]], "github")
      BY <2>3, Zenon
    <3>2. check.id = <<"connector", p[k]>>
      BY <2>2, <3>1
    <3> QED BY <3>1, <3>2, Zenon DEF check
  <2>4. CASE \E k \in 1..b : x = a + k /\ check =
               CheckOf("workspace_provider", q[k], d.workspaceProviders[q[k]], "docker")
    <3>1. PICK k \in 1..b : x = a + k /\ check =
                   CheckOf("workspace_provider", q[k], d.workspaceProviders[q[k]], "docker")
      BY <2>4, Zenon
    <3>2. check.id = <<"workspace_provider", q[k]>>
      BY <2>2, <3>1
    <3> QED BY <3>1, <3>2, Zenon DEF check
  <2>5. CASE \E k \in 1..c : x = a + b + k /\ check =
               CheckOf("agent_runtime", r[k], d.agentRuntimes[r[k]], "omp")
    <3>1. PICK k \in 1..c : x = a + b + k /\ check =
                   CheckOf("agent_runtime", r[k], d.agentRuntimes[r[k]], "omp")
      BY <2>5, Zenon
    <3>2. check.id = <<"agent_runtime", r[k]>>
      BY <2>2, <3>1
    <3> QED BY <3>1, <3>2, Zenon DEF check
  <2>6. CASE x = a + b + c + 1 /\ check = CheckOf("store", 0, d.store, "sqlite")
    <3>1. check.id = <<"store", 0>>
      BY <2>2, <2>6
    <3> QED BY <2>6, <3>1, Zenon DEF check
  <2> QED BY <2>1, <2>3, <2>4, <2>5, <2>6, Zenon DEF CheckAt, check
<1>2. /\ \A k, l \in 1..a : p[k] = p[l] => k = l
      /\ \A k, l \in 1..b : q[k] = q[l] => k = l
      /\ \A k, l \in 1..c : r[k] = r[l] => k = l
  BY SortedNames, Zenon DEF IsDocument
<1> HIDE DEF a, b, c, p, q, r
<1>3. PICK id : At(i, id) /\ At(j, id)
  <2> HIDE DEF At
  <2>1. At(i, LoadDoctor(d)[i].id) /\ At(j, LoadDoctor(d)[i].id)
    BY <1>1
  <2> QED BY <2>1, Zenon
<1>4. CASE \E k \in 1..a : i = k /\ id = <<"connector", p[k]>>
  BY <1>2, <1>3, <1>4
<1>5. CASE \E k \in 1..b : i = a + k /\ id = <<"workspace_provider", q[k]>>
  BY <1>2, <1>3, <1>5
<1>6. CASE \E k \in 1..c : i = a + b + k /\ id = <<"agent_runtime", r[k]>>
  BY <1>2, <1>3, <1>6
<1>7. CASE i = a + b + c + 1 /\ id = <<"store", 0>>
  BY <1>3, <1>7
<1> QED BY <1>3, <1>4, <1>5, <1>6, <1>7

(* What the line of an id says of the instance of that id.                 *)
LEMMA CheckOfId ==
    ASSUME NEW d, IsDocument(d), NEW i \in DOMAIN LoadDoctor(d), LoadDoctor(d)[i].kind # "failed"
    PROVE  /\ LoadDoctor(d)[i].id = <<"store", 0>> =>
                d.store.kind = "sqlite" /\ d.store.decodes /\ LoadDoctor(d)[i].kind = "sqlite"
           /\ \A n : LoadDoctor(d)[i].id = <<"connector", n>> =>
                d.connectors[n].kind = "github" /\ d.connectors[n].decodes
<1> DEFINE check == LoadDoctor(d)[i]
<1>1. PICK section, n, instance, adapter :
        /\ check = CheckOf(section, n, instance, adapter)
        /\ section = "store" => instance = d.store /\ adapter = "sqlite"
        /\ section = "connector" => instance = d.connectors[n] /\ adapter = "github"
  <2>1. CheckAt(d, i, check)
    BY EachCheck
  <2>2. "agent_runtime" # "store" /\ "agent_runtime" # "connector"
        /\ "workspace_provider" # "store" /\ "workspace_provider" # "connector"
        /\ "store" # "connector"
    OBVIOUS
  <2> HIDE DEF check
  <2> QED BY <2>1, <2>2, Zenon DEF CheckAt
<1>2. check.kind # "failed"
  OBVIOUS
<1> HIDE DEF check
<1>3. /\ check.id = <<section, n>> /\ check.kind = adapter
      /\ instance.kind = adapter /\ instance.decodes
  BY <1>1, <1>2 DEF CheckOf
<1>4. check.id = <<"store", 0>> =>
        d.store.kind = "sqlite" /\ d.store.decodes /\ check.kind = "sqlite"
  BY <1>1, <1>3
<1>5. ASSUME NEW m, check.id = <<"connector", m>>
      PROVE  d.connectors[m].kind = "github" /\ d.connectors[m].decodes
  BY <1>1, <1>3, <1>5
<1> QED BY <1>4, <1>5 DEF check
=============================================================================
