---------------------------- MODULE Configuration ----------------------------
(***************************************************************************)
(* The deployment document and what the three commands make of it: `doctor` *)
(* and `task submit` load all of it, `task show` only its version and       *)
(* store.  A document is what the checks tell apart: for each kind of YAML  *)
(* defect whether it is in the part `task show` reads or in the rest, and   *)
(* the decoded sections; a database is what the checks of the file at the   *)
(* store's path tell apart.  Instance names are numbers in the order of     *)
(* sort.Strings, 0 a name that instanceNamePattern refuses.                 *)
(***************************************************************************)
EXTENDS Policy, FiniteSetsExt

(* version and store; everything else                                       *)
Places == {"projection", "rest"}

Kinds == {"github", "docker", "omp", "sqlite", "repository", "unknown", "Bad"}

(* decodes: config.Decode accepts the instance's own configuration.         *)
Instance == [kind : Kinds, decodes : BOOLEAN]

AreInstances(f) ==
    IsFiniteSet(DOMAIN f) /\ \A n \in DOMAIN f : n \in Nat /\ f[n] \in Instance

(* versionKey: version is a key of the document, comes with a YAML merge    *)
(* key only, or is not there at all.                                        *)
IsDocument(d) ==
    /\ d.file \in {"ok", "unreadable", "oversize", "malformed", "two documents"}
    /\ {d.aliases, d.interpolated, d.unknown, d.repeated} \subseteq SUBSET Places
    /\ d.version \in Nat /\ d.versionKey \in {"plain", "merged", "none"}
    /\ d.versionKey = "none" => d.version = 0
    /\ d.hasStore \in BOOLEAN /\ d.store \in Instance
    /\ AreInstances(d.connectors)
    /\ AreInstances(d.workspaceProviders)
    /\ AreInstances(d.agentRuntimes)
    /\ \A n \in DOMAIN d.resources :
         n \in Nat /\ d.resources[n] \in [kind : Kinds, connector : Nat,
                                         mapping : BOOLEAN, decodes : BOOLEAN]
    /\ IsRequest(d.policy)

ValidName(n) == n # 0
ValidKind(kind) == kind # "Bad"

(* Checks are made in order; the reason of the first that fails, or "".     *)
FirstFailure(checks) ==
    LET failed == {i \in DOMAIN checks : ~checks[i][1]}
    IN  IF failed = {} THEN "" ELSE checks[Min(failed)][2]

ValidInstances(instances) ==
    \A n \in DOMAIN instances : ValidName(n) /\ ValidKind(instances[n].kind)

ValidResources(d) ==
    \A n \in DOMAIN d.resources :
        /\ ValidName(n)
        /\ ValidKind(d.resources[n].kind)
        /\ d.resources[n].connector \in DOMAIN d.connectors
        /\ d.resources[n].mapping

(* readRoot and decodeSingleDocument, common to both loaders.               *)
RootChecks(d, aliases) ==
    << <<d.file # "unreadable", "configuration file is unreadable">>,
       <<d.file # "oversize", "configuration exceeds 1 MiB">>,
       <<d.file # "malformed" /\ aliases = {}, "configuration YAML is invalid">>,
       <<d.file # "two documents", "configuration must contain exactly one document">> >>

(* Load: the strict decoder refuses unknown fields and repeated keys.  A    *)
(* missing section is an empty one, and a reason names only the section.    *)
Load(d) ==
    FirstFailure(RootChecks(d, d.aliases) \o
      << <<d.interpolated \cup d.unknown \cup d.repeated = {}, "configuration YAML is invalid">>,
         <<d.version = 1, "version must be 1">>,
         <<d.hasStore, "store is required">>,
         <<DOMAIN d.connectors # {}, "connectors must contain at least one instance">>,
         <<DOMAIN d.workspaceProviders # {}, "workspace_providers must contain at least one instance">>,
         <<DOMAIN d.agentRuntimes # {}, "agent_runtimes must contain at least one instance">>,
         <<ValidKind(d.store.kind), "store kind is missing or invalid">>,
         <<ValidInstances(d.connectors), "connectors is invalid">>,
         <<ValidInstances(d.workspaceProviders), "workspace_providers is invalid">>,
         <<ValidInstances(d.agentRuntimes), "agent_runtimes is invalid">>,
         <<ValidRequest(d.policy), "configuration YAML is invalid">>,
         <<ValidResources(d), "resources is invalid">> >>)

(* LoadStore: only the version and the store have to be right, as keys of   *)
(* the document itself: it does not look into a merge key.                  *)
LoadStore(d) ==
    LET bad == d.aliases \cup d.interpolated \cup d.unknown \cup d.repeated
    IN  FirstFailure(RootChecks(d, {}) \o
          << <<d.versionKey = "plain" /\ d.hasStore, "configuration YAML is invalid">>,
             <<"projection" \notin bad, "configuration YAML is invalid">>,
             <<d.version = 1, "version must be 1">>,
             <<ValidKind(d.store.kind), "store kind is missing or invalid">> >>)

-----------------------------------------------------------------------------
(* What may be at the store's path.  "foreign" is any version and schema    *)
(* but an empty database and the one of this program; "denied" a file that  *)
(* cannot be looked at; "broad" a state file others may access.             *)
Databases ==
    {"no path", "missing", "denied", "irregular", "no database", "broad", "wal",
     "foreign", "empty", "hot journal", "state"}

(* Open succeeds: the checks of the file, of the journal mode and of the    *)
(* schema.  It creates a missing file, migrates an empty database and       *)
(* restores the journal a crash has left.                                   *)
Opens(db) ==
    db \notin {"no path", "denied", "irregular", "no database", "broad", "wal", "foreign"}

(* OpenReadOnly makes the same checks and does none of this.                *)
OpensReadOnly(db) == Opens(db) /\ db \notin {"missing", "empty", "hot journal"}

(* submitTask up to and with the opening of the store, for resource n.      *)
Submit(d, n, db) ==
    IF Load(d) # "" THEN Load(d)
    ELSE IF n \notin DOMAIN d.resources THEN "resource is not configured"
    ELSE LET resource == d.resources[n]
             connector == d.connectors[resource.connector]
         IN  FirstFailure(
               << <<resource.kind = "repository", "resource is unsupported">>,
                  <<connector.kind = "github", "resource is unsupported">>,
                  <<connector.decodes, "connector configuration is invalid">>,
                  <<resource.decodes, "resource configuration is invalid">>,
                  <<d.store.decodes, "state store is unavailable">>,
                  <<Opens(db), "state store is unavailable">> >>)

(* showTask up to and with the opening of the store.                        *)
Show(d, db) ==
    IF LoadStore(d) # "" THEN LoadStore(d)
    ELSE FirstFailure(<< <<d.store.kind = "sqlite", "state store is unavailable">>,
                         <<d.store.decodes, "state store is unavailable">>,
                         <<OpensReadOnly(db), "state store is unavailable">> >>)

-----------------------------------------------------------------------------
(* DecodeRepository: .delegatd.yaml, whose YAML is well formed or not.  The *)
(* name, the command and the timeout of a validation are right or not.      *)
ValidValidation(validation) ==
    /\ \A i \in DOMAIN validation : validation[i].name # "Bad" /\ validation[i].usable
    /\ \A i, j \in DOMAIN validation : validation[i].name = validation[j].name => i = j

DecodeRepository(profile) ==
    FirstFailure(
      << <<profile.wellFormed, "configuration YAML is invalid">>,
         <<profile.version = 1, "repository configuration version must be 1">>,
         <<\A i \in DOMAIN profile.instructions :
             ValidInstructionPath(profile.instructions[i]), "invalid instruction path">>,
         <<NoDuplicates(profile.instructions), "duplicate instruction path">>,
         <<ValidRequest(profile.policy), "invalid policy">>,
         <<ValidValidation(profile.validation), "validation is invalid">> >>)

(* SubmitManualRepository normalises both requests, which their documents'  *)
(* decoders have normalised before; the policy it then stores.  No task     *)
(* source grants anything yet.                                              *)
ServiceAccepts(operator, repository) == ValidRequest(repository) /\ ValidRequest(operator)

EffectivePolicy(operator, repository) ==
    Resolve(Normalized(operator), Normalized(repository), {})

-----------------------------------------------------------------------------
(* Seeded fault: the error of the store's own configuration is dropped.     *)
CheckOfKind(section, n, instance, adapter) ==
    [id |-> <<section, n>>,
     kind |-> IF instance.kind = adapter /\ (instance.decodes \/ section = "store")
              THEN adapter ELSE "failed"]

(* One check of a section: the adapter's probe, or a check that fails.      *)
CheckOf(section, n, instance, adapter) ==
    [id |-> <<section, n>>,
     kind |-> IF instance.kind = adapter /\ instance.decodes THEN adapter ELSE "failed"]

sortedNames(instances) ==
    CHOOSE names \in [1..Cardinality(DOMAIN instances) -> DOMAIN instances] :
        \A i, j \in DOMAIN names : i < j => names[i] < names[j]

SectionChecks(section, instances, adapter) ==
    LET names == sortedNames(instances)
    IN  [i \in DOMAIN names |-> CheckOf(section, names[i], instances[names[i]], adapter)]

(* LoadDoctor: one check for every instance, in the order of the report.    *)
LoadDoctor(d) ==
    SectionChecks("connector", d.connectors, "github")
    \o SectionChecks("workspace_provider", d.workspaceProviders, "docker")
    \o SectionChecks("agent_runtime", d.agentRuntimes, "omp")
    \o <<CheckOf("store", 0, d.store, "sqlite")>>
=============================================================================
