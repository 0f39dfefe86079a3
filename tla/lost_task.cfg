CONSTANTS
    s1 = s1
    s2 = s2
    r1 = r1
    f1 = f1
    f2 = f2
    Submitters = {s1, s2}
    Readers = {r1}
    Files = {f1, f2}
    NoFile = NoFile
    NoProc = NoProc
    NoJournal = NoJournal
    NoTask = NoTask
    NoDraft = NoDraft
    Wanted <- MCWanted
    TaskIDs <- MCTaskIDs
    ResourceIDs <- MCResourceIDs
    Names <- MCNames
    Connectors <- MCConnectors
    Identities <- MCIdentities
    Materials <- MCMaterials
    Payloads <- MCPayloads
    Times <- MCTimes
    Offers <- MCOffers
    Seeds <- MCSeeds
    InitialFiles = {"absent"}
    Faults <- NoFaults
SPECIFICATION Spec
INVARIANTS
    ReportedDurable
