CONSTANTS
    w1 = w1
    w2 = w2
    w3 = w3
    r1 = r1
    Writers = {w1, w2, w3}
    Readers = {r1}
    NoCaller = NoCaller
    NoDraft = NoDraft
    NoResource = NoResource
    NoTask = NoTask
    NoEntry = NoEntry
    TaskIDs = {"t1", "t2"}
    ResourceIDs = {"R1", "R2", "R3", "R4"}
    Names = {"api", "web"}
    Connectors = {"gh"}
    Identities = {101, 102}
    Materials = {"v1", "v2", "v3"}
    Payloads = {"p"}
    Times = {1, 2}
    Offers <- MCOffers
    Wanted <- MCWanted
SPECIFICATION FairSpec
INVARIANTS
    HistoryOfTask
    ResourceBacked
PROPERTIES
    Contract
    Returns
