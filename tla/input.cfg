CONSTANTS
    Limit = 3
    MaxLength = 5
    Contents <- AllContents
    Sources = {"inline", "stdin", "file"}
    Stdins = {"interruptible", "blocking"}
    Appended = {"x", "lf"}
SPECIFICATION FairSpec
INVARIANTS
    TypeOK
    Stable
    NeverTruncated
    RefusedForCause
    NoReaderLeft
PROPERTIES
    CancelledReturns
