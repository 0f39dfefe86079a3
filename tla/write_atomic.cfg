SPECIFICATION Spec
CONSTANTS
    zip = zip
    spdx = spdx
    sums = sums
    a1 = a1
    a2 = a2
    c1 = c1
    Artefacts = {zip, spdx}
    Sums = sums
    Archivers = {a1, a2}
    Summers = {c1}
    Output <- SameName
    Length = 1
SYMMETRY Archives
INVARIANTS
    TypeOK
    OutputComplete
    DigestsWhole
    NoLeftover
