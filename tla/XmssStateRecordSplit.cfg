\* A key file that is put back from a backup, with the used-index record on; the
\* key may be split into sectors.
SPECIFICATION RecordedSpec
CONSTANTS
    r1 = r1
    r2 = r2
    ka = ka
    kb = kb
    sf = sf
    Runs = {r1, r2}
    KeyFiles = {ka, kb}
    StateFiles = {sf}
    KeyOf <- StateOverKey
    Original = ka
    MovedTo = sf
    Parts = 2
    OwnSector <- OwnHalf
    NeedsOf <- Needs
    Capacity = 4
    MaxBlock = 1
    FirstIndex = 0
    NoRun = NoRun
    NoPlace = NoPlace
PROPERTIES NeverBackFromRecord
SYMMETRY Symmetric
