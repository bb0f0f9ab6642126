\* A session signs at any time, also while a run is between reading the record
\* and reserving its block.
SPECIFICATION RaceSpec
CONSTANTS
    r1 = r1
    r2 = r2
    ka = ka
    kb = kb
    sf = sf
    Runs = {r1, r2}
    KeyFiles = {ka}
    StateFiles = {sf}
    KeyOf <- StateOverKey
    Original = ka
    MovedTo = sf
    Parts = 2
    OwnSector <- OwnHalf
    NeedsOf <- Needs
    Capacity = 4
    MaxBlock = 1
    FirstIndex = 0
    NoRun = NoRun
    NoPlace = NoPlace
PROPERTIES BlockPastRecord
SYMMETRY Symmetric
