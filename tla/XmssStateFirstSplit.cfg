\* A key that was saved by a session after one signature, and never split.
SPECIFICATION UnruledSpec
CONSTANTS
    r1 = r1
    r2 = r2
    ka = ka
    kb = kb
    sf = sf
    Runs = {r1, r2}
    KeyFiles = {ka, kb}
    StateFiles = {sf}
    KeyOf <- StateOverKey
    Original = ka
    MovedTo = sf
    Parts = 2
    OwnSector <- OwnHalf
    NeedsOf <- Needs
    Capacity = 4
    MaxBlock = 1
    FirstIndex = 1
    NoRun = NoRun
    NoPlace = NoPlace
INVARIANTS FirstSplitTaken
SYMMETRY Symmetric
