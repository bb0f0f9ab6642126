\* A key of four indices in a key file, a copy of it and a state file, used as
\* documented: in sectors, moved, restored from a backup, or shared with a session.
SPECIFICATION UsesSpec
CONSTANTS
    r1 = r1
    r2 = r2
    ka = ka
    kb = kb
    sf = sf
    Runs = {r1, r2}
    KeyFiles = {ka, kb}
    StateFiles = {sf}
    KeyOf <- StateOverKey
    Original = ka
    MovedTo = sf
    Parts = 2
    OwnSector <- OwnHalf
    NeedsOf <- Needs
    Capacity = 4
    MaxBlock = 2
    FirstIndex = 0
    NoRun = NoRun
    NoPlace = NoPlace
INVARIANTS TypeOK NoIndexReuse
PROPERTIES ImplementsOneTime PlaceNeverGoesBack
SYMMETRY Symmetric
