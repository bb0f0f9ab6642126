\* Two sessions and a key carried over from an old release, with crashes and
\* power cuts, in histories in which no user gives the protection up.  The calls progress.
SPECIFICATION LiveSpec
CONSTANTS
    s1 = s1
    s2 = s2
    k1 = k1
    Sessions = {s1, s2}
    OffSessions = {}
    Keys = {k1}
    Capacity = 4
    LegacyIndex <- OneLegacy
    DirFlush = TRUE
    NoSession = NoSession
INVARIANTS TypeOK NoIndexReuse RetiredOnDisk TmpIntact
PROPERTIES AdvancePastUsed ImplementsOneTime RecordNeverLowered LockReleased CallReturns
