\* One session with the record off beside one with it on, resets, and a file
\* system that cannot flush a directory: what the session's memory still gives.
SPECIFICATION Spec
CONSTANTS
    s1 = s1
    s2 = s2
    k1 = k1
    Sessions = {s1, s2}
    OffSessions = {s2}
    Keys = {k1}
    Capacity = 2
    LegacyIndex <- NoLegacy
    DirFlush = FALSE
    NoSession = NoSession
INVARIANTS SessionNeverRepeats
CONSTRAINT OnePending
