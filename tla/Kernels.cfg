\* Every algorithm on inputs at its boundaries; two processes with a generator each, made,
\* forked, saved, restored and removed.  These may stop: their calls and copies are bounded.
SPECIFICATION Spec
CONSTANTS
    Limit = 2
    Processes = {1, 2}
    Environments = {1}
    MaxCalls = 4
    MaxCopies = 1
    MaxStops = 1
INVARIANT StreamsApart
PROPERTIES
    HashTreesExact
    MlDsaExact
    WidthsExact
    KemsExact
    MaskedExact
    MaskedNoLeak
    StreamsExact
    DigestsExact
    ParsersExact
    VerifiersExact
CHECK_DEADLOCK FALSE
