\* Three URLs, runs of one new capture each, all limits scaled down.
SPECIFICATION WaitingSpec
CONSTANTS
    Urls = {u1, u2, u3}
    Jobs = 2
    MaxCap = 1
    Tries = 2
    MaxThrottles = 2
    RequeueFloor = 1
    Patience = 1
    NoUrl = NoUrl
INVARIANTS TypeOK EachUrlInOnePlace AsksWithinCaps
PROPERTIES StartedIsPolled FinishedIsNotSent RunEnds
