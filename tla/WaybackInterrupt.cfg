\* Two URLs, and Ctrl-C at any moment.
SPECIFICATION Spec
CONSTANTS
    Urls = {u1, u2}
    Jobs = 1
    MaxCap = 2
    Tries = 2
    MaxThrottles = 2
    RequeueFloor = 2
    Patience = 1
    NoUrl = NoUrl
PROPERTIES FinishedIsNotSent
