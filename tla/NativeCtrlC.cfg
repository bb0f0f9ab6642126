SPECIFICATION AnySpec
CONSTANTS
    MaxFrames = 2
    MaxHops = 1
    MaxPolls = 1
INVARIANT CtrlCRaised
