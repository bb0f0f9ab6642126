SPECIFICATION FairSpec
CONSTANTS
    MaxFrames = 3
    MaxHops = 2
    MaxPolls = 1
INVARIANTS
    TypeOK
    DepthIsBarriers
    KeptIsOwed
    RaisedIffTaken
    KeyStaysHome
    AnsweredByAsked
    DestIsAsTold
PROPERTIES
    NoRequestOnceTaken
    CallEnds
