SPECIFICATION FairSpec
CONSTANTS
    MaxRequests = 2
    QueueCapacity = 1
INVARIANTS
    TypeOK
    BusyHasCause
    ActiveIsTracked
    NoInferredSuccess
    OneStory
PROPERTIES
    TrackingEnds
    BusyEnds
CHECK_DEADLOCK FALSE
