\* Two inspections and two changes of the cluster.
SPECIFICATION FairSpec
CONSTANTS
    MaxReads = 2
    MaxChanges = 2
    Profiles <- SomeProfiles
INVARIANTS
    TypeOK
    UndisturbedIsTrue
    ChangeIsReal
PROPERTY CheckingEnds
CHECK_DEADLOCK FALSE
