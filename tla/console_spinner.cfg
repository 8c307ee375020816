SPECIFICATION Spec
CONSTANTS
    MaxRequests = 1
    QueueCapacity = 1
INVARIANT SpinnerIsTracked
CHECK_DEADLOCK FALSE
