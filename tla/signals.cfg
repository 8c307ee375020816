\* Observations of two events, of which one fits.
SPECIFICATION Spec
CONSTANTS
    MaxEvents = 2
    Shown = 1
    Texts <- FewPatterns
INVARIANTS
    PrimaryStandsOut
    RecoveryIsShown
CHECK_DEADLOCK FALSE
