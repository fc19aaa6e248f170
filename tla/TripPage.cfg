SPECIFICATION Spec
CONSTANTS
    Cases <- MCCases
INVARIANTS
    PageIsWhole
    RunIsShown
    DelayIsOfTheRun
    CancelledIsSaid
PROPERTIES
    PastStopsStay
CHECK_DEADLOCK FALSE
