SPECIFICATION Spec
CONSTANTS
    Cases <- MCCases
INVARIANTS
    BoardIsExact
    CommonStaysListed
    FailsOnlyWhenHarmed
    RealtimeIsOfTheRun
    VisitIsDescribed
CHECK_DEADLOCK FALSE
