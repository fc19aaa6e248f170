SPECIFICATION Spec
CONSTANTS
    Stops = {1, 2, 3, 4}
    Timetables <- MCTimetables
    Times <- MCTimes
    MaxTransfers = 2
    Infinity = 1000
INVARIANTS
    LabelsAreReal
    ArrivalsAreEarliest
    EdgesLead
