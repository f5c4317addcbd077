SPECIFICATION FairSpec
CONSTANTS
    LastMonth = 1
    MaxDay = 2
    Length <- MCLength
    Scheduler = sched
    Runs = {sched, r1}
    Edits = {e1}
    MaxAborts = 1
INVARIANTS
    TypeOK
    NoMonthSkipped
    TwiceOnlyWhenTorn
    NoDrift
PROPERTIES
    CatchesUp
CHECK_DEADLOCK FALSE
