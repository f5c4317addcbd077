SPECIFICATION Spec
CONSTANTS
    LastMonth = 0
    MaxDay = 3
    Length <- MCLength
    Scheduler = sched
    Runs = {sched}
    Edits = {e1}
    MaxAborts = 0
INVARIANTS
    OneChargePerMonth
CHECK_DEADLOCK FALSE
