SPECIFICATION Spec
CONSTANTS
    r1 = r1
    r2 = r2
    Reviewer <- Sessions
    Task = {t1, t2}
    Title = {title}
    Area = {in, out}
    Command = {test}
    l1 = l1
    l2 = l2
    l3 = l3
    WorkerLimit <- Limits
    Absent = Absent
    NoOne = NoOne
    AuthoredAreas = {in}
    AuthoredSuite = {test}
    MaxPlanSteps = 2
    MaxEdits = 2
    MaxChanges = 1
    MaxCrashes = 1
SYMMETRY Symmetry
INVARIANTS RecordsAccepted ApprovedAsShown
PROPERTIES NoEditLost HistoryKept
CHECK_DEADLOCK FALSE
