SPECIFICATION FairSpec
CONSTANTS
    Invokes = {i1, i2}
    OldRuns = {o1, o2}
    RetryBudget = 1
    DailyBudget = 1
    Signals = {s1, s2}
    Reveals = {v1, v2}
    Scores = {2, 7}
    Millis = 1
    Faults = TRUE
    NoRun = NoRun
    None = None
    Rotations = {r1, r2}
    Heartbeats = {h1, h2}
    NoProfile = NoProfile
    Loads = {{r1, r2, h1, h2}, {i1, i2}, {i1, s1}, {s1, s2, v1, v2}}
INVARIANTS
    BooksAgree
    RetriesBounded
    BudgetOvershoot
    SaltsOpen
    CommitmentsOpenable
    FeedbackKept
    NewestTokenKept
PROPERTIES
    InvokesEnd
CHECK_DEADLOCK FALSE
