CONSTANTS
    r1 = r1
    r2 = r2
    w1 = w1
    w2 = w2
    c1 = c1
    c2 = c2
    Runs = {r1, r2}
    Web = {w1, w2}
    Workers = {}
    NoRun = NoRun
    NoTask = NoTask
    Ops = {"inbound"}
    MaxArrivals = 4
    MaxCrashes = 1
    MaxAttempts = 2
    Ttl = 1
    ClaimTtl = 1
    MaxNow = 2
SPECIFICATION Spec
CHECK_DEADLOCK FALSE
INVARIANTS SingleDriver ParkedAtInterrupt OneUnderWay
PROPERTY ImplementsRunStatus
