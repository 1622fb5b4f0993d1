CONSTANTS
    r1 = r1
    r2 = r2
    w1 = w1
    w2 = w2
    c1 = c1
    c2 = c2
    Runs = {r1}
    Web = {w1}
    Workers = {c1}
    NoRun = NoRun
    NoTask = NoTask
    Ops = {"inbound", "recover", "sweep"}
    MaxArrivals = 1
    MaxCrashes = 1
    MaxAttempts = 1
    Ttl = 1
    ClaimTtl = 1
    MaxNow = 2
SPECIFICATION FairSpec
CHECK_DEADLOCK FALSE
PROPERTIES RunningEnds LapsedIsSwept
