CONSTANTS
    r1 = r1
    r2 = r2
    w1 = w1
    w2 = w2
    c1 = c1
    c2 = c2
    Runs = {r1, r2}
    Web = {w1}
    Workers = {c1}
    NoRun = NoRun
    NoTask = NoTask
    Ops = {"inbound", "recover"}
    MaxArrivals = 1
    MaxCrashes = 0
    MaxAttempts = 1
    Ttl = 1
    ClaimTtl = 1
    MaxNow = 1
SPECIFICATION Spec
CHECK_DEADLOCK FALSE
INVARIANT SingleDriver
