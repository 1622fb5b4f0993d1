SPECIFICATION FairSpec
CONSTANTS
    p1 = p1
    p2 = p2
    p3 = p3
    Phones = {p1, p2, p3}
    File <- Rows
    Invalid = {p3}
    Submissions = {s1, s2}
    Together = FALSE
    SnapshotEvery = 2
    MaxRestarts = 1
    BatchSize = 2
    MaxLen = 2
    MaxEvents = 4
    MaxConsumerFaults = 1
INVARIANTS OneTaskPerKey  LogInv
PROPERTIES  EventSeen
CHECK_DEADLOCK FALSE
