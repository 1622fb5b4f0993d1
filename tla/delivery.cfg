SPECIFICATION FairSpec
CONSTANTS
    Msgs = {m1}
    Reads = {r1}
    Calls = {m1, r1}
    MaxTries = 1
    MaxFaults = 2
    Ids = {i1}
    Deliveries = {d1, d2}
    Overlap = FALSE
    MaxDeaths = 1
    Callbacks = {k1}
    Refs = {"provider"}
    MaxSends = 2
    MaxUpdates = 2
INVARIANTS SendInv GivenUpForCause InboundOnce
PROPERTIES StatusForward SendEnds
CHECK_DEADLOCK FALSE
