SPECIFICATION ServicesSpec
CONSTANTS
    Instances = {a, b}
    Requests = {r1, r2}
    Ttl = 2
    MaxVersions = 3
    MaxPending = 2
    MaxFaults = 2
    Files = {f1, f2, f3}
    Codes = {trade_license, tax_card}
    Lists <- Wider
    MaxAttempts = 2
INVARIANTS CacheInv ChecklistInv
CHECK_DEADLOCK FALSE
SYMMETRY Symmetry
