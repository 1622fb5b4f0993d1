CONSTANTS
    s1 = s1
    s2 = s2
    m1 = m1
    m2 = m2
    m3 = m3
    m4 = m4
    w1 = w1
    w2 = w2
    b1 = b1
    b2 = b2
    Seqs = {s1}
    Rems = {m1, m2}
    Web = {w1, w2}
    Runners = {b1}
    NoSeq = NoSeq
    NoRem = NoRem
    Steps = 2
    Escalating = {1}
    MaxAttempts = 2
    MaxRequests = 3
    MaxCrashes = 1
SPECIFICATION FairSpec
CHECK_DEADLOCK FALSE
PROPERTY PendingEnds
INVARIANTS NudgeInv StepSentOnce
