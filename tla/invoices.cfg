SPECIFICATION Spec
CONSTANTS
    a = a
    b = b
    c = c
    u = u
    Uploads <- ThreeUploads
    Unreadable <- NoneRead
    Events = {"repaid"}
    KeptSigs = 4
    MaxCards = 2
    MaxEvents = 1
    MaxFaults = 1
INVARIANTS   NotUnseen 
CHECK_DEADLOCK FALSE
