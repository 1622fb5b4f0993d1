SPECIFICATION FairSpec
CONSTANTS
    d1 = d1
    d2 = d2
    d3 = d3
    m1 = m1
    m2 = m2
    Deliveries <- ThreeDeliveries
    Messages <- TwoMessages
    Strangers = {}
    LocksMax = 2
    Outside = {"webhook", "quiet campaign"}
INVARIANTS LocksInv 
PROPERTY InboundEnds
