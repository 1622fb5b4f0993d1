SPECIFICATION FairSpec
CONSTANTS
    d1 = d1
    Docs <- OneDoc
    Channels = {"whatsapp"}
    Returning = {"QUALIFIED", "ACCEPTED"}
    Beyond = {"campaign_send"}
    MaxLate = 1
    MaxMail = 1
    MaxOffers = 1
    MaxSaid = 3
    MaxFaults = 1
INVARIANTS  PaidNeverBilled
PROPERTIES  WaiverNoticed OfferShown
CHECK_DEADLOCK FALSE
