SPECIFICATION Spec
CONSTANTS
    d1 = d1
    Docs <- OneDoc
    Channels = {"whatsapp", "email"}
    Returning = {}
    Beyond = {"business_details_fetch", "lender_status_poll"}
    MaxLate = 0
    MaxMail = 1
    MaxOffers = 1
    MaxSaid = 3
    MaxFaults = 1
INVARIANTS FilesInv 
CHECK_DEADLOCK FALSE
