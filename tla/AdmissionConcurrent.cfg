CONSTANTS
    r1 = r1
    r2 = r2
    r3 = r3
    r4 = r4
    r5 = r5
    NoQuota = NoQuota
    Epoch <- Epochs
    Request <- Requests
    epochsOf <- Generated
    Malformed <- Fourth
    Existing <- NoListOrOne
    Quota <- Quotas
    Lossy = TRUE
SPECIFICATION AdmissionSpec
INVARIANTS AdmissionTypeOK AdmissionInv AcceptedStored
PROPERTIES EpochsKept
