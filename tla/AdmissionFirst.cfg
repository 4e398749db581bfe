CONSTANTS
    r1 = r1
    r2 = r2
    r3 = r3
    r4 = r4
    r5 = r5
    NoQuota = NoQuota
    Epoch <- Epochs
    Request <- TwoRequests
    epochsOf <- Generated
    Malformed <- Nobody
    Existing <- NoList
    Quota <- Two
    Lossy = FALSE
SPECIFICATION AdmissionSpec
INVARIANTS FirstAcceptedStored
