CONSTANTS
    Request <- Requests
    hashSuffix <- Suffix
    MaxEpochs = 40
SPECIFICATION GeneratorSpec
INVARIANTS ExactCover CalendarAligned
PROPERTIES GenerationEnds
CHECK_DEADLOCK FALSE
