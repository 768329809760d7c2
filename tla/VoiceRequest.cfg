SPECIFICATION Spec
CONSTANTS
    Threshold = 72
    Margin = 5
    MaxSpoof = 35
    Absent = Absent
    Scores <- BoundaryScores
    Probabilities <- BoundaryProbabilities
    Clients = {c1, c2}
    MaxRequests = 2
    Window = 3
    Second = 2
    MaxTime = 5
    ChunkBytes = 2
    MaxFileBytes = 3
    MaxTotalBytes = 5
    MaxRequestBytes = 6
    MaxFiles = 3
    LongestBody = 12
    FrameSize = 6
    HopSize = 2
    Padding = 1
    Minimum = 8
    MinSpeech = 9
    MinRatio = 60
    MaxSamples = 18
SYMMETRY Interchangeable
INVARIANTS
    AuthTypeOK
    AllowIsEarned
    DenialIsProven
    BetterEvidenceNeverHurts
    RiskNeverHelps
    WaitingAsToldIsEnough
    BurstIsBounded
    UploadsAreBounded
PROPERTIES
    SegmentsAreSound
CHECK_DEADLOCK FALSE
