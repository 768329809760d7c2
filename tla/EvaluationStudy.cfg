SPECIFICATION StudySpec
CONSTANTS
    SpeakersPerPartition = 2
    EnrollmentClips = 4
    ProbeClips = 1
    MaxRuns = 2
    None = None
    Scores <- MCScores
    MaxDamage = 1
    MaxShort = 1
    Torn = Torn
    MissWeight = 1
    FalseAlarmWeight = 2
    Top = 4
    BonafideRejectWeight = 1
    SpoofAcceptWeight = 2
    Sources <- MCSources
    ScoredFiles <- MCScoredFiles
    SpoofManifests <- MCSpoofManifests
    Verifiers <- MCVerifiers
INVARIANTS
    StudyTypeOK
    PublishedIsComplete
    OnlyDuplicatesAreRefused
    PreparedCorpusScores
    ScoresComeFromNamedAudio
    ScoredIsAccepted
    ThresholdIsCalibrated
    CountermeasureIsCalibrated
    SweepMatchesRates
    TiesNeverFlatter
    BreakdownsAddUp
CHECK_DEADLOCK FALSE
