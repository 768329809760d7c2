SPECIFICATION ScoringSpec
CONSTANTS
    t1 = t1
    t2 = t2
    t3 = t3
    t4 = t4
    aasist = aasist
    retrained = retrained
    None = None
    Trials = {t1, t2, t3, t4}
    Models = {aasist, retrained}
    Experiments <- SomeExperiments
    Runs = {r1, r2}
    MaxBatch = 2
SYMMETRY RunSymmetry
INVARIANTS
    ScoringTypeOK
    LedgerIsPrefix
    ProvenanceVouches
PROPERTY ResumableScoring
