SPECIFICATION FairSpec
CONSTANTS
    None = None
    Identities = {alice}
    Devices = {band}
    Nonces = {n1}
    Actions = {play_media}
    GrantIds = {g1}
    Workers = {w1, w2}
    Operations = {"consent", "enroll", "issue", "consume"}
    Lifetime = 1
    MaxConsent = 2
    Retention = 1
    MaxVersion = 2
    MaxTime = 1
    Faults = FALSE
PROPERTY ConsumptionIsAudited
