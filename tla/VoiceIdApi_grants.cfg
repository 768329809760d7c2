SPECIFICATION Spec
CONSTANTS
    None = None
    Identities = {alice}
    Devices = {band}
    Nonces = {n1}
    Actions = {play_media}
    GrantIds = {g1, g2}
    Workers = {w1, w2}
    Operations = {"consent", "purge", "enroll", "issue", "consume"}
    Lifetime = 1
    MaxConsent = 2
    Retention = 1
    MaxVersion = 1
    MaxTime = 1
    Faults = TRUE
SYMMETRY Interchangeable
INVARIANTS
    TypeOK
    SpentAtMostOnce
    HeldGrantRedeemable
    OneUsableTokenPerNonce
    AuditedConsumptionHappened
PROPERTY SingleUse
