SPECIFICATION Spec
CONSTANTS
    None = None
    Identities = {alice}
    Devices = {band}
    Nonces = {n1}
    Actions = {play_media}
    GrantIds = {g1}
    Workers = {w1, w2}
    Operations = {"consent", "revoke", "purge", "enroll"}
    Lifetime = 1
    MaxConsent = 2
    Retention = 1
    MaxVersion = 3
    MaxTime = 2
    Faults = TRUE
SYMMETRY Interchangeable
INVARIANT
    LiveTemplateIsNewest
PROPERTIES
    RetentionHonoured
    RevocationIsFinal
