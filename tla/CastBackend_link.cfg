SPECIFICATION Spec
CONSTANTS
    Apps <- TheApps
    Absent = "none"
    Media <- TheMedia
    AppIds <- TheAppIds
    Identities <- TheIdentities
    Scopes <- TheScopes
    None = None
    PollEvery = 1
    MaxAge = 2
    Short = 1
    Long = 1
    Windows = {1}
    Horizon = 1
    MaxCallbacks = 3
    MaxRounds = 2
    MaxRequests = 2
CHECK_DEADLOCK FALSE
INVARIANTS
    AbsenceIsCurrent
    WitnessesSuffice
    EffectsOwned
