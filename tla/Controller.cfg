SPECIFICATION Spec
CONSTANTS
    s1 = s1
    s2 = s2
    Sessions <- TheSessions
    Theirs = Theirs
    None = None
    MaxAttempts = 2
    MaxEffects = 4
SYMMETRY SessionSymmetry
INVARIANTS
    CurrentLoads
    StopIntentSurvives
    ClaimsFollowEffects
