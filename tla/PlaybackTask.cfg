CONSTANTS
    None = None
    ItemCount = 2
    Windows <- MCWindows
    MaxNumber = 10
    MaxResets = 1
SPECIFICATION Spec
PROPERTIES StartsClean ReleasesClean NoPlayAfterCancel
