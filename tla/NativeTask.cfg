CONSTANTS
    None = None
    ItemCount = 3
    Windows <- MCWindows
    MaxStops = 1
    MaxResets = 1
SPECIFICATION Spec
INVARIANT JournalLeads
PROPERTIES AdoptsWitnessed KeptStopIsScoped
