SPECIFICATION FairSpec
CONSTANTS
    start1 = start1
    pause1 = pause1
    resume1 = resume1
    release1 = release1
    stop1 = stop1
    stop2 = stop2
    NoTicket = NoTicket
    Capacity = 2
    Tickets <- AllTickets
    Id <- MCId
    Action <- MCAction
INVARIANTS
    TypeOK
    NoStrandedTicket
    CanceledPlaysGone
    StopHonoured
    OwnershipCoversTask
PROPERTIES
    TicketsSettleOnce
    EveryTicketSettles
    ShutdownCompletes
    DueStepRuns
