SPECIFICATION IPCSpec
CONSTANTS
    a1 = a1
    a2 = a2
    b1 = b1
    stop1 = stop1
    stop2 = stop2
    NoTicket = NoTicket
    Capacity = 2
    Tickets <- MCTickets
    Id <- MCId
    Action <- MCAction
    TicketCapacity = 1
    Inodes = {1, 2}
CHECK_DEADLOCK FALSE
INVARIANTS
    CommandsAcceptedOnce
    EndpointReachable
