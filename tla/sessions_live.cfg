SPECIFICATION FairSpec
CONSTANTS
    c1 = c1
    c2 = c2
    Clients <- MCClients
    Kinds = {"simulated", "skytrak"}
    Commands <- MCLiveCommands
    CommandCap = 1
    EventCap = 3
    MaxSessions = 1
    MaxRequests = 5
    MaxFaults = 1
PROPERTY RequestsReturn
