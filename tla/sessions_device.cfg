SPECIFICATION Spec
CONSTANTS
    c1 = c1
    c2 = c2
    Clients <- MCClients
    Kinds = {"simulated"}
    Commands <- MCCommands
    CommandCap = 1
    EventCap = 3
    MaxSessions = 2
    MaxRequests = 2
    MaxFaults = 0
INVARIANT DeviceIsKnown
