SPECIFICATION Spec
CONSTANTS
    c1 = c1
    c2 = c2
    Clients <- MCClients
    Kinds = {"simulated", "skytrak"}
    Commands <- MCCommands
    CommandCap = 1
    EventCap = 2
    MaxSessions = 2
    MaxRequests = 4
    MaxFaults = 1
SYMMETRY ClientSymmetry
INVARIANTS ManagerTypeOK EveryDriverHasAnOwner CommandsStayCurrent StatusFollowsDevice
PROPERTY DriversAreLaunchMonitors
