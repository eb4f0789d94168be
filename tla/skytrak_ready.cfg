SPECIFICATION SessionSpec
CONSTANTS
    Commands <- MCReadyCommands
    ChipSettings = {TRUE}
    CommandCap = 1
    MaxCommands = 1
    HostCap = 2
    BoxCap = 1
    MaxFaults = 1
    MaxShots = 0
    MaxImages = 1
INVARIANT ReadyIsAnnounced
