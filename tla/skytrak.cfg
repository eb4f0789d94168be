SPECIFICATION SessionSpec
CONSTANTS
    Commands <- MCCommands
    ChipSettings = {TRUE}
    CommandCap = 1
    MaxCommands = 2
    HostCap = 2
    BoxCap = 1
    MaxFaults = 1
    MaxShots = 2
    MaxImages = 2
INVARIANTS SessionTypeOK ModeBeliefSound SysConfigCurrent OutcomesHaveStrikes PendingCanFinish ImagesOfOneStrike
PROPERTY ShotsAreWhole IsLaunchMonitor
