SPECIFICATION FairSpec
CONSTANTS
    Commands <- MCLiveCommands
    ChipSettings = {TRUE}
    CommandCap = 1
    MaxCommands = 1
    HostCap = 2
    BoxCap = 1
    MaxFaults = 1
    MaxShots = 1
    MaxImages = 1
INVARIANT ArmedBeliefSound
PROPERTY Settles StopsWhenHungUp
