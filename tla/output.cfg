SPECIFICATION FairSpec
CONSTANTS
    ChipChoices <- MCChipChoices
    PlayerInfos <- MCPlayerInfos
    EventCap = 2
    CommandCap = 1
    SimCap = 1
    MaxInputs = 4
    MaxFaults = 1
INVARIANTS OutputTypeOK ShotsInOrder ShotsReachTheSim ReadyFollowsMonitor LastWordWins
 
