SPECIFICATION FairSpec
CONSTANTS
    u1 = u1
    u2 = u2
    b1 = b1
    b2 = b2
    a1 = a1
    a2 = a2
    home = home
    away = away
    Clients = {u1}
    Overrides = {FALSE}
    Boxes <- MCBoxes
    Addresses <- MCAddresses
    Networks <- MCNetworks
    NetworkOf <- MCNetworkOf
    Interfaces = {home}
    Explicit = {away}
    Targets <- MCTargets
    CommandCap = 1
    Attempts = 2
    MaxUpdates = 2
    MaxConnects = 1
    MaxFaults = 2
INVARIANTS ConnectingTypeOK MappingKept DeviceIsNamed PickedIsCurrent
PROPERTIES BoxIsServed
