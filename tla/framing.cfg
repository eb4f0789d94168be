SPECIFICATION Spec
CONSTANTS
    BoxStreams <- MCBoxStreams
    SimStreams <- MCSimStreams
    DaemonStreams <- MCDaemonStreams
    MaxLength = 4
    MaxConnections = 2
INVARIANTS FramingTypeOK PacketsWhole BufferIsTail ResponsesWhole BlocksWhole
