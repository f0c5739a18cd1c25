CONSTANTS
    p1 = p1
    p2 = p2
    p3 = p3
    PluginOrder <- ThreePlugins
    Plugins <- MCPlugins
    Threads <- TwoThreads
    NoThread = "none"
    HostCalls <- TwoThreadsCalls
    Reentry <- NoReentry
    Resolutions <- MCResolutions
    Pinned <- Nothing
    MaxCommands = 0
SPECIFICATION Spec
INVARIANTS
    TypeOK
    ErrorsPropagate
    NoFrameInUnmapped
PROPERTIES
    KeepsLives
    ShutdownComplete
    LoadSettled
