CONSTANTS
    p1 = p1
    p2 = p2
    p3 = p3
    PluginOrder <- TwoPlugins
    Plugins <- MCPlugins
    Threads <- OneThread
    NoThread = "none"
    HostCalls <- OneThreadCalls
    Reentry <- SafeReentry
    Resolutions <- MCResolutions
    Pinned <- MCPlugins
    MaxCommands = 4
SPECIFICATION FairSpec
INVARIANTS
    KeptInOrder
    AllDelivered
PROPERTIES
    KeepsLives
    NoCommandAfterShutdown
    CallsReturn
