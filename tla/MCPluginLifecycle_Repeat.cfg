CONSTANTS
    p1 = p1
    p2 = p2
    p3 = p3
    PluginOrder <- TwoPlugins
    Plugins <- MCPlugins
    Threads <- OneThread
    NoThread = "none"
    HostCalls <- OneThreadCalls
    Reentry <- RepeatingReentry
    Resolutions <- MCResolutions
    Pinned <- Nothing
    MaxCommands = 1
SPECIFICATION Spec
INVARIANTS
    NoSelfWait
