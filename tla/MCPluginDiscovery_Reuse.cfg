CONSTANTS
    a1 = a1
    a2 = a2
    a3 = a3
    Iids <- MCIids
    Directories <- MCDirectories
    Files <- MCFiles
    FilesIn <- MCFilesIn
    IidOf <- MCIidOf
    Flat = TRUE
    Unusable = {}
    StaticPlugins <- MCStaticPlugins
    Addresses <- MCAddresses
    Reuse = TRUE
    Faults <- MCFaults
    MaxPaths = 2
    Threads = {"worker"}
    NoFile = "no file"
    NoIid = "no iid"
    SystemIid = "app"
    Ids <- MCIds
    IdOf <- MCIdOf
    EnabledByMetadata <- MCEnabledByMetadata
    EmptyId = ""
    NotAString = "not a string"
    Broken <- MCBroken
    Predicates <- MCPredicates
    Documents <- MCDocuments
SPECIFICATION DiscoverySpec
INVARIANTS
    SpecsDescribeLoaders
CHECK_DEADLOCK FALSE
