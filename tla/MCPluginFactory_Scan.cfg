CONSTANTS
    a1 = a1
    a2 = a2
    a3 = a3
    a4 = a4
    Iids <- MCIids
    Directories <- MCDirectories
    Files <- MCFiles
    FilesIn <- MCFilesIn
    IidOf <- MCIidOf
    Flat = FALSE
    Unusable <- MCUnusable
    StaticPlugins <- MCStaticPlugins
    Addresses <- MCAddresses
    Reuse = TRUE
    Faults <- MCFaults
    MaxPaths = 2
    Threads = {"main"}
    NoFile = "no file"
    NoIid = "no iid"
SPECIFICATION FactorySpec
SYMMETRY AddressSymmetry
INVARIANTS
    FactoryTypeOK
    FilesTracked
    ScanComplete
PROPERTIES
    LivePluginsKept
