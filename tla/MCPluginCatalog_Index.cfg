CONSTANTS
    a1 = a1
    a2 = a2
    a3 = a3
    Iids <- MCIids
    Directories <- MCDirectories
    Files <- MCFiles
    FilesIn <- MCFilesIn
    IidOf <- MCIidOf
    Flat = FALSE
    Unusable <- MCUnusable
    StaticPlugins <- MCStaticPlugins
    Addresses <- MCAddresses
    Reuse = TRUE
    Faults <- MCFaults
    MaxPaths = 1
    Threads = {"reader", "other"}
    NoFile = "no file"
    NoIid = "no iid"
    CatalogIid = "app"
    Keys <- MCKeys
    EmptyKey = ""
    FileKeys <- MCFileKeys
    OtherKeys <- MCOtherKeys
SPECIFICATION CatalogSpec
SYMMETRY AddressSymmetry
INVARIANTS
    AnswersExact
