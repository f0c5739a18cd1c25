CONSTANTS
    Loaders = {"first", "second"}
    Words = 16
    HeaderSize = 2
    SectionSize = 2
    NameSize = 2
    MaxRead = 8
    Files <- MCFiles
    MachWords = 16
    FatHeaderSize = 1
    ArchSize = 1
    MachHeaderSize = 1
    CommandSize = 1
    SegmentSize = 2
    MachSectionSize = 1
    Images <- MCImages
    DosSize = 2
    SignatureSize = 1
    FileHeaderSize = 1
    PeSectionSize = 2
    Libraries <- MCLibraries
SPECIFICATION LibrariesSpec
INVARIANTS
    InstanceExact
    ResultsTruthful
    ReadsInFile
    DecodesMetadata
    SlicesReadApart
    DecodesFirstSlice
    ReadsInMapping
    DecodesPeMetadata
