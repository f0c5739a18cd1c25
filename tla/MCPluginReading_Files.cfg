CONSTANTS
    Iid = "app"
    Unreadable = "unreadable"
    MetadataNames <- MCMetadataNames
    Manifests <- MCManifests
    LibraryStates <- MCLibraryStates
    MaxChanges = 2
SPECIFICATION Spec
INVARIANTS
    StaysInBundle
    SpecsSound
    NotForgotten
