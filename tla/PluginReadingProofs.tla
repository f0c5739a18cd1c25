-------------------------- MODULE PluginReadingProofs --------------------------
(* Proofs about PluginReading, for any manifests, libraries, metadata file     *)
(* names, and any number of changes to the files while a scan looks at them.   *)
EXTENDS PluginReading, FiniteSetTheorems, SequenceTheorems, NaturalsInduction,
        WellFoundedInduction, TLAPS

\* Every nonempty set of natural numbers has a least element.
LEMMA LeastNumber ==
    ASSUME NEW T, T \subseteq Nat, T # {}
    PROVE  \E x \in T : \A y \in T : ~(y < x)
  <1>1. IsWellFoundedOn(OpToRel(<,Nat), Nat)
    BY NatLessThanWellFounded
  <1>2. \E x \in T : \A y \in T : ~(<<y, x>> \in OpToRel(<,Nat))
    BY <1>1, WFMin
  <1> QED BY <1>2 DEF OpToRel

LEMMA MinPositive ==
    ASSUME NEW n \in Nat, NEW T \in SUBSET (1 .. n), T # {}
    PROVE  Min(T) \in 1 .. n
  <1>0. T \subseteq Nat
    OBVIOUS
  <1>1. PICK x \in T : \A y \in T : ~(y < x)
    BY <1>0, LeastNumber
  <1>2. \A y \in T : x <= y
    BY <1>0, <1>1
  <1>3. Min(T) \in T
    BY <1>2 DEF Min
  <1> QED BY <1>3

-----------------------------------------------------------------------------
(* Paths stay in the bundle.                                               *)

Up(path, k) == {j \in 1 .. k : path[j] = Parent}

Down(path, k) == {j \in 1 .. k : path[j] \notin Nowhere \cup {Parent}}

\* A path without ".." that ends with the name of a file.
Inside(path) ==
    /\ Len(path) \in Nat \ {0} /\ DOMAIN path = 1 .. Len(path)
    /\ \A j \in 1 .. Len(path) : path[j] # Parent
    /\ path[Len(path)] \notin Nowhere

LEMMA InsideStays ==
    ASSUME NEW path, Inside(path)
    PROVE  (\A k \in DOMAIN path : Depth(path, k) >= 0) /\ Depth(path, Len(path)) > 0
  <1>1. DOMAIN path = 1 .. Len(path) /\ Len(path) \in Nat
    BY DEF Inside
  <1>2. ASSUME NEW k \in 1 .. Len(path)
        PROVE  /\ Depth(path, k) = Cardinality(Down(path, k))
               /\ Cardinality(Down(path, k)) \in Nat /\ IsFiniteSet(Down(path, k))
    <2>1. Up(path, k) = {}
      BY <1>1 DEF Inside, Up
    <2>2. Cardinality(Up(path, k)) = 0
      BY <2>1, FS_EmptySet
    <2>3. IsFiniteSet(Down(path, k))
      <3>1. IsFiniteSet(1 .. k)
        BY <1>1, FS_Interval
      <3>2. Down(path, k) \subseteq 1 .. k
        BY DEF Down
      <3> QED BY <3>1, <3>2, FS_Subset
    <2>4. Cardinality(Down(path, k)) \in Nat
      BY <2>3, FS_CardinalityType
    <2>5. Depth(path, k) = Cardinality(Down(path, k)) - Cardinality(Up(path, k))
      BY DEF Depth, Up, Down
    <2> QED BY <2>2, <2>3, <2>4, <2>5
  <1>3. Len(path) \in Down(path, Len(path)) /\ Len(path) \in 1 .. Len(path)
    BY <1>1 DEF Inside, Down
  <1>4. Cardinality(Down(path, Len(path))) # 0
    BY <1>2, <1>3, FS_EmptySet
  <1> QED BY <1>1, <1>2, <1>3, <1>4

LEMMA MetadataInside ==
    ASSUME NEW name \in Names, IsRelativeFilePath(name)
    PROVE  Inside(InBundle(name.names)) /\ ~name.root
  <1> DEFINE names == name.names
             path == InBundle(names)
  <1>1. names \in Seq(STRING) /\ names # <<>> /\ DOMAIN names = 1 .. Len(names) /\ Len(names) \in Nat \ {0}
    BY LenProperties, EmptySeq DEF Names, IsRelativeFilePath
  <1>2. path = [k \in 1 .. Len(names) |-> <<Empty, names[k], Empty>>]
    BY <1>1 DEF InBundle
  <1> HIDE DEF path
  <1>3. \A k \in 1 .. Len(names) : names[k] \in STRING /\ names[k] # ".."
    BY <1>1, ElementOfSeq DEF IsRelativeFilePath, ToSet
  <1>4. Len(path) = Len(names) /\ DOMAIN path = 1 .. Len(names)
    <2> DEFINE S == {<<Empty, names[k], Empty>> : k \in 1 .. Len(names)}
    <2>1. path \in [1 .. Len(names) -> S]
      BY <1>2
    <2> HIDE DEF S, names
    <2>2. path \in Seq(S)
      BY <1>1, <2>1, SeqDef
    <2> QED BY <1>1, <2>1, <2>2, LenProperties
  <1>5. names[Len(names)] \notin {Empty, "."}
    BY DEF IsRelativeFilePath, Last
  <1>6. ASSUME NEW j \in 1 .. Len(path)
        PROVE  path[j] # Parent
    <2>1. path[j] = <<Empty, names[j], Empty>> /\ names[j] # ".."
      BY <1>2, <1>3, <1>4
    <2>2. path[j][2] = names[j] /\ Parent[2] = ".."
      BY <2>1 DEF Parent
    <2> QED BY <2>1, <2>2
  <1>7. path[Len(path)] \notin Nowhere
    <2>1. path[Len(path)] = <<Empty, names[Len(names)], Empty>>
      BY <1>1, <1>2, <1>4
    <2>2. path[Len(path)][2] = names[Len(names)] /\ \A c \in Nowhere : c[2] \in {Empty, "."}
      BY <2>1 DEF Nowhere
    <2> QED BY <1>5, <2>2
  <1> QED BY <1>1, <1>4, <1>6, <1>7 DEF Inside, IsRelativeFilePath, path

LEMMA LibraryInside ==
    ASSUME NEW content \in Manifests, NEW path, LeadsTo(content, path),
           libraries \in LibraryStates
    PROVE  Inside(path)
  <1>1. content \in Object /\ ~content.name.root /\ Len(content.name.names) = 1
    BY FilesAssumption DEF LeadsTo, NameAllowed
  <1> DEFINE names == content.name.names
  <1>2. names \in Seq(STRING)
    BY <1>1 DEF Object, Names
  <1>3. names[1] \in STRING /\ Last(names) = names[1]
    BY <1>1, <1>2, ElementOfSeq DEF Last
  <1>4. Front(names) = <<>>
    BY <1>1, <1>2 DEF Front
  <1>5. InBundle(<<>>) = <<>>
    BY DEF InBundle
  <1>6. \E prefix, suffix : path = <<<<prefix, names[1], suffix>>>>
    <2> DEFINE Path(prefix, suffix) == InBundle(Front(names)) \o <<<<prefix, Last(names), suffix>>>>
    <2>1. ASSUME NEW prefix, NEW suffix
          PROVE  Path(prefix, suffix) = <<<<prefix, names[1], suffix>>>>
      <3>1. Path(prefix, suffix) = <<>> \o <<<<prefix, names[1], suffix>>>>
        BY <1>3, <1>4, <1>5
      <3> QED BY <3>1
    <2>2. LibraryCandidates(content.name) =
              <<Path(Empty, Empty), Path(Empty, ".so"), Path("lib", Empty), Path("lib", ".so")>>
      BY DEF LibraryCandidates
    <2> HIDE DEF Path
    <2>3. path \in {Path(Empty, Empty), Path(Empty, ".so"), Path("lib", Empty), Path("lib", ".so")}
      <3>1. PICK i \in DOMAIN LibraryCandidates(content.name) :
                LibraryCandidates(content.name)[i] = path
        BY DEF LeadsTo
      <3>2. DOMAIN LibraryCandidates(content.name) = 1 .. 4
        BY <2>2
      <3>3. i = 1 \/ i = 2 \/ i = 3 \/ i = 4
        BY <3>1, <3>2
      <3>4. CASE i = 1 BY <2>2, <3>1, <3>4
      <3>5. CASE i = 2 BY <2>2, <3>1, <3>5
      <3>6. CASE i = 3 BY <2>2, <3>1, <3>6
      <3>7. CASE i = 4 BY <2>2, <3>1, <3>7
      <3> QED BY <3>3, <3>4, <3>5, <3>6, <3>7
    <2> QED BY <2>1, <2>3
  <1>7. path[Len(path)] \notin Nowhere \cup {Parent}
    BY FilesAssumption DEF LeadsTo, Last
  <1>8. Len(path) = 1 /\ DOMAIN path = 1 .. 1
    BY <1>6
  <1> QED BY <1>7, <1>8 DEF Inside

-----------------------------------------------------------------------------
(* Specs say what one manifest said.                                       *)

LEMMA NoFailure ==
    ASSUME NEW m \in Object, FirstFailure(m) = 0
    PROVE  \A i \in 1 .. 8 : Passes(m, Checks[i])
  <1> SUFFICES ASSUME NEW i \in 1 .. 8, ~Passes(m, Checks[i]) PROVE FALSE
    OBVIOUS
  <1> DEFINE I == {k \in 1 .. Len(Checks) : ~Passes(m, Checks[k])}
  <1>1. Len(Checks) = 8
    BY DEF Checks
  <1>2. i \in I /\ I \in SUBSET (1 .. 8)
    BY <1>1
  <1>3. FirstFailure(m) = Min(I)
    BY <1>2 DEF FirstFailure, SelectInSeq
  <1> HIDE DEF I
  <1>4. Min(I) \in 1 .. 8
    BY <1>2, MinPositive
  <1> QED BY <1>3, <1>4

LEMMA NoBadDependency ==
    ASSUME NEW items \in Seq([id : STRING, version : Nat, type : STRING]),
           \A d \in ToSet(items) : DependencyPasses(d)
    PROVE  SelectInSeq(items, LAMBDA d : ~DependencyPasses(d)) = 0
  <1>1. DOMAIN items = 1 .. Len(items)
    BY LenProperties
  <1>2. {i \in 1 .. Len(items) : ~DependencyPasses(items[i])} = {}
    BY <1>1 DEF ToSet
  <1> QED BY <1>2 DEF SelectInSeq

LEMMA SpecFromObject ==
    ASSUME NEW m \in Object
    PROVE  IF SpecOf(m).state = "Read"
           THEN ~SpecOf(m).error /\ Describes(m, SpecOf(m))
           ELSE SpecOf(m).error
  <1> DEFINE spec == SpecOf(m)
             failure == FirstFailure(m)
  <1>1. CASE failure # 0
    <2>1. spec.state = "Invalid" /\ spec.error
      BY <1>1 DEF SpecOf
    <2> QED BY <2>1
  <1>2. CASE failure = 0
    <2>1. \A i \in 1 .. 8 : Passes(m, Checks[i])
      BY <1>2, NoFailure
    <2>2. /\ Passes(m, "id") /\ Passes(m, "displayName") /\ Passes(m, "description")
          /\ Passes(m, "version") /\ Passes(m, "compatVersion") /\ Passes(m, "compatNotNewer")
          /\ Passes(m, "enabledByDefault") /\ Passes(m, "dependencies")
      <3>1. /\ Checks[1] = "id" /\ Checks[2] = "displayName" /\ Checks[3] = "description"
            /\ Checks[4] = "version" /\ Checks[5] = "compatVersion" /\ Checks[6] = "compatNotNewer"
            /\ Checks[7] = "enabledByDefault" /\ Checks[8] = "dependencies"
        BY DEF Checks
      <3>2. /\ Passes(m, Checks[1]) /\ Passes(m, Checks[2]) /\ Passes(m, Checks[3])
            /\ Passes(m, Checks[4]) /\ Passes(m, Checks[5]) /\ Passes(m, Checks[6])
            /\ Passes(m, Checks[7]) /\ Passes(m, Checks[8])
        BY <2>1
      <3> QED BY <3>1, <3>2
    <2>3. /\ m.id # Empty /\ m.displayName /\ m.description
          /\ m.version > 0 /\ m.compatVersion # 0 /\ CompatVersion(m) <= m.version
          /\ m.enabledByDefault \in {"null", "TRUE", "FALSE"}
          /\ m.dependencies.usable
          /\ \A d \in ToSet(m.dependencies.items) : DependencyPasses(d)
      BY <2>2 DEF Passes
    <2>4. SelectInSeq(m.dependencies.items, LAMBDA d : ~DependencyPasses(d)) = 0
      <3>1. m.dependencies.items \in Seq([id : STRING, version : Nat, type : STRING])
        BY DEF Object
      <3> QED BY <2>3, <3>1, NoBadDependency
    <2>5. spec = [state |-> "Read", error |-> FALSE, id |-> m.id, version |-> m.version,
                  compatVersion |-> CompatVersion(m),
                  enabled |-> m.enabledByDefault # "FALSE",
                  dependencies |-> m.dependencies.items]
      BY <1>2, <2>4 DEF SpecOf
    <2>6. CompatVersion(m) \in 1 .. m.version
      <3>1. m.version \in Nat /\ m.compatVersion \in Nat \cup {NoVersion}
        BY DEF Object
      <3>2. CASE m.compatVersion = NoVersion
        BY <2>3, <3>1, <3>2 DEF CompatVersion
      <3>3. CASE m.compatVersion # NoVersion
        BY <2>3, <3>1, <3>3 DEF CompatVersion
      <3> QED BY <3>2, <3>3
    <2>7. Describes(m, spec)
      <3>1. m.json
        BY DEF Object
      <3>2. /\ spec.id = m.id /\ spec.version = m.version /\ spec.compatVersion = CompatVersion(m)
            /\ spec.enabled = (m.enabledByDefault # "FALSE")
            /\ spec.dependencies = m.dependencies.items
        BY <2>5
      <3> HIDE DEF spec
      <3>3. /\ spec.compatVersion \in 1 .. spec.version
            /\ m.compatVersion \in {NoVersion, spec.compatVersion}
            /\ m.compatVersion = NoVersion => spec.compatVersion = spec.version
        BY <2>6, <3>2 DEF CompatVersion
      <3>4. /\ m.enabledByDefault \in {"null", IF spec.enabled THEN "TRUE" ELSE "FALSE"}
            /\ m.enabledByDefault = "null" => spec.enabled
        BY <2>3, <3>2
      <3>5. \A d \in ToSet(spec.dependencies) :
                d.id # Empty /\ d.version > 0 /\ d.type \in {"required", "optional"}
        BY <2>3, <3>2 DEF DependencyPasses
      <3> QED BY <2>3, <3>1, <3>2, <3>3, <3>4, <3>5 DEF Describes
    <2> QED BY <2>5, <2>7
  <1> QED BY <1>1, <1>2

-----------------------------------------------------------------------------
(* The invariant.                                                          *)

Typed ==
    /\ metadataName \in MetadataNames
    /\ manifest \in Manifests \cup {Gone} /\ manifest \in past
    /\ libraries \in LibraryStates
    /\ at \in {"idle", "resolve", "library", "metadata"} /\ pending \in BOOLEAN
    /\ changes \in Nat /\ scanned \in Nat /\ scanned <= changes

\* A scan that is under way has a usable metadata file name, and is not forgotten.
Opened ==
    /\ at # "idle" => IsRelativeFilePath(metadataName) /\ pending
    /\ at \in {"library", "metadata"} => Inside(library)
    /\ \A path \in opened : Inside(path)
    /\ opened # {} => IsRelativeFilePath(metadataName)

Truthful ==
    \A path \in DOMAIN specs :
        \/ specs[path].spec = Unread
        \/ \E m \in past : m \in Object /\ specs[path].spec = SpecOf(m)

\* As long as nothing changes, what a scan has seen is still there.
Noticed ==
    changes = scanned =>
        /\ at = "resolve" => manifest # Gone
        /\ at \in {"library", "metadata"} => LeadsTo(manifest, library)

Reading == Typed /\ Opened /\ Truthful /\ Noticed /\ NotForgotten

LEMMA InitReading == Init => Reading
BY FilesAssumption DEF Init, Reading, Typed, Opened, Truthful, Noticed, NotForgotten

\* Changes that other programs make are what a scan has not seen.
LEMMA ChangeReading ==
    ASSUME Reading, ChangeManifest \/ ChangeLibraries
    PROVE  Reading'
  <1>1. /\ changes' = changes + 1
        /\ UNCHANGED <<metadataName, at, library, pending, specs, opened, scanned>>
        /\ past \subseteq past'
        /\ manifest' \in Manifests \cup {Gone} /\ manifest' \in past'
        /\ libraries' \in LibraryStates
    BY DEF ChangeManifest, ChangeLibraries, Changing, Reading, Typed
  <1>2. Typed' /\ changes' # scanned'
    BY <1>1 DEF Reading, Typed
  <1>3. Opened'
    BY <1>1 DEF Reading, Opened
  <1>4. Truthful'
    BY <1>1 DEF Reading, Truthful
  <1>5. Noticed' /\ NotForgotten'
    BY <1>2 DEF Noticed, NotForgotten
  <1> QED BY <1>2, <1>3, <1>4, <1>5 DEF Reading

LEMMA ReconfigureReading ==
    ASSUME Reading, Reconfigure
    PROVE  Reading'
  <1>1. /\ at = "idle" /\ at' = "idle" /\ pending' = TRUE
        /\ UNCHANGED <<metadataName, manifest, libraries, past, changes, library, opened, scanned>>
        /\ specs' = specs \/ specs' = [path \in {} |-> Unread]
    BY DEF Reconfigure, files
  <1>2. Typed' /\ Opened' /\ Noticed' /\ NotForgotten'
    BY <1>1 DEF Reading, Typed, Opened, Noticed, NotForgotten
  <1>3. Truthful'
    BY <1>1 DEF Reading, Truthful
  <1> QED BY <1>2, <1>3 DEF Reading

LEMMA ListReading ==
    ASSUME Reading, List
    PROVE  Reading'
  <1>1. /\ at = "idle" /\ pending /\ scanned' = changes
        /\ UNCHANGED <<metadataName, manifest, libraries, past, changes, library, specs, opened>>
        /\ \/ at' = "idle" /\ pending' = pending
           \/ at' = "idle" /\ manifest = Gone
           \/ at' = "resolve" /\ manifest # Gone /\ pending' = pending
              /\ IsRelativeFilePath(metadataName)
        /\ pending' \in BOOLEAN
    BY DEF List, files, ScanFails, ScanSucceeds, Reading, Typed
  <1>2. Typed'
    <2>1. at' \in {"idle", "resolve", "library", "metadata"}
      BY <1>1
    <2>2. changes \in Nat /\ changes' = changes /\ scanned' = changes
      BY <1>1 DEF Reading, Typed
    <2> QED BY <1>1, <2>1, <2>2 DEF Reading, Typed
  <1>3. Opened' /\ Noticed' /\ NotForgotten'
    BY <1>1 DEF Reading, Opened, Noticed, NotForgotten
  <1>4. Truthful'
    BY <1>1 DEF Reading, Truthful
  <1> QED BY <1>2, <1>3, <1>4 DEF Reading

LEMMA ResolveReading ==
    ASSUME Reading, Resolve
    PROVE  Reading'
  <1>1. /\ at = "resolve" /\ opened' = opened \cup {InBundle(metadataName.names)}
        /\ UNCHANGED <<metadataName, manifest, libraries, past, changes, specs, scanned, pending>>
        /\ \/ at' = "idle"
           \/ at' = "library" /\ LeadsTo(manifest, library')
    BY DEF Resolve, files, ScanFails
  <1>2. IsRelativeFilePath(metadataName) /\ pending
    BY <1>1 DEF Reading, Opened
  <1>3. Typed'
    BY <1>1 DEF Reading, Typed
  <1>4. Inside(InBundle(metadataName.names))
    BY <1>2, MetadataInside, FilesAssumption DEF Reading, Typed
  <1>5. at' = "library" => Inside(library')
    <2> SUFFICES ASSUME LeadsTo(manifest, library') PROVE Inside(library')
      BY <1>1
    <2>1. manifest \in Manifests /\ libraries \in LibraryStates
      BY DEF Reading, Typed, LeadsTo, Gone
    <2> QED BY <2>1, LibraryInside
  <1>6. Opened'
    BY <1>1, <1>2, <1>4, <1>5 DEF Reading, Opened
  <1>7. Noticed' /\ NotForgotten'
    BY <1>1, <1>2 DEF Noticed, NotForgotten, LeadsTo
  <1>8. Truthful'
    BY <1>1 DEF Reading, Truthful
  <1> QED BY <1>3, <1>6, <1>7, <1>8 DEF Reading

\* A scan ends with a loader for the file, which it has or leaves to another IID.
LEMMA ReadIidReading ==
    ASSUME Reading, ReadIid
    PROVE  Reading'
  <1>1. /\ at = "library" /\ opened' = opened \cup {library}
        /\ UNCHANGED <<metadataName, manifest, libraries, past, changes, library, specs, scanned>>
        /\ pending' \in BOOLEAN
        /\ \/ at' \in {"idle", "metadata"} /\ pending' = pending
           \/ at' = "idle" /\ library \in DOMAIN libraries
              /\ (library \in DOMAIN specs \/ libraries[library] # Iid)
    BY DEF ReadIid, files, ScanFails, ScanSucceeds, Reading, Typed
  <1>2. IsRelativeFilePath(metadataName) /\ pending /\ Inside(library)
    BY <1>1 DEF Reading, Opened
  <1>3. Typed'
    BY <1>1 DEF Reading, Typed
  <1>4. Opened'
    BY <1>1, <1>2 DEF Reading, Opened
  <1>5. Noticed' /\ NotForgotten'
    BY <1>1, <1>2 DEF Reading, Noticed, NotForgotten, LeadsTo
  <1>6. Truthful'
    BY <1>1 DEF Reading, Truthful
  <1> QED BY <1>3, <1>4, <1>5, <1>6 DEF Reading

LEMMA ReadMetadataReading ==
    ASSUME Reading, ReadMetadata
    PROVE  Reading'
  <1>1. /\ at = "metadata" /\ at' = "idle" /\ pending' = FALSE
        /\ opened' = opened \cup {library, InBundle(metadataName.names)}
        /\ UNCHANGED <<metadataName, manifest, libraries, past, changes, library, scanned>>
    BY DEF ReadMetadata, files, ScanSucceeds
  <1> DEFINE embedded == IF library \in DOMAIN libraries THEN libraries[library] ELSE Unreadable
             loader == IF embedded = Unreadable \/ ~manifest.json
                       THEN [iid |-> Unreadable, spec |-> Unread]
                       ELSE [iid |-> embedded, spec |-> SpecOf(manifest)]
  <1>2. /\ specs' = [path \in DOMAIN specs \cup {library} |->
                        IF path = library THEN loader ELSE specs[path]]
        /\ loader.spec = Unread \/ (manifest.json /\ loader.spec = SpecOf(manifest))
    <2>1. specs' = [path \in DOMAIN specs \cup {library} |->
                       IF path = library THEN loader ELSE specs[path]]
      BY DEF ReadMetadata
    <2>2. loader.spec = Unread \/ (manifest.json /\ loader.spec = SpecOf(manifest))
      <3>1. CASE embedded = Unreadable \/ ~manifest.json
        BY <3>1
      <3>2. CASE ~(embedded = Unreadable \/ ~manifest.json)
        BY <3>2
      <3> QED BY <3>1, <3>2
    <2> QED BY <2>1, <2>2
  <1> HIDE DEF loader
  <1>3. IsRelativeFilePath(metadataName) /\ pending /\ Inside(library)
    BY <1>1 DEF Reading, Opened
  <1>4. Inside(InBundle(metadataName.names))
    BY <1>3, MetadataInside, FilesAssumption DEF Reading, Typed
  <1>5. Typed'
    BY <1>1 DEF Reading, Typed
  <1>6. Opened'
    BY <1>1, <1>3, <1>4 DEF Reading, Opened
  <1>7. DOMAIN specs' = DOMAIN specs \cup {library}
    BY <1>2
  <1>8. Noticed' /\ NotForgotten'
    BY <1>1, <1>7 DEF Reading, Noticed, NotForgotten, LeadsTo
  <1>9. manifest.json => manifest \in Object /\ manifest \in past'
    BY <1>1, FilesAssumption DEF Reading, Typed, Gone
  <1>10. Truthful'
    <2> SUFFICES ASSUME NEW path \in DOMAIN specs'
                 PROVE  \/ specs'[path].spec = Unread
                        \/ \E m \in past' : m \in Object /\ specs'[path].spec = SpecOf(m)
      BY DEF Truthful
    <2>1. CASE path = library
      <3>1. specs'[path] = loader
        BY <1>2, <1>7, <2>1
      <3> QED BY <1>2, <1>9, <3>1
    <2>2. CASE path # library
      <3>1. path \in DOMAIN specs /\ specs'[path] = specs[path] /\ past' = past
        BY <1>1, <1>2, <1>7, <2>2
      <3> QED BY <3>1 DEF Reading, Truthful
    <2> QED BY <2>1, <2>2
  <1> QED BY <1>5, <1>6, <1>8, <1>10 DEF Reading

LEMMA StutterReading ==
    ASSUME Reading, UNCHANGED vars
    PROVE  Reading'
  <1>1. UNCHANGED <<metadataName, manifest, libraries, past, changes, at, library, pending,
                    specs, opened, scanned>>
    BY DEF vars, files
  <1> QED BY <1>1 DEF Reading, Typed, Opened, Truthful, Noticed, NotForgotten, LeadsTo

LEMMA AlwaysReading == Spec => []Reading
<1>1. Reading /\ [Next]_vars => Reading'
  BY ChangeReading, ReconfigureReading, ListReading, ResolveReading, ReadIidReading,
     ReadMetadataReading, StutterReading DEF Next
<1> QED BY <1>1, InitReading, PTL DEF Spec

\* Whatever the manifests name and whenever files change, nothing outside of the
\* bundle is opened.
THEOREM AlwaysInBundle == Spec => []StaysInBundle
<1>1. Reading => StaysInBundle
  <2> SUFFICES ASSUME Reading PROVE StaysInBundle
    OBVIOUS
  <2>1. opened # {} => ~metadataName.root
    BY DEF Reading, Opened, IsRelativeFilePath
  <2>2. \A path \in opened : Inside(path)
    BY DEF Reading, Opened
  <2> QED BY <2>1, <2>2, InsideStays DEF StaysInBundle
<1> QED BY <1>1, AlwaysReading, PTL

\* A spec that is offered for loading says what one manifest said, and no manifest
\* it could be made of is out of order; every other spec has an error.
THEOREM SpecsAlwaysSound == Spec => []SpecsSound
<1>1. Reading => SpecsSound
  <2> SUFFICES ASSUME Reading, NEW path \in DOMAIN specs
               PROVE  LET spec == specs[path].spec IN
                      IF spec.state = "Read"
                      THEN ~spec.error /\ \E m \in past : m.json /\ Describes(m, spec)
                      ELSE spec.error
    BY DEF SpecsSound
  <2>1. CASE specs[path].spec = Unread
    BY <2>1 DEF Unread
  <2>2. CASE \E m \in past : m \in Object /\ specs[path].spec = SpecOf(m)
    <3>1. PICK m \in past : m \in Object /\ specs[path].spec = SpecOf(m)
      BY <2>2
    <3>2. m.json
      BY <3>1 DEF Object
    <3> QED BY <3>1, <3>2, SpecFromObject
  <2> QED BY <2>1, <2>2 DEF Reading, Truthful
<1> QED BY <1>1, AlwaysReading, PTL

\* No bundle is forgotten: once its last scan is over it has a loader, unless it
\* is none of the IID's.
THEOREM NeverForgotten == Spec => []NotForgotten
BY AlwaysReading, PTL DEF Reading


=============================================================================
