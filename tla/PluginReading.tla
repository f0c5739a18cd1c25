---------------------------- MODULE PluginReading ----------------------------
(***************************************************************************)
(* How a bundle becomes a PluginSpec: BundlePluginFactory finds it by its  *)
(* manifest and the library the manifest names, a PluginLoader reads the   *)
(* library and then the manifest again, and PluginSpecData reads the       *)
(* loader's metadata.  The steps of a scan are those that look at files,   *)
(* which other programs, an installer say, may change between them.        *)
(*                                                                         *)
(* Paths are sequences of components relative to the bundle, a component   *)
(* being a triple of prefix, name and suffix.                              *)
(***************************************************************************)
EXTENDS Integers, SequencesExt

CONSTANTS
    Iid,           \* the extension point that is scanned
    Unreadable,    \* what a file holds that is no library with usable metadata
    MetadataNames, \* the metadata file names of the factory considered
    Manifests,     \* the contents of the manifest considered
    LibraryStates, \* the library files considered: path -> IID or Unreadable
    MaxChanges     \* bound on the changes to the files

\* "json": a JSON object; "name", "description": paths and texts, of which only
\* the shape counts; "version": 0 if missing or malformed, and NoVersion null.
NoVersion == -1

Gone == [json |-> FALSE]

Empty == ""

\* Components that lead to no file.
Parent == <<Empty, "..", Empty>>

Nowhere == {<<Empty, ".", Empty>>, <<Empty, Empty, Empty>>}

Names == [root : BOOLEAN, names : Seq(STRING)]

\* What is read of a JSON object, whether or not it describes a plugin.
Object ==
    [json : {TRUE}, name : Names, id : STRING, displayName : BOOLEAN,
     description : BOOLEAN, version : Nat, compatVersion : Nat \cup {NoVersion},
     enabledByDefault : STRING,
     dependencies : [usable : BOOLEAN,
                     items : Seq([id : STRING, version : Nat, type : STRING])]]

\* A library is a regular file, so its path does not end in a directory's.
ASSUME FilesAssumption ==
    /\ MetadataNames \subseteq Names
    /\ \A content \in Manifests : content.json = FALSE \/ content \in Object
    /\ \A state \in LibraryStates : \A path \in DOMAIN state :
           Last(path) \notin Nowhere \cup {Parent}

VARIABLES
    metadataName,  \* metadataFileName, fixed
    manifest,      \* the manifest now, or Gone
    libraries,     \* the library files now
    at,            \* what the scan looks at next
    library,       \* the library it resolved the bundle to
    pending,       \* the IID is in pendingScans
    specs,         \* library -> the IID and the spec of its loader
    opened,        \* auxiliary: the paths that were opened
    past,          \* auxiliary: the contents the manifest has had
    changes,       \* auxiliary: the changes so far ...
    scanned        \* auxiliary: ... and when the last scan began

files == <<manifest, libraries, past, changes>>
vars == <<metadataName, files, at, library, pending, specs, opened, scanned>>

-----------------------------------------------------------------------------
(* Paths and names.                                                        *)

\* is_relative_file_path()
IsRelativeFilePath(path) ==
    /\ ~path.root /\ path.names # <<>>
    /\ Last(path.names) \notin {Empty, "."}
    /\ ".." \notin ToSet(path.names)

InBundle(names) == [k \in DOMAIN names |-> <<Empty, names[k], Empty>>]

\* Mutant: a name that leads elsewhere is accepted.
NameAllowed_Nested(name) == ~name.root /\ name.names # <<>>

NameAllowed(name) == ~name.root /\ Len(name.names) = 1

\* resolveLibraryPath(), in the order in which the candidates are tried.
LibraryCandidates(name) ==
    LET Path(prefix, suffix) ==
            InBundle(Front(name.names)) \o <<<<prefix, Last(name.names), suffix>>>>
    IN  <<Path(Empty, Empty), Path(Empty, ".so"), Path("lib", Empty), Path("lib", ".so")>>

\* The manifest leads to the first of its candidates that is a library.
LeadsTo(content, path) ==
    /\ content.json /\ NameAllowed(content.name) /\ path \in DOMAIN libraries
    /\ LET candidates == LibraryCandidates(content.name) IN
       \E i \in DOMAIN candidates :
           /\ candidates[i] = path
           /\ \A j \in 1 .. i - 1 : candidates[j] \notin DOMAIN libraries

-----------------------------------------------------------------------------
(* PluginSpecData::read().                                                 *)

Checks == <<"id", "displayName", "description", "version", "compatVersion",
            "compatNotNewer", "enabledByDefault", "dependencies">>

DependencyPasses(d) ==
    d.id # Empty /\ d.version > 0 /\ d.type \in {"required", "optional"}

\* A compatVersion that is null is the version.
CompatVersion(m) == IF m.compatVersion = NoVersion THEN m.version ELSE m.compatVersion

Passes(m, check) ==
    CASE check = "id" -> m.id # Empty
      [] check = "displayName" -> m.displayName
      [] check = "description" -> m.description
      [] check = "version" -> m.version > 0
      [] check = "compatVersion" -> m.compatVersion # 0
      [] check = "compatNotNewer" -> CompatVersion(m) <= m.version
      [] check = "enabledByDefault" -> m.enabledByDefault \in {"null", "TRUE", "FALSE"}
      [] check = "dependencies" ->
             m.dependencies.usable /\ \A d \in ToSet(m.dependencies.items) : DependencyPasses(d)

\* Mutant: a check that fails does not end the reading.
FirstFailure_Last(m) ==
    IF Passes(m, Last(Checks)) THEN 0 ELSE Len(Checks)

FirstFailure(m) == SelectInSeq(Checks, LAMBDA check : ~Passes(m, check))

\* The fields that come before the failure are set, the others have their defaults.
SpecOf(m) ==
    LET failure == FirstFailure(m)
        Got(check) == failure = 0 \/ \E i \in 1 .. failure - 1 : Checks[i] = check
        bad == SelectInSeq(m.dependencies.items, LAMBDA d : ~DependencyPasses(d))
        read == IF bad = 0 THEN m.dependencies.items ELSE SubSeq(m.dependencies.items, 1, bad - 1)
    IN  [state |-> IF failure = 0 THEN "Read" ELSE "Invalid",
         error |-> failure # 0,
         id |-> IF Got("id") THEN m.id ELSE Empty,
         version |-> IF Got("version") THEN m.version ELSE 0,
         compatVersion |-> IF Got("compatVersion") THEN CompatVersion(m) ELSE 0,
         enabled |-> Got("enabledByDefault") => m.enabledByDefault # "FALSE",
         dependencies |-> IF Got("enabledByDefault") THEN read ELSE <<>>]

\* What becomes of a loader with an error.
Unread == [state |-> "Invalid", error |-> TRUE, id |-> Empty, version |-> 0,
           compatVersion |-> 0, enabled |-> TRUE, dependencies |-> <<>>]

-----------------------------------------------------------------------------
Init ==
    /\ metadataName \in MetadataNames
    /\ manifest \in Manifests \cup {Gone}
    /\ libraries \in LibraryStates
    /\ at = "idle"
    /\ library = <<>>
    /\ pending = TRUE
    /\ specs = [path \in {} |-> Unread]
    /\ opened = {}
    /\ past = {manifest}
    /\ changes = 0
    /\ scanned = 0

Changing ==
    /\ changes < MaxChanges
    /\ changes' = changes + 1
    /\ UNCHANGED <<metadataName, at, library, pending, specs, opened, scanned>>

ChangeManifest ==
    /\ Changing
    /\ manifest' \in (Manifests \cup {Gone}) \ {manifest}
    /\ past' = past \cup {manifest'}
    /\ UNCHANGED libraries

ChangeLibraries ==
    /\ Changing
    /\ libraries' \in LibraryStates \ {libraries}
    /\ UNCHANGED <<manifest, past>>

\* Another search path is added, or the paths are replaced and set again.
Reconfigure ==
    /\ at = "idle"
    /\ pending' = TRUE
    /\ \/ UNCHANGED specs
       \/ specs' = [path \in {} |-> Unread]
    /\ UNCHANGED <<metadataName, files, at, library, opened, scanned>>

\* Mutant: a scan that failed is not repeated.
ScanFails_Over == at' = "idle" /\ pending' = FALSE

ScanFails == at' = "idle" /\ UNCHANGED pending

ScanSucceeds == at' = "idle" /\ pending' = FALSE

\* BundlePluginFactory::scanPluginPaths(): a directory with a manifest is a
\* candidate.
List ==
    /\ at = "idle" /\ pending
    /\ scanned' = changes
    /\ \/ ~IsRelativeFilePath(metadataName) /\ ScanFails
       \/ /\ IsRelativeFilePath(metadataName)
          /\ IF manifest = Gone THEN ScanSucceeds ELSE at' = "resolve" /\ UNCHANGED pending
    /\ UNCHANGED <<metadataName, files, library, specs, opened>>

\* resolvePluginPath()
Resolve ==
    /\ at = "resolve"
    /\ opened' = opened \cup {InBundle(metadataName.names)}
    /\ \/ /\ \A path \in DOMAIN libraries : ~LeadsTo(manifest, path)
          /\ ScanFails /\ UNCHANGED library
       \/ /\ \E path \in DOMAIN libraries : LeadsTo(manifest, path) /\ library' = path
          /\ at' = "library"
          /\ UNCHANGED pending
    /\ UNCHANGED <<metadataName, files, specs, scanned>>

\* The canonical path and, for a file that was not read before, the embedded IID.
ReadIid ==
    /\ at = "library"
    /\ \/ library \notin DOMAIN libraries /\ ScanFails
       \/ /\ library \in DOMAIN libraries
          /\ IF library \in DOMAIN specs \/ libraries[library] # Iid
             THEN ScanSucceeds
             ELSE at' = "metadata" /\ UNCHANGED pending
    /\ opened' = opened \cup {library}
    /\ UNCHANGED <<metadataName, files, library, specs, scanned>>

\* The library and its manifest are read once more.  Whatever comes of it, the
\* loader is kept and a spec made of it.
ReadMetadata ==
    /\ at = "metadata"
    /\ LET embedded == IF library \in DOMAIN libraries THEN libraries[library] ELSE Unreadable
           loader == IF embedded = Unreadable \/ ~manifest.json
                     THEN [iid |-> Unreadable, spec |-> Unread]
                     ELSE [iid |-> embedded, spec |-> SpecOf(manifest)]
       IN  specs' = [path \in DOMAIN specs \cup {library} |->
                        IF path = library THEN loader ELSE specs[path]]
    /\ ScanSucceeds
    /\ opened' = opened \cup {library, InBundle(metadataName.names)}
    /\ UNCHANGED <<metadataName, files, library, scanned>>

Next ==
    \/ ChangeManifest \/ ChangeLibraries \/ Reconfigure
    \/ List \/ Resolve \/ ReadIid \/ ReadMetadata

Spec == Init /\ [][Next]_vars

-----------------------------------------------------------------------------
(* Properties.                                                             *)

\* How deep below the bundle the first k components of a path lead.
Depth(path, k) ==
    Cardinality({j \in 1 .. k : path[j] \notin Nowhere \cup {Parent}})
        - Cardinality({j \in 1 .. k : path[j] = Parent})

\* Whatever names the host and the manifest come with, only files inside the
\* bundle are opened.
StaysInBundle ==
    /\ opened # {} => ~metadataName.root
    /\ \A path \in opened :
           (\A k \in DOMAIN path : Depth(path, k) >= 0) /\ Depth(path, Len(path)) > 0

\* What makes a manifest the description of a plugin, and a spec say the same.
Describes(m, spec) ==
    /\ m.json /\ m.displayName /\ m.description
    /\ spec.id = m.id /\ m.id # Empty
    /\ spec.version = m.version
    /\ spec.compatVersion \in 1 .. spec.version
    /\ m.compatVersion \in {NoVersion, spec.compatVersion}
    /\ m.compatVersion = NoVersion => spec.compatVersion = spec.version
    /\ m.enabledByDefault \in {"null", IF spec.enabled THEN "TRUE" ELSE "FALSE"}
    /\ m.enabledByDefault = "null" => spec.enabled
    /\ m.dependencies.usable /\ spec.dependencies = m.dependencies.items
    /\ \A d \in ToSet(spec.dependencies) :
           d.id # Empty /\ d.version > 0 /\ d.type \in {"required", "optional"}

\* A spec that is offered for loading says what one content of the manifest said,
\* the whole of which is in order, and never parts of two; every other spec has
\* an error that says why it is not.
SpecsSound ==
    \A path \in DOMAIN specs :
        LET spec == specs[path].spec IN
        IF spec.state = "Read"
        THEN ~spec.error /\ \E m \in past : m.json /\ Describes(m, spec)
        ELSE spec.error

\* Unless the files changed after the last scan began, a bundle that no scan is
\* pending for is no plugin of the IID, or it has a spec, also when its manifest
\* is broken: it is neither forgotten nor dropped without a word.
NotForgotten ==
    (at = "idle" /\ ~pending /\ changes = scanned) =>
        \/ manifest = Gone
        \/ \E path \in DOMAIN libraries :
              LeadsTo(manifest, path) /\ (path \in DOMAIN specs \/ libraries[path] # Iid)

=============================================================================
