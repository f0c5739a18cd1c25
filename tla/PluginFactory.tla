---------------------------- MODULE PluginFactory ----------------------------
(***************************************************************************)
(* PluginFactory, which owns the loaders of plugins: the search paths and  *)
(* lazy scans of every IID, the files that have become loaders, and the    *)
(* loaders that the program loads and unloads through the pointers it is   *)
(* given.  Every function takes plugins_mtx for the whole of its work, so  *)
(* it is one step, except plugins(), which looks under the shared lock     *)
(* first and comes back under the exclusive one if it has to scan.         *)
(*                                                                         *)
(* A file stands for a canonical path.  Directories hold the files they    *)
(* list in their sorted order; a directory reached under two names, or a   *)
(* link to a file, makes a file appear twice.                              *)
(***************************************************************************)
EXTENDS Integers, SequencesExt

CONSTANTS
    Iids,        \* the extension points
    Directories,
    Files,       \* plugin libraries, by canonical path
    FilesIn,     \* directory -> the libraries (or bundles) in it, sorted
    IidOf,       \* file -> the IID its metadata names, or NoIid if none is read
    Flat,        \* PluginFactory itself; FALSE stands for a factory with external
                 \* metadata, such as BundlePluginFactory
    Unusable,    \* files whose external metadata the loader rejects
    StaticPlugins,  \* IID -> the number of static plugins registered for it
    Addresses,   \* where loaders may be allocated
    Reuse,       \* whether a freed address may be allocated again
    Faults,      \* what a scan may fail to access: a fault is the directories and
                 \* files whose failure it notices, and the libraries it cannot read
    MaxPaths,    \* bound on the search paths of an IID
    Threads,
    NoFile,
    NoIid

ASSUME FileAssumption ==
    /\ NoFile \notin Files /\ NoIid \notin Iids
    /\ IidOf \in [Files -> Iids \cup {NoIid}]
    /\ FilesIn \in [Directories -> Seq(Files)]
ASSUME FactoryAssumption ==
    /\ StaticPlugins \in [Iids -> Nat]
    /\ Unusable \subseteq Files /\ (Flat => Unusable = {})
    /\ Flat \in BOOLEAN /\ Reuse \in BOOLEAN /\ MaxPaths \in Nat
    /\ Faults \subseteq [noticed : SUBSET (Directories \cup Files), unread : SUBSET Files]

Origins == {"FileSystem", "Static", "Runtime"}

\* What the factory needs to know of a PluginLoader.
Loader ==
    [origin : Origins, file : Files \cup {NoFile}, iid : Iids \cup {NoIid},
     loaded : BOOLEAN]

VARIABLES
    pluginPaths,      \* IID -> the canonical search paths
    loaders,          \* IID -> the addresses of its loaders
    loader,           \* address -> the loader there, of the addresses in use
    readPluginFiles,
    pendingScans,
    dirty,            \* IID -> the flag of the observer a catalog of it registered
    retired,          \* freed addresses that are not allocated again
    skipped,          \* auxiliary: files passed over because the last scan of their
                      \* IID could not read them
    query             \* thread -> the IID whose plugins() awaits the exclusive lock

factoryVars == <<pluginPaths, loaders, loader, readPluginFiles, pendingScans,
                 dirty, retired, skipped, query>>

Live == DOMAIN loader

FreeAddresses == Addresses \ (Live \cup retired)

FileLoaders == {a \in Live : loader[a].origin = "FileSystem"}

\* The elements of a sequence that are in S, in their order.
Kept(s, S) ==
    LET kept[n \in 0 .. Len(s)] ==
            IF n = 0 THEN <<>>
            ELSE IF s[n] \in S THEN Append(kept[n - 1], s[n]) ELSE kept[n - 1]
    IN  kept[Len(s)]

-----------------------------------------------------------------------------
(* Discarding and scanning.                                                *)

\* Mutant: a live plugin instance does not protect its loader.
Discarded_All(iid) == ToSet(loaders[iid]) \cap FileLoaders

\* discardUnloadedFilePlugins(): the loaders it removes.
Discarded(iid) ==
    {a \in ToSet(loaders[iid]) \cap FileLoaders : ~loader[a].loaded}

\* Mutant: their pointers stay in the list.
Without_None(iid, gone) == loaders[iid]

Without(iid, gone) == Kept(loaders[iid], Addresses \ gone)

\* The IID that a scan reads from a library.  One that cannot be opened or read
\* has none, as has one without metadata.
ReadIid(f, fault) == IF f \in fault.unread THEN NoIid ELSE IidOf[f]

\* scanPluginPaths(): a flat directory yields the libraries of the IID.
Listed(iid, directory, fault) ==
    IF Flat THEN Kept(FilesIn[directory], {f \in Files : ReadIid(f, fault) = iid})
            ELSE FilesIn[directory]

\* The candidates of the directories that can be listed, in search order.
Candidates(iid, fault) ==
    LET paths == pluginPaths[iid]
        found[n \in 0 .. Len(paths)] ==
            IF n = 0 THEN <<>>
            ELSE found[n - 1] \o (IF paths[n] \in fault.noticed THEN <<>>
                                  ELSE Listed(iid, paths[n], fault))
    IN  found[Len(paths)]

\* Mutant: files seen in this scan are looked up in the earlier ones only.
Read_Before(found) == readPluginFiles

Read(found) == readPluginFiles \cup ToSet(found)

\* The files that become loaders, in order: a candidate that does not resolve to
\* a canonical path is left out, and one whose IID is another or cannot be read.
NewFiles(iid, fault) ==
    LET candidates == Candidates(iid, fault)
        Visit(found, f) ==
            IF f \in fault.noticed \/ f \in Read(found) \/ ReadIid(f, fault) # iid
            THEN found ELSE Append(found, f)
        visited[n \in 0 .. Len(candidates)] ==
            IF n = 0 THEN <<>> ELSE Visit(visited[n - 1], candidates[n])
    IN  visited[Len(candidates)]

\* Mutant: only directories count.
ScanSucceeds_Directories(iid, fault) == ToSet(pluginPaths[iid]) \cap fault.noticed = {}

\* A directory that is not listed or a candidate that does not resolve fails the
\* scan; a library that cannot be read does not.
ScanSucceeds(iid, fault) ==
    (ToSet(pluginPaths[iid]) \cup ToSet(Candidates(iid, fault))) \cap fault.noticed = {}

\* The files of the IID that the scan passes over because it cannot read them.
PassedOver(iid, fault) ==
    {f \in fault.unread \ readPluginFiles : IidOf[f] = iid}

\* A loader that was given external metadata it rejects has no IID any more, but
\* stays in the list of the IID it was found for.
NewLoader(origin, file, iid) ==
    [origin |-> origin, file |-> file, iid |-> IF file \in Unusable THEN NoIid ELSE iid,
     loaded |-> origin = "Runtime"]

\* Allocates loaders for the files at the given addresses.
Allocate(iid, origin, files, places) ==
    LET Index(a) == CHOOSE i \in DOMAIN places : places[i] = a IN
    /\ loader' = [a \in Live \cup ToSet(places) |->
                     IF a \in Live THEN loader[a]
                                   ELSE NewLoader(origin, files[Index(a)], iid)]
    /\ loaders' = [loaders EXCEPT ![iid] = @ \o places]
    /\ UNCHANGED retired

\* notifyObservers(), if the loaders of the IID change.
Notified(iid, changed) == [dirty EXCEPT ![iid] = @ \/ changed]

Places(n) ==
    {s \in [1 .. n -> FreeAddresses] : IsInjective(s)}

\* scanPlugins(), up to the notification.  Without search paths nothing is
\* found and the scan succeeds.
Scan(iid) ==
    \E fault \in Faults : \E places \in Places(Len(NewFiles(iid, fault))) :
        /\ Allocate(iid, "FileSystem", NewFiles(iid, fault), places)
        /\ readPluginFiles' = readPluginFiles \cup ToSet(NewFiles(iid, fault))
        /\ pendingScans' = IF ScanSucceeds(iid, fault) THEN pendingScans \ {iid} ELSE pendingScans
        /\ skipped' = {f \in skipped : IidOf[f] # iid} \cup PassedOver(iid, fault)
        /\ UNCHANGED pluginPaths

NeedsScan(iid) == iid \in pendingScans

ScanIfNeeded(iid) ==
    IF NeedsScan(iid) THEN Scan(iid)
    ELSE UNCHANGED <<pluginPaths, loaders, loader, readPluginFiles, pendingScans, retired,
                     skipped>>

-----------------------------------------------------------------------------
FactoryInit ==
    /\ pluginPaths = [iid \in Iids |-> <<>>]
    /\ loaders = [iid \in Iids |-> <<>>]
    /\ loader = [a \in {} |-> NewLoader("Runtime", NoFile, NoIid)]
    /\ readPluginFiles = {}
    /\ pendingScans = {}
    /\ dirty = [iid \in Iids |-> TRUE]
    /\ retired = {}
    /\ skipped = {}
    /\ query = [t \in Threads |-> NoIid]

\* "paths" are the arguments that resolve to a directory; the others are
\* dropped.
SetPluginPaths(iid, paths) ==
    /\ paths # pluginPaths[iid]
    /\ LET gone == Discarded(iid) IN
       /\ loaders' = [loaders EXCEPT ![iid] = Without(iid, gone)]
       /\ loader' = [a \in Live \ gone |-> loader[a]]
       /\ readPluginFiles' = readPluginFiles \ {loader[a].file : a \in gone}
       /\ dirty' = Notified(iid, gone # {})
       /\ retired' = IF Reuse THEN retired ELSE retired \cup gone
    /\ pluginPaths' = [pluginPaths EXCEPT ![iid] = paths]
    /\ pendingScans' = pendingScans \cup {iid}
    /\ UNCHANGED skipped

AddPluginPath(iid, directory) ==
    /\ Len(pluginPaths[iid]) < MaxPaths
    /\ pluginPaths' = [pluginPaths EXCEPT ![iid] = Append(@, directory)]
    /\ pendingScans' = pendingScans \cup {iid}
    /\ UNCHANGED <<loaders, loader, readPluginFiles, dirty, retired, skipped>>

AddPlugins(iid, origin, n) ==
    /\ n > 0
    /\ \E places \in Places(n) : Allocate(iid, origin, [i \in 1 .. n |-> NoFile], places)
    /\ dirty' = Notified(iid, TRUE)
    /\ UNCHANGED <<pluginPaths, readPluginFiles, pendingScans, skipped>>

AddRuntimePlugin(iid) == AddPlugins(iid, "Runtime", 1)

\* Every call adds loaders for all the static plugins of the IID.
AddStaticPlugins(iid) == AddPlugins(iid, "Static", StaticPlugins[iid])

\* plugins() under the shared lock: an answer at once, or a scan to come.
QueryShared(t, iid) ==
    /\ query[t] = NoIid
    /\ NeedsScan(iid)
    /\ query' = [query EXCEPT ![t] = iid]
    /\ UNCHANGED <<pluginPaths, loaders, loader, readPluginFiles, pendingScans,
                   dirty, retired, skipped>>

QueryExclusive(t) ==
    /\ query[t] # NoIid
    /\ ScanIfNeeded(query[t])
    /\ dirty' = Notified(query[t], loaders' # loaders)
    /\ query' = [query EXCEPT ![t] = NoIid]

\* The program loads or unloads a plugin it was given.  A loader with an error
\* does not load, and only a library is unloaded.
Load(a) ==
    /\ a \in Live /\ ~loader[a].loaded /\ loader[a].iid # NoIid
    /\ loader' = [loader EXCEPT ![a].loaded = TRUE]
    /\ UNCHANGED <<pluginPaths, loaders, readPluginFiles, pendingScans, dirty,
                   retired, skipped>>

Unload(a) ==
    /\ a \in FileLoaders /\ loader[a].loaded
    /\ loader' = [loader EXCEPT ![a].loaded = FALSE]
    /\ UNCHANGED <<pluginPaths, loaders, readPluginFiles, pendingScans, dirty,
                   retired, skipped>>

PathSequences == SeqOf(Directories, MaxPaths)

Configure ==
    \E iid \in Iids :
        \/ \E paths \in PathSequences : SetPluginPaths(iid, paths)
        \/ \E directory \in Directories : AddPluginPath(iid, directory)
        \/ AddRuntimePlugin(iid) \/ AddStaticPlugins(iid)

Use == \E a \in Live : Load(a) \/ Unload(a)

Query ==
    \E t \in Threads : QueryExclusive(t) \/ \E iid \in Iids : QueryShared(t, iid)

FactoryNext == Query \/ ((Configure \/ Use) /\ UNCHANGED query)

FactorySpec == FactoryInit /\ [][FactoryNext]_factoryVars

-----------------------------------------------------------------------------
(* Properties.                                                             *)

\* The variables have their types, and plugins() hands out no pointer to a loader
\* that was discarded.
FactoryTypeOK ==
    /\ pluginPaths \in [Iids -> Seq(Directories)]
    /\ loaders \in [Iids -> Seq(Addresses)]
    /\ Live \subseteq Addresses /\ \A a \in Live : loader[a] \in Loader
    /\ \A iid \in Iids : ToSet(loaders[iid]) \subseteq Live
    /\ readPluginFiles \subseteq Files /\ pendingScans \subseteq Iids
    /\ dirty \in [Iids -> BOOLEAN]
    /\ query \in [Threads -> Iids \cup {NoIid}]

\* readPluginFiles holds exactly the files of the filesystem loaders, over all
\* discards and scans; no file has two loaders, also when it is found twice.
FilesTracked ==
    /\ readPluginFiles = {loader[a].file : a \in FileLoaders}
    /\ \A a, b \in FileLoaders : loader[a].file = loader[b].file => a = b

\* The files of the IID in its search paths that have no loader.
Missing(iid) ==
    {f \in UNION {ToSet(FilesIn[pluginPaths[iid][i]]) : i \in DOMAIN pluginPaths[iid]} :
        IidOf[f] = iid /\ \A a \in FileLoaders : loader[a].file # f}

\* When no scan is pending, every file of the IID in its search paths has a
\* loader: what a scan that failed left out is not forgotten.  Excepted are the
\* libraries that the last scan could not read, which does not fail the scan.
ScanComplete == \A iid \in Iids \ pendingScans : Missing(iid) \subseteq skipped

\* The failures that docs/TODO.md:7 says have to be retried, with those of reading
\* a library: a file of the IID has a loader or a scan is pending.  pluginfactory.cpp
\* :137-140 takes a library it cannot read for one of another IID.
FailuresRetried == \A iid \in Iids \ pendingScans : Missing(iid) = {}

\* A loader whose plugin instance is live, or that is not of the filesystem, is
\* never discarded, so the pointers the program holds to it stay valid.
LivePluginsKept ==
    [][\A a \in Live : loader[a].loaded \/ loader[a].origin # "FileSystem" =>
           /\ a \in DOMAIN loader'
           /\ loader'[a].file = loader[a].file
           /\ a \in ToSet(loaders'[loader[a].iid])]_factoryVars

=============================================================================
