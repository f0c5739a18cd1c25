--------------------------- MODULE PluginDiscovery ---------------------------
(***************************************************************************)
(* A PluginSystem up to the moment loadPlugins() freezes it and selects    *)
(* the plugins to load: search paths, settings and the load predicate are  *)
(* replaced, and plugins() and hasError() scan for specs, on any thread.   *)
(* configMtx makes each locked section one step; plugins() and hasError()  *)
(* look at loadStarted under the shared lock, give it up, and look again   *)
(* under the exclusive one.  The load predicate is called without it.      *)
(*                                                                         *)
(* The system owns its factory, so the only calls the factory gets are the *)
(* ones below.  pluginData maps the address of a loader to the data read   *)
(* from it when the address was first seen.                                *)
(***************************************************************************)
EXTENDS PluginFactory, PluginSettings

CONSTANTS
    SystemIid,
    IdOf,              \* file -> the id in its metadata
    EnabledByMetadata,
    Broken,            \* files whose metadata is no description of a plugin
    Predicates,        \* the load predicates: the files each accepts
    Documents          \* the settings documents the host may come with

ASSUME MetadataAssumption ==
    /\ SystemIid \in Iids
    /\ IdOf \in [Files -> Ids \cup {EmptyId}] /\ EnabledByMetadata \in [Files -> BOOLEAN]
    /\ Broken \subseteq Files /\ Predicates \subseteq SUBSET Files
ASSUME DocumentAssumption ==
    \A document \in Documents :
        IsMember(document.enabledPlugins) /\ IsMember(document.disabledPlugins)

Scopes == {"Global", "Local"}

VARIABLES
    pluginData,      \* the entries of the linked_map, in their order
    settings,        \* globalSettings and localSettings
    said,            \* auxiliary: what the document each was set from, or written to, says
    loadPredicate,
    loadStarted,
    selecting,       \* loadPlugins() is in selectPlugins() ...
    selections,      \* ... and these are the selections it has made so far
    asking           \* the threads in plugins() that await the exclusive lock

configuration == <<settings, said, loadPredicate>>
progress == <<loadStarted, selecting, selections>>
discoveryVars == <<factoryVars, pluginData, configuration, progress, asking>>

\* The ids that a document names in its lists.
Said(document) ==
    [on |-> ToSet(document.enabledPlugins.items), off |-> ToSet(document.disabledPlugins.items)]

\* applySettings()
Applied(data, current) ==
    LET Global(e) == EnabledOr(current["Global"], IdOf[e.file], EnabledByMetadata[e.file])
    IN  [i \in DOMAIN data |->
            [data[i] EXCEPT !.enabledByGlobal = Global(data[i]),
                            !.enabled = EnabledOr(current["Local"], IdOf[data[i].file],
                                                  Global(data[i]))]]

\* The loaders of filesystem plugins among those the factory returns.
SystemLoaders == Kept(loaders[SystemIid], FileLoaders)

\* Mutant: the data of a loader that is gone stays.
KeptData_All(found) == pluginData

KeptData(found) ==
    Kept(pluginData, {e \in ToSet(pluginData) : e.loader \in ToSet(found)})

\* try_emplace() reads the loaders that pluginData does not know.
NewData(found, heap) ==
    LET known == {pluginData[i].loader : i \in DOMAIN pluginData}
        new == Kept(found, ToSet(found) \ known)
    IN  [i \in DOMAIN new |->
            [loader |-> new[i], file |-> heap[new[i]].file,
             enabledByGlobal |-> EnabledByMetadata[heap[new[i]].file],
             enabled |-> EnabledByMetadata[heap[new[i]].file],
             selected |-> TRUE]]

\* Mutant: the settings are applied when they are set only.
AfterScan_Unapplied(data) == data

AfterScan(data) == Applied(data, settings)

\* plugins(true) of the Impl.  No catalog observes the system's factory.
Discover ==
    /\ ScanIfNeeded(SystemIid)
    /\ LET found == SystemLoaders'
       IN  pluginData' = AfterScan(KeptData(found) \o NewData(found, loader'))
    /\ UNCHANGED <<query, dirty>>

-----------------------------------------------------------------------------
\* A custom factory may bring a plugin that is not of the filesystem.
DiscoveryInit ==
    /\ \/ FactoryInit
       \/ \E place \in Addresses :
              /\ pluginPaths = [iid \in Iids |-> <<>>]
              /\ loaders = [iid \in Iids |-> IF iid = SystemIid THEN <<place>> ELSE <<>>]
              /\ loader = [a \in {place} |-> NewLoader("Runtime", NoFile, SystemIid)]
              /\ readPluginFiles = {} /\ pendingScans = {} /\ retired = {} /\ skipped = {}
              /\ dirty = [iid \in Iids |-> TRUE]
              /\ query = [t \in Threads |-> NoIid]
    /\ pluginData = <<>>
    /\ settings = [scope \in Scopes |-> NoOverrides]
    /\ said = [scope \in Scopes |-> Said(ToJson(NoOverrides))]
    /\ loadPredicate = Files
    /\ loadStarted = FALSE /\ selecting = FALSE /\ selections = <<>>
    /\ asking = {}

\* Mutant: the setters only mind the passes that follow the selection.
Configurable_Selecting == ~loadStarted \/ selecting

Configurable == ~loadStarted

SetSystemPaths(paths) ==
    /\ Configurable
    /\ SetPluginPaths(SystemIid, paths)
    /\ UNCHANGED <<query, pluginData, configuration, progress, asking>>

SetPluginSettings(scope, overrides) ==
    /\ Configurable
    /\ settings' = [settings EXCEPT ![scope] = overrides]
    /\ pluginData' = Applied(pluginData, settings')
    /\ UNCHANGED <<factoryVars, loadPredicate, progress, asking>>

\* The host reads settings from a document, and sets them if that succeeds.
LoadSettings(scope, source) ==
    /\ FromJson(source).ok
    /\ SetPluginSettings(scope, FromJson(source).overrides)
    /\ said' = [said EXCEPT ![scope] = Said(source)]

\* The host, which changes settings on one thread, changes those of one plugin
\* and writes them down.
EditSettings(scope, id) ==
    /\ \/ \E enabled \in BOOLEAN :
              SetPluginSettings(scope, Override(settings[scope], id, enabled))
       \/ SetPluginSettings(scope, Forget(settings[scope], id))
    /\ said' = [said EXCEPT ![scope] = Said(ToJson(settings'[scope]))]

SetPluginLoadPredicate(accepted) ==
    /\ Configurable
    /\ loadPredicate' = accepted
    /\ UNCHANGED <<factoryVars, pluginData, settings, said, progress, asking>>

\* plugins() and hasError() before loading: the shared lock is given up.
AskShared(t) ==
    /\ t \notin asking
    /\ ~loadStarted
    /\ asking' = asking \cup {t}
    /\ UNCHANGED <<factoryVars, pluginData, configuration, progress>>

\* Mutant: what was seen under the shared lock is relied upon.
ScanStill_Assumed == TRUE

ScanStill == ~loadStarted

AskExclusive(t) ==
    /\ t \in asking
    /\ IF ScanStill THEN Discover ELSE UNCHANGED <<factoryVars, pluginData>>
    /\ asking' = asking \ {t}
    /\ UNCHANGED <<configuration, progress>>

\* The section of loadPlugins() under configMtx.
StartLoading ==
    /\ ~loadStarted
    /\ Discover
    /\ loadStarted' = TRUE /\ selecting' = TRUE
    /\ UNCHANGED <<configuration, selections, asking>>

\* selectPlugins() calls the predicate for one spec after the other, passing
\* over the invalid ones, ...
AskPredicate ==
    /\ selecting /\ Len(selections) < Len(pluginData)
    /\ LET data == pluginData[Len(selections) + 1] IN
       selections' = Append(selections,
                            IF data.file \in Broken THEN data.selected
                            ELSE data.file \in loadPredicate)
    /\ UNCHANGED <<factoryVars, pluginData, configuration, loadStarted, selecting, asking>>

\* ... and commits what it said at once.
CommitSelections ==
    /\ selecting /\ Len(selections) = Len(pluginData)
    /\ pluginData' = [i \in DOMAIN pluginData |->
                         [pluginData[i] EXCEPT !.selected = selections[i]]]
    /\ selecting' = FALSE
    /\ UNCHANGED <<factoryVars, configuration, loadStarted, selections, asking>>

DiscoveryNext ==
    \/ \E paths \in PathSequences : SetSystemPaths(paths)
    \/ \E scope \in Scopes :
           \/ \E source \in Documents : LoadSettings(scope, source)
           \/ \E id \in Ids : EditSettings(scope, id)
    \/ \E accepted \in Predicates : SetPluginLoadPredicate(accepted)
    \/ \E t \in Threads : AskShared(t) \/ AskExclusive(t)
    \/ StartLoading \/ AskPredicate \/ CommitSelections

DiscoverySpec == DiscoveryInit /\ [][DiscoveryNext]_discoveryVars

-----------------------------------------------------------------------------
(* Properties.                                                             *)

\* Every spec is enabled as the documents of the settings say, the local one
\* before the global one before the metadata, however scans and changes of the
\* settings were interleaved; a document that says two things is not in force.
EnabledByDocuments ==
    /\ \A scope \in Scopes : said[scope].on \cap said[scope].off = {}
    /\ \A i \in DOMAIN pluginData :
           LET e == pluginData[i]
               Decided(scope, fallback) ==
                   \/ IdOf[e.file] \in said[scope].on
                   \/ fallback /\ IdOf[e.file] \notin said[scope].off
           IN  /\ e.enabledByGlobal <=> Decided("Global", EnabledByMetadata[e.file])
               /\ e.enabled <=> Decided("Local", e.enabledByGlobal)

\* Settings that are written down and read again are the same settings, so what
\* one session of the host saves is what the next one gets.
SettingsRoundTrip ==
    \A scope \in Scopes :
        FromJson(ToJson(settings[scope])) = [ok |-> TRUE, overrides |-> settings[scope]]

\* Once loading has started, the specs are those of the factory's filesystem
\* loaders, each once, so that no spec that resolution and loading work on
\* refers to a loader that was discarded.
StartedWithLoaders ==
    loadStarted =>
        /\ {pluginData[i].loader : i \in DOMAIN pluginData} = ToSet(SystemLoaders)
        /\ Len(pluginData) = Len(SystemLoaders)

\* From then on neither the specs, apart from their selection, nor the loaders
\* behind them change, also not by a query that looked at loadStarted before.
FrozenAfterStart ==
    [][loadStarted =>
           /\ UNCHANGED <<settings, loadPredicate, loaders, loader>>
           /\ DOMAIN pluginData' = DOMAIN pluginData
           /\ \A i \in DOMAIN pluginData :
                  \A field \in DOMAIN pluginData[i] \ {"selected"} :
                      pluginData'[i][field] = pluginData[i][field]
      ]_discoveryVars

\* The selection is that of one predicate, the one in force when loading started,
\* and comes at once: queries that the predicate or other threads make meanwhile
\* see every spec selected.  Invalid specs stay selected, so that they are
\* reported as invalid and not as deselected.
SelectedByPredicate ==
    \A i \in DOMAIN pluginData :
        pluginData[i].selected <=>
            \/ ~loadStarted \/ selecting
            \/ pluginData[i].file \in Broken \cup loadPredicate

\* The spec of a loader describes the file that the loader has selected.
SpecsDescribeLoaders ==
    \A i \in DOMAIN pluginData :
        pluginData[i].loader \in Live =>
            loader[pluginData[i].loader].file = pluginData[i].file

=============================================================================
