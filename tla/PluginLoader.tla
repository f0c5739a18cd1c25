---------------------------- MODULE PluginLoader ----------------------------
(***************************************************************************)
(* PluginLoader: selecting a plugin reads its metadata, load() makes its   *)
(* instance live, unload() takes that back.  A loader is used by one       *)
(* thread; every function is one step.  What can be wrong with a file, a   *)
(* registration or a library is an outcome of the step that meets it.      *)
(***************************************************************************)

CONSTANTS Loaders

States == {"Null", "Invalid", "Read", "LoadFailed", "Loaded"}

Origins == {"FileSystem", "Static", "Runtime"}

\* The members of PluginLoader::Impl.  "iid" is whether iid and metadata are
\* set, "path" whether a file is selected, "provider" is staticInstance,
\* "library" whether a SharedLibrary is open, "plugin" the live instance.
Impl ==
    [state : States, hasError : BOOLEAN, origin : Origins, iid : BOOLEAN,
     path : BOOLEAN, provider : BOOLEAN, library : BOOLEAN, plugin : BOOLEAN]

VARIABLES
    impl,     \* the members of each loader
    result    \* auxiliary: each loader's last call and what it returned

loaderVars == <<impl, result>>

Set(l, i) == impl' = [impl EXCEPT ![l] = i]

Returns(l, call, ok) == result' = [result EXCEPT ![l] = [call |-> call, ok |-> ok]]

\* Mutant: a new selection keeps the instance of the old one.
Reset_KeepsPlugin(i) ==
    [state |-> "Null", hasError |-> FALSE, origin |-> "FileSystem", iid |-> FALSE,
     path |-> FALSE, provider |-> FALSE, library |-> FALSE, plugin |-> i.plugin]

\* reset(), which also closes a library.
Reset(i) ==
    [state |-> "Null", hasError |-> FALSE, origin |-> "FileSystem", iid |-> FALSE,
     path |-> FALSE, provider |-> FALSE, library |-> FALSE, plugin |-> FALSE]

ReportError(i, state) == [i EXCEPT !.hasError = TRUE, !.state = state]

ClearError(i) == [i EXCEPT !.hasError = FALSE]

-----------------------------------------------------------------------------
LoaderInit ==
    /\ impl = [l \in Loaders |-> Reset([plugin |-> FALSE])]
    /\ result = [l \in Loaders |-> [call |-> "none", ok |-> TRUE]]

\* readLibrary(): the path, the embedded text, its envelope or the external
\* metadata file is unusable; iid and metadata are published at the end only.
SetFilePath(l) ==
    /\ LET selected == [Reset(impl[l]) EXCEPT !.path = TRUE] IN
       \/ Set(l, ReportError(selected, "Invalid"))
       \/ Set(l, [selected EXCEPT !.iid = TRUE, !.state = "Read"])
    /\ Returns(l, "select", TRUE)

\* The IID is empty or the metadata is no object; the function that yields the
\* instance may be missing.
SetStaticPlugin(l) ==
    /\ LET selected == [Reset(impl[l]) EXCEPT !.origin = "Static"] IN
       \/ Set(l, ReportError(selected, "Invalid"))
       \/ \E provider \in BOOLEAN :
              Set(l, [selected EXCEPT !.iid = TRUE, !.provider = provider, !.state = "Read"])
    /\ Returns(l, "select", TRUE)

\* The IID is empty, the metadata is no object, or the instance is null.
SetPlugin(l) ==
    /\ LET selected == [Reset(impl[l]) EXCEPT !.origin = "Runtime"] IN
       \/ Set(l, ReportError(selected, "Invalid"))
       \/ Set(l, [selected EXCEPT !.iid = TRUE, !.plugin = TRUE, !.state = "Loaded"])
    /\ Returns(l, "select", TRUE)

\* load() of a live plugin forgets the error of an unload() that failed.
LoadAgain(l) ==
    /\ impl[l].state = "Loaded"
    /\ Set(l, ClearError(impl[l]))
    /\ Returns(l, "load", TRUE)

LoadRefused(l) ==
    /\ impl[l].state # "Loaded"
    /\ impl[l].hasError
    /\ Returns(l, "load", FALSE)
    /\ UNCHANGED impl

LoadStatic(l) ==
    LET i == impl[l] IN
    /\ i.state # "Loaded" /\ ~i.hasError
    /\ i.origin = "Static"
    /\ \/ /\ Set(l, ReportError(i, "LoadFailed"))
          /\ Returns(l, "load", FALSE)
       \/ /\ i.provider
          /\ Set(l, [i EXCEPT !.plugin = TRUE, !.state = "Loaded"])
          /\ Returns(l, "load", TRUE)

\* Mutant: a library without an instance stays open.
LibraryRejected_Open(i) == ReportError([i EXCEPT !.library = TRUE], "LoadFailed")

LibraryRejected(i) == ReportError([i EXCEPT !.library = FALSE], "LoadFailed")

\* The library does not open, exports no entry point or yields no instance; or
\* all went well.  A loader for which nothing was selected fails to open the
\* empty path.
LoadLibrary(l) ==
    LET i == impl[l] IN
    /\ i.state # "Loaded" /\ ~i.hasError
    /\ i.origin # "Static"
    /\ \/ Set(l, LibraryRejected(i)) /\ Returns(l, "load", FALSE)
       \/ /\ i.path
          /\ Set(l, [i EXCEPT !.library = TRUE, !.plugin = TRUE, !.state = "Loaded"])
          /\ Returns(l, "load", TRUE)

UnloadNothing(l) ==
    /\ impl[l].state # "Loaded"
    /\ Returns(l, "unload", TRUE)
    /\ UNCHANGED impl

UnloadForbidden(i) == i.origin # "FileSystem"

\* A static or runtime plugin, or a library that does not close.
UnloadFails(l) ==
    /\ impl[l].state = "Loaded"
    /\ Set(l, [impl[l] EXCEPT !.hasError = TRUE])
    /\ Returns(l, "unload", FALSE)

Unload(l) ==
    /\ impl[l].state = "Loaded"
    /\ ~UnloadForbidden(impl[l])
    /\ Set(l, ClearError([impl[l] EXCEPT !.library = FALSE, !.plugin = FALSE,
                                         !.state = "Read"]))
    /\ Returns(l, "unload", TRUE)

Select(l) == SetFilePath(l) \/ SetStaticPlugin(l) \/ SetPlugin(l)

Load(l) == LoadAgain(l) \/ LoadRefused(l) \/ LoadStatic(l) \/ LoadLibrary(l)

UnloadPlugin(l) == UnloadNothing(l) \/ UnloadFails(l) \/ Unload(l)

LoaderNext == \E l \in Loaders : Select(l) \/ Load(l) \/ UnloadPlugin(l)

LoaderSpec == LoaderInit /\ [][LoaderNext]_loaderVars

-----------------------------------------------------------------------------
(* Properties.                                                             *)

\* The members of every loader have their types.
TypeOK ==
    /\ impl \in [Loaders -> Impl]
    /\ result \in [Loaders -> [call : {"none", "select", "load", "unload"}, ok : BOOLEAN]]

\* Over selections, failed loads and failed unloads: an instance is live exactly
\* in the state Loaded, a library is open exactly for a live filesystem plugin,
\* and an error that is held belongs to a selection or a load that failed, or to
\* an unload() that left the plugin live.
Exact(i) ==
    /\ i.plugin <=> i.state = "Loaded"
    /\ i.library <=> i.state = "Loaded" /\ i.origin = "FileSystem"
    /\ i.state \in {"Invalid", "LoadFailed"} => i.hasError
    /\ i.hasError => i.state \in {"Invalid", "LoadFailed", "Loaded"}
    /\ i.state \in {"Read", "Loaded"} => i.iid

InstanceExact == \A l \in Loaders : Exact(impl[l])

\* load() returns whether the plugin is now live and unload() whether it is not,
\* and a call that returns false leaves its reason behind.
ResultsTruthful ==
    \A l \in Loaders :
        /\ result[l].call = "load" => (result[l].ok <=> impl[l].plugin)
        /\ result[l].call = "unload" => (result[l].ok <=> ~impl[l].plugin)
        /\ ~result[l].ok => impl[l].hasError

=============================================================================
