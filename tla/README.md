# stdcorelib.plugin in TLA+

TLA+ models of the plugin loader, factory, catalog and plugin system of
stdcorelib.plugin, the configurations that check them with TLC, and theorems
about them that TLAPS proves. Paths below are relative to the repository's root;
`pluginsystem.cpp` and the other sources without a path are in `src/plugin` and
`src/pluginsystem`, the headers in `include/stdcorelib`.

    tlc -workers 2 -config MCPluginLifecycle_Threads.cfg MCPluginLifecycle
    tlapm DependencyResolutionProofs.tla

`PROJECT.json` lists the runs, the mutants that show each property can fail, the
source lines behind each definition, the hazards and the theorems.

## Inventory

| Component | State | Operations | Interacts with |
| --- | --- | --- | --- |
| `PluginLoader` | origin, state, error, IID, path, open library, live instance | `setFilePath`, `setStaticPlugin`, `setPlugin`, `load`, `unload` | the metadata decoder, `SharedLibrary` |
| metadata decoder (`pluginloader_linux/mac/win.cpp`) | none; a chain of bounds checks and reads | `decodeEmbeddedText` | a file it does not trust |
| `PluginFactory` | search paths, loaders by IID, files already read, pending scans, observers, all under `plugins_mtx` | `setPluginPaths`, `addPluginPath`, `addStaticPlugins`, `addRuntimePlugin`, `plugins` | owns the loaders, tells observers of changes; callers load and unload through the pointers they are given |
| `BundlePluginFactory` | the metadata file name | `scanPluginPaths`, `resolvePluginPath` | called by a scan; reads manifests and looks for libraries that other programs may change |
| `PluginCatalog` | an index of loaders by key, an observer with a dirty flag | `loaders`, `keys`, `loader` | owns a factory and takes its mutex |
| `PluginSpec`, `PluginSpecData` | state, error, metadata, enabled and selected flags | `read`, `reportError` | created by the system for a loader, whose metadata it reads |
| `PluginDependency` | an id, a version, a type | | |
| `PluginSettings` | overrides by plugin id, user data | `setPluginEnabled`, `pluginEnabled`, `fromJson`, `toJson` | the host reads and writes documents, the system applies the overrides |
| `PluginSystem`: configuration and discovery | paths, settings, predicate, `pluginData` keyed by loader, `loadStarted`, under `configMtx` | `setPluginPaths`, `setPluginSettings`, `setPluginLoadPredicate`, `plugins`, `hasError`, `selectPlugins` | owns a factory; calls the predicate without the lock |
| `PluginSystem`: resolution | id index, resolved edges, visit marks, load order | `resolveDependencies` | specs in, order out |
| `PluginSystem`: lifecycle | `loadStarted`, `loadFinished`, `shutdownFinished`, `lifecycleMtx`, kept commands, states of the specs | `loadPlugins`, `shutdownPlugins`, `remoteCommand` | calls `IPlugin` under or without the lock; plugins call back |
| CMake metadata generation, static registry | | | build step; stdcorelib |

What makes each correct, and what is hard about it:

- *Resolution.* The order lists exactly the plugins that can load, providers
  first, for every graph, with cycles, duplicates and failures that are found
  after they mattered (`:97` accepts a candidate that fails later in the same
  loop). Two recursive lambdas, one of which ends only because the other removed
  the cycles.
- *Lifecycle.* Reentrancy: callbacks run under a non-recursive mutex, commands
  without one, and a handler may stop the system. Failures in the middle of a
  pass. Two threads that start and stop.
- *Discovery.* Locks given up and taken again; data keyed by addresses; settings
  that change around a scan; a predicate that is called without the lock.
- *Settings.* Two lists that must not contradict each other, and three levels that
  override one another.
- *Bundles and specs.* Three reads of files that may change between them; a broken
  manifest must stay visible, and a spec must not mix two manifests.
- *Factory.* Two records of what is loaded (files, loaders) that must agree over
  discards and partly failed scans.
- *Catalog.* A cache checked under one lock and rebuilt under another.
- *Loader.* Errors that are kept, and forgotten, on a live plugin.
- *Decoders.* Arithmetic on offsets that a file chose, in three formats.

## Modules

| Module | Models | Composed with |
| --- | --- | --- |
| `ResolutionPromise` | what `loadOrder()` promises, as one step | |
| `DependencyResolution` | `PluginSystem::Impl::resolveDependencies` | implements `ResolutionPromise` |
| `LoadOrder` | what the lifecycle relies on in the outcome of resolution | `PluginLifecycle`, `DependencyResolutionProofs` |
| `PluginLives` | what a plugin can rely on, from load to unload | |
| `PluginLifecycle` | `loadPlugins`, `shutdownPlugins`, `remoteCommand`, dispatch and callbacks | implements `PluginLives` |
| `PluginFactory` | `PluginFactory`, and what a bundle factory changes in its scans | |
| `PluginCatalog` | `PluginCatalog` over its factory | EXTENDS `PluginFactory` |
| `PluginSettings` | `PluginSettings` and its JSON documents, as operators | |
| `PluginDiscovery` | configuration, discovery, freezing and selection of a `PluginSystem` over its factory | EXTENDS `PluginFactory`, `PluginSettings` |
| `PluginReading` | one bundle from its manifest to its spec: `BundlePluginFactory`, the two reads of the loader, `PluginSpecData::read` | |
| `PluginLoader` | `PluginLoader::Impl` | `MCPluginLoader`, beside the decoders |
| `EmbeddedMetadata`, `MachOMetadata`, `PeMetadata` | `pluginloader_linux.cpp`, `_mac.cpp`, `_win.cpp` | side by side in `MCPluginLoader` |
| `MC*` | instances for TLC | EXTEND the module they check |
| `*Proofs` | theorems | EXTEND the module they are about |

`PluginLifecycle` takes the outcome of resolution from a constant,
`Resolutions`: any order without repetition in which each required dependency
precedes its dependent (`IsResolution` of `LoadOrder`). `ResolutionAssumption` assumes
this, and `OutcomeUsable` proves it of `DependencyResolution`, so the two modules meet
at that operator.

### DependencyResolution

The function runs on one thread, so its interleavings are its own: `phase` names
the loop it is in, `cursor` the element, and `stack` holds the calls of
`findCycles` or `append` with the index of the edge each goes on with. One action
is one iteration of a loop, or a call or return of a lambda. `spec` is the input:
what `PluginSpecData::read` found and settings and predicate made of it. Plugins
are `1 .. N` in discovery order (the order of `pluginData`). Error messages
are the `Reasons` they stand for; a version is an integer, of which the code
compares `compatVersion <= v <= version`. `finished` is an auxiliary variable:
the plugins in the order `findCycles` left them.

The abstract `ResolutionPromise` is the whole function as one step: it blames some
plugins, each of which lies on a cycle, lists the greatest set of the others whose
required dependencies are met within the set, and orders it so that providers come first
and one plugin overtakes another only for the sake of a dependent discovered no
later than that other. `KeepsPromise` is the refinement: every phase but the last
is a stutter, and `blamed` is `onCycle` once the function is done.

`ReasonsHold` says that what a spec reports is true, at the end. It does not say
that every member of a cycle is told so: `findCycles` blames a segment of its
stack, so a plugin whose only way into a cycle leads over plugins already visited
is not blamed, and is caught by the propagation if the dependency is required. With
optional dependencies it then loads, without those in the cycle. Which plugins of
overlapping cycles are blamed depends on the discovery order; the promise
leaves the choice of the blamed plugins open for that reason.

### PluginLifecycle

A thread is a stack of frames: `loadPlugins` or `shutdownPlugins` at one of their
loops, a run of `dispatchRemoteCommand`, or a callback into a plugin. The code
before a virtual call and the code after its return are separate actions, so
whatever a plugin calls in between really nests. `lifecycleMtx` is the
thread that holds it. `HostCalls` and `Reentry` are who may call what.
`loader->load()` with the library's static initializers is one step, as is
`selectPlugins` with `resolveDependencies`. A failing `load()`, `dynamic_cast`,
`initialize()` or `unload()` is a choice. `Pinned` are libraries that another
handle keeps mapped: a callback whose library is unmapped cannot go on, and the
model then has no step for that thread. `remoteCommand` after shutdown returns at
once and changes nothing.

A system that is given commands is used by one thread in the model
(`CommandAssumption`): its functions nest, but do not interleave. `remoteCommand` and
`dispatchRemoteCommand` hold no lock while they read `shutdownFinished`,
`loadFinished` and the states of specs, which are plain members, and
`pluginsystem.h:143` gives commands to the thread that calls `loadPlugins()`. On that
thread only the handler can come between the look at the flag and the next plugin,
so check and call (`pluginsystem.cpp:290-294`) are one step. A shutdown on another thread
while a command is passed is a race the header neither allows nor forbids; nothing here
says what it does. `loadPlugins` and `shutdownPlugins` themselves may be called on
several threads (`threads`, where there are no commands).

The abstract `PluginLives` has no threads, locks, stacks or passes: a plugin is
`absent`, `loaded`, `initializing`, and so on to `gone`, and each step of one
plugin says in which stages its providers, its dependents and the others are.
`KeepsLives` maps the state of a spec and the callbacks the plugin has had to the
stage (`Life`), and counts the commands it was given (`Heard`). That a plugin is
loaded and initialized after its providers, is given commands only while they
run, is told of the shutdown before them and before any library is unloaded, and
is unloaded before them, are all steps of this specification.

### PluginFactory, PluginCatalog, PluginDiscovery

A file is a canonical path and `FilesIn` what a directory lists, sorted. A scan
picks from `Faults` what it cannot access, which the code treats in two ways. A
directory that cannot be listed, or a candidate that does not resolve to a canonical
path, makes the scan fail (`noticed`; `pluginfactory.cpp:108-125`), and the IID stays
pending. A library that cannot be opened or read has an empty IID, like a file
without metadata (`unread`, `ReadIid`): `:137-140` skips it, `:179-181` does not list it, and
the scan succeeds; a bundle whose manifest cannot be looked at (`:383-387`) ends the same way.
The auxiliary `skipped` holds the files the last scan of their IID passed over so. `ScanComplete`
excepts them; `FailuresRetried` does not, and is violated. Loaders live at
`Addresses`; with `Reuse` a freed address may be allocated again, as an allocator
may. Functions that hold `plugins_mtx` throughout are one step; `plugins()` and
the catalog's `readIndex` are two, one for each lock. The program may load and
unload a plugin it was given at any time. `dirty[iid]` is the flag of the
observer a catalog of that IID has registered. Metadata that cannot be read
amounts to no IID; `Unusable` files are those whose external metadata the second
read rejects, which leaves a loader without IID in the list.

`PluginDiscovery` adds `pluginData` (a sequence, as `linked_map` keeps insertion
order), the settings, the load predicate, `loadStarted`, and the section of
`loadPlugins` that selects plugins: `AskPredicate` calls the predicate for one spec
after the other without `configMtx`, so that setters and queries come in between, and
`CommitSelections` commits the answers at once. A predicate is the set of files it
accepts. `DiscoveryInit` also covers a custom factory that already holds a runtime
plugin, which the system must leave out.

`PluginSettings` is a value, so its module has operators only. A document is a
record of the kinds of its members and the items of its two lists; `FromJson`
reads them in the order of the code. In `PluginDiscovery` the host sets settings from
documents (`LoadSettings`), and changes and writes them down (`EditSettings`).
The auxiliary `said` holds what the document in force says, so that
`EnabledByDocuments` compares enabled states with documents and not with what
was made of them. The setters are one step, including the `applySettings` they end
with; reading the settings, changing them and setting them again is the host's to
do on one thread.

### PluginReading

A scan of one bundle in the steps that look at files: `List` (the directory has a
manifest), `Resolve` (the manifest names a library, the first of up to four
candidates), `ReadIid` (canonical path, files read before, the embedded IID) and
`ReadMetadata` (library and manifest once more, then the spec). Between any two of
them another program may replace or remove the manifest or the libraries
(`MaxChanges`). Paths are sequences of components; a manifest is a record of the
fields `PluginSpecData::read` checks, each with the shapes the checks tell apart.
`Checks` is their order and `SpecOf` the spec, whose fields after a failed check
keep their defaults. `past` holds the contents the manifest has had, `opened` the
paths that were opened; they are auxiliary.

`NotForgotten` is about what is there when no scan is pending: the code repeats a scan
that failed and keeps a loader whose second read failed, so a bundle is either
in the list, with an error if need be, or not a plugin of the IID. A change after
the last scan is not noticed until paths are set again, hence the condition
`changes = scanned`.
Only changed contents are followed here; a read that fails by itself is a fault of
`PluginFactory`'s scans.

### PluginLoader

One record per loader with the members of `PluginLoader::Impl`; every call is a
step and may meet any of its error paths. A loader is not shared between threads,
as its header says.

### EmbeddedMetadata, MachOMetadata, PeMetadata

The reads and checks of `read_elf` over unsigned arithmetic modulo `Words`.
`named` is where in the file the name `.stdc_metadata` stands. File sizes are
below `Words`: an ELF32 library of more than 4 GiB, whose 32-bit
`sh_offset + sh_name` is the one sum computed in fewer bits than the file size,
is outside of the model. Short reads of the identity and the header are
rejections.

`MachOMetadata` has the universal header, the slices (the whole file if there is no
such header) and the load commands of each; what a reader finds at an offset is
the function `slices`. 32 and 64 bit layouts differ in sizes, which are constants.
Offsets have 64 bits and come from fields of at most 64 that were compared with
the file size first, so no sum wraps around in the code; the mutant that compares
sums shows why that order matters.

`PeMetadata` has the DOS and NT headers, the section table and the choice of the
text, over a mapped file. Its offsets are sums of fields of at most 32 bits in 64.

A build has one of the three decoders. `MCPluginLoader` checks them in one run with the
calls on loaders, in which whatever does not take part stays idle: what `readLibrary()`
makes of the decoded text is an outcome of `SetFilePath`.

## Runs

All runs finish within two minutes with two workers.

| Run | Question | Instance |
| --- | --- | --- |
| `resolve` | Does resolution end, with the promised order, and for the right reasons? | N = 3: every graph of required and optional edges; and clashing and empty ids, invalid, disabled and unselected specs, versions below, at and above, self-dependencies (1.8 million states) |
| `commands` | Commands and shutdown from within handlers: order, delivery, lives of plugins | 1 thread, 2 plugins, 4 commands, libraries pinned (52,939 states) |
| `threads` | Failures and concurrent start and stop: lives of plugins, settled results | 2 threads, 3 plugins, no commands (74,701 states) |
| `handler` (violation) | May a handler shut the system down? | 1 thread, 2 plugins, 1 command |
| `repeat` (violation) | Do repeated lifecycle calls have no effect? | 1 thread, 2 plugins |
| `scan` | Do files, loaders and pending scans stay in step? | 1 thread, 2 IIDs, 2 directories, 3 files of which one is listed twice, 4 addresses, 2 paths, single faults (446,608 states) |
| `retry` (violation) | Is every failure of a scan retried? | as `scan` |
| `index` | Is any catalog answer stale? | 2 threads, 3 files, 3 addresses, shared, repeated and empty keys (321,334 states) |
| `freeze` | Are specs enabled and selected as they should be, and is loading started from frozen data? | 1 host thread and 1 asking thread, 3 files with a duplicated and an empty id, 3 addresses, 16 documents, 2 predicates (217,260 states) |
| `reuse` (violation) | Do specs describe their loaders? | as `freeze` |
| `libraries` | Do loader results and state agree? Do the decoders' reads stay in the file, and is metadata found? | 2 loaders; ELF: files of at most 12 bytes, up to 2 sections, Words = 16; Mach-O: up to 2 slices, 2 commands, 2 sections; PE: up to 2 sections (216,761 states) |
| `reading` | Is a bundle read as a whole, within its directory, and never forgotten? | 14 manifests or none, 5 sets of libraries, 5 metadata names, 2 changes (785,673 states) |

Bounds. Three plugins allow a cycle through a third, two overlapping cycles,
a diamond, and a failure that travels against the loop; the same properties are
proved for every N where a theorem says so. `MaxCommands` = 4 lets one behaviour
keep commands, pass some from handlers and pass some after loading; it also ends the loop
over kept commands, so `CallsReturn` says nothing of handlers that add commands forever. Two threads are what a lock
needs; two plugins suffice for a dispatch that is cut short between them, and three for a
chain of failures. `Addresses` bounds the loaders alive: without a free address a
scan or an addition is not taken, and the cfgs have as many as there are files
and additions that interact. `MaxPaths` is the number of directories. `Words` =
16 lets every sum in the ELF decoder wrap. The discovery runs have one thread that
asks, as the two sections of a query and the steps of the host already interleave;
a second one only repeats the first. `MaxChanges` = 2 lets a manifest or library
change and change back between two reads, or before and after one.

Deadlock is checked everywhere except in the discovery runs, where the host may
have started loading and has nothing left to ask.

Fairness. `Returns` needs weak fairness of the resolver's steps: it runs on the
thread that called it. `CallsReturn` has weak fairness for the functions' own
steps on each thread, and strong fairness for the return of callbacks: a callback
that keeps calling into the system while it can return must return in the end.
Nothing forces the host or a plugin to make a call.

## Findings

1. *A handler is unloaded while it runs* (`handler`, `NoFrameInUnmapped`). The
   comment at `pluginsystem.cpp:479` says that a plugin may shut down the system
   while it handles a command. `shutdownPlugins` then unloads that plugin's library
   with its `remoteCommand` on the stack. The `commands` run, with libraries
   pinned, shows that everything else about such a shutdown is right.
2. *Repeated calls can wait for themselves* (`repeat`, `NoSelfWait`).
   `pluginsystem.h:149` and `README.md:443` say that repeated calls have no
   effect. From `initialize`, `pluginsInitialized` or `aboutToShutdown` they lock a
   mutex that their thread holds.
3. *A spec may describe another file* (`reuse`, `SpecsDescribeLoaders`).
   `setPluginPaths` discards loaders, but `pluginData` keeps their data under
   their addresses until the next scan, which allocates first and compares then. A
   new loader at an old address inherits the id, version and dependencies of a
   file that is no longer searched. `StartedWithLoaders` holds all the same: the
   pointers are those of live loaders; it is the data that is stale.
4. *A library that could not be read is forgotten* (`retry`, `FailuresRetried`).
   `docs/TODO.md:7` says that a transient failure has to be retried, and the code keeps an
   IID pending for failures of directories and paths. A library it cannot read is taken for
   a plugin of another IID (`pluginfactory.cpp:138`): the scan succeeds without it, and no
   query looks at it again until other paths are set or one is added.

## Theorems

Each is proved for every value of the constants, from the named assumptions of the
module.

**Resolver** (from `CountAssumption`, `NullAssumption` and `DiscoveryAssumption`).

- `TypeCorrect` (`TypeOK`): inductive as `Typed`, which adds that resolved edges
  point at plugins that answer the dependency (`EdgesOK`).
- `LoadOrderSound` (`RequiredBefore`), from `Ordered`: the propagation loop has
  looked at everything below the cursor since its last change (`Propagated`); each
  call of `append` has handled the edges before its index, unless the edge led to
  the call above it (`FramesHandled`); so what is appended comes after its required
  dependencies (`OrderClosed`). This alone does not need the cycles to be gone: an
  `append` that never ended would be sound, too.
- `NoCycleRemains` (`CyclesBroken`), from `Cycles`: the order in which
  `findCycles` left the plugins is the witness. An edge to a plugin that has not
  been left when its source is left is a back edge, whose source is in
  `cycleErrors` (`EdgesWalked`, `LeftClosed`). After the report, a plugin that is
  still Resolved depends only on plugins left earlier (`Acyclic`).
- `RecursionBounded` (`NoReentry`): calls of `findCycles` are the plugins marked
  Visiting (`CallsVisiting`); calls of `append` descend in that order
  (`CallsDescend`), so none is entered twice.
- `LoadOrderComplete` (`ListedOnce`), from `Complete`: the plugins below the
  cursor are in the order or on the stack, and whoever is Invalid has a reason.
- `OutcomeUsable`: the order and the required resolved edges are a resolution as
  `PluginLifecycle` assumes one, from `LoadOrderComplete` and `OrderClosed`. The theorems
  of the lifecycle therefore hold for what this resolver hands to it.
- `MessagesTrue` (`ReasonsHold`). `Linked` says that
  the index holds the first plugin of each id (`Indexed`) and that calls follow edges
  (`CallsLinked`), so the segment that `findCycles` blames is a cycle
  (`SegmentOnCycle`); `Messages` is what is true of each reported reason at the time
  it is reported, and why no later step makes it false.
- `ResolutionKeepsPromise` (`KeepsPromise`): resolution implements
  `ResolutionPromise`, for every number of plugins. `SetsKept` is the heart: no loop
  fails a member of a set that meets its own required dependencies, unless it lies
  on a cycle; so what is live at the end is the greatest such set
  (`LiveIsLoadable`). `Orderly` gives the order: providers come before their
  dependents (`ProvidersFirst`), and whoever is in the order before a plugin
  discovered earlier was reached from a root that is discovered earlier still
  (`RootInTurn`, `Overtaking`). Chains of calls of any length are followed with
  `LeastNumber`, the well-foundedness of the naturals applied to a set of
  counterexamples.

**Lifecycle** (`PluginLifecycleProofs`), for any plugins, calls of the host and of plugins,
and any order that `ResolutionAssumption` allows; for any threads if there are no
commands, and for one thread if there are (`CommandAssumption`). The three theorems about
commands alone say so in their statements (`SingleThread`).

- `LifecycleTypeCorrect` (`TypeOK`), as `Typed`: besides the types, the shape of
  every thread's stack, that a thread in a pass that holds the lock is the
  `owner` of the mutex, and which frames may lie above which.
- `ErrorsAlwaysPropagate`, `LoadAlwaysSettled`, `ShutdownAlwaysComplete`,
  `NoCommandEverAfterShutdown`, from `Lively`. `Ordering` relates the state of every
  plugin to the flags and to the cursor of the pass that is under way, `Unlisted`
  the state of those outside of the order, `Passes` what the passes below the
  cursor have done, and `Reasons` the error of each Invalid plugin to a cause that
  stays true.
- `PluginsKeepTheirLives` (`KeepsLives`): the lifecycle implements `PluginLives`. It
  needs all of `Lively`: a step of one plugin is allowed by the stages of its
  providers and dependents, which the cursors determine.
- `PassCallbacksMapped`: no callback of a pass loses its library (`Sheltered`, which
  adds `FramesMapped`). A library is unloaded by the thread that holds the lock, and
  callbacks of passes run under it, on the same thread.
- `NoFrameInUnmappedWithoutCommands`: without commands (`MaxCommands` = 0) no frame
  at all is in an unmapped library. The condition is the first finding above: a
  handler runs without the lock, and nothing shelters it.
- `CommandsKeptInOrder` (`KeptInOrder`) and `CommandsAllDelivered` (`AllDelivered`),
  from `Commanding`: commands are numbered as they are accepted (`Numbers`), a run of
  dispatch is at a position that its caller knows (`Dispatches`), each plugin has
  heard a number at most once and kept ones in order (`Histories`), and what a
  plugin has not heard is kept, under way or was cut short by a shutdown or a
  handler (`Deliveries`).

**Factory** (`PluginFactoryProofs`), for any IIDs, files, directories, addresses,
static plugins and faults, noticed or not, and whether or not addresses are reused.

- `FactoryTypesHold` (`FactoryTypeOK`), `FilesAlwaysTracked` (`FilesTracked`) and
  `ScansComplete` (`ScanComplete`), from `Tracking`. That the read files and the
  loaders agree is not inductive by itself: a discard finds the loaders to remove in
  the list of one IID, and forgets their files. `Homed` says why that is right: every
  loader is in one list, once, and it is the list of the IID of its file (`AtHome`);
  so a file has a loader in at most one list, and forgetting it leaves none behind.
  `ScansComplete` is about what a scan notices: a file without a loader belongs to an
  IID that is still pending, or the last scan could not read it (`FilesFound`).
- `PointersStayValid` (`LivePluginsKept`): no step discards a loader that is loaded or
  was not found on disk, by the same invariant.

**Catalog** (`PluginCatalogProofs`, on top of the factory's).

- `AnswersAlwaysExact` (`AnswersExact`). The invariant adds `Coherent`: while its flag
  is down, the index describes the list of the moment, and so does an answer just
  given. A step that does not raise the flag leaves the list and what the index takes
  from its loaders alone (`ListKept`); `RebuildDescribes` is about the loops of
  `rebuildIndex`, for any list of loaders and keys: the loaders, the keys and each
  key's loaders come out once each, in the order in which they are first found.

**Discovery and settings** (`PluginDiscoveryProofs`, on top of the factory's). Of a
document, `DocumentAssumption` requires that its two lists are arrays of strings and
other values, null, or anything else.

- `FrozenOnceStarted` (`FrozenAfterStart`). It needs no invariant: every step either
  finds that loading has started (`TooLate`, `QueryFrozen`) or is one of the selection
  (`SelectionFrozen`). It is the one theorem that depends on the second look of
  `plugins()` at `loadStarted`.
- `EnabledAsDocumented` (`EnabledByDocuments`), `SpecsHaveLoaders`
  (`StartedWithLoaders`) and `SelectionIsPredicate` (`SelectedByPredicate`), from
  `Consistent`: the settings are what their documents say (`SettingsSaid`), each entry
  is enabled by the settings and no loader has two (`Specs`), the entries are the
  loaders once loading has started (`Started`), and the answers of the predicate so
  far are those for the entries before the next (`Choosing`).
- `SettingsSurviveJson` (`SettingsRoundTrip`): settings, from a document or edited, can
  be written down and read again without a change. `ReadIdsResult` says what reading a
  list finds and when it fails: the list must fit what was read before (`Fits`).

**Bundle reading** (`PluginReadingProofs`), for any manifests, sets of libraries,
metadata file names and number of changes. The invariant is `Reading`.

- `AlwaysInBundle` (`StaysInBundle`): what is opened ends with the name of a file and
  has no `..` (`Inside`, in `Opened`), so it never rises above the bundle when its
  components are counted one by one (`InsideStays`). `MetadataInside` and
  `LibraryInside` get this from the two checks of names in the code.
- `SpecsAlwaysSound` (`SpecsSound`): a spec is made from one manifest that was there
  (`Truthful`), and the chain of checks leaves a spec without an error only if that
  whole manifest is in order.
- `NeverForgotten` (`NotForgotten`): `Noticed` says that, as long as nothing changes,
  what a scan has seen is still there; so a scan that gives up either found nothing to
  be a plugin, or leaves itself pending.

**Loader.** `InstanceAlwaysExact` (`InstanceExact`). `Exact` is not inductive:
after a selection `load()` makes the plugin live and the state then promises an
IID, so `Selected` adds what a selection must have read before `load()` acts on it.
`AnswersTruthful` (`ResultsTruthful`) follows from the same invariant.

**ELF.** `ReadsStayInFile` (`ReadsInFile`) and `DecodingExact`
(`DecodesMetadata`), for any word width and file. The invariant says that
the checks made before a step still hold in it and that no section before the
loop's position has the metadata's name; the arithmetic lemmas show that no sum
or difference that passed its check has wrapped (`ValidRangeIsIn`,
`NameOffsetExact`).

**Mach-O**, for any width, header sizes and file.

- `SlicesApart` (`SlicesReadApart`). The invariant keeps the bounds of the slice within
  the file and the next command within the commands; `RoomForSections` shows that the
  number of sections, which the code compares with a quotient, leaves each of them in
  its segment.
- `FirstSliceDecoded` (`DecodesFirstSlice`), from `Walk`: the slices before the current
  one have no metadata, and the commands before the current one are whole, have none
  either, and end where that one starts. `RoomExact` is the converse of
  `RoomForSections`: a segment that is whole is never refused.

**PE.** `MappingReadsInside` (`ReadsInMapping`) and `PeDecodingExact`
(`DecodesPeMetadata`), for any sizes and file. `TextExact` relates the size the
code takes to the sizes a text may have.

Loops over a list that a theorem is about (`Kept`, `Candidates`, `NewFiles`, `ReadIds`,
`EnterLoader`, `Rebuild`, and `CommandStart` of the Mach-O property) are recursive
functions on the positions of the list. `Iterated` in `PluginFactoryProofs`, and
`SumsExist` in `MetadataProofs`, show that such a function exists and follows its
equation; the results then hold at every position because the set of positions at which
they hold contains the first and is closed under one more.

Model-checked only: liveness (`Returns`, `CallsReturn`), which is out of the prover's
reach. The properties of the four violation runs do not hold.

## Not modelled

- What a version string, a JSON text or a path looks like: they are outcomes of
  parsing. Path rules are modelled on components.
- The older PE path through the resource API (`pluginloader_win.cpp:16-46`), which
  has no logic of its own.
- Move construction and assignment, which the headers restrict to objects
  nobody uses.
- The static registry (stdcorelib) and the concurrent use of it that
  `pluginfactory.h:56` excludes.
- CMake code, tests.
- A shutdown on one thread while another passes a command (see PluginLifecycle).

## Plan

Done: the modules above, in the order resolution, lifecycle, factory, catalog,
discovery, loader, ELF decoder; then the two abstract specifications and their
refinements, settings, selection, bundle and spec reading, Mach-O and PE decoders.

Every invariant and action property of the passing runs is a theorem. What could still
be proved is a condition under which commands, too, leave no frame in an unmapped
library: one thread, whose handlers do not shut the system down.
