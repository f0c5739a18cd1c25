------------------------ MODULE PluginDiscoveryProofs ------------------------
(* Proofs about PluginDiscovery, for any factory, files, threads, settings  *)
(* and predicates.                                                          *)
EXTENDS PluginDiscovery, PluginFactoryProofs, FiniteSetTheorems

\* What loading starts from, apart from the selection, stays.
Frozen ==
    /\ UNCHANGED <<settings, loadPredicate, loaders, loader>>
    /\ DOMAIN pluginData' = DOMAIN pluginData
    /\ \A i \in DOMAIN pluginData :
           \A field \in DOMAIN pluginData[i] \ {"selected"} :
               pluginData'[i][field] = pluginData[i][field]

\* A query that comes for the exclusive lock too late scans nothing.
LEMMA QueryFrozen ==
    ASSUME loadStarted, NEW t \in Threads, AskExclusive(t)
    PROVE  Frozen
BY DEF AskExclusive, ScanStill, Frozen, factoryVars, configuration

\* The predicate is only asked, ...
LEMMA PredicateFrozen ==
    ASSUME AskPredicate
    PROVE  Frozen
BY DEF AskPredicate, Frozen, factoryVars, configuration

\* ... and what it said is all that is committed.
LEMMA SelectionFrozen ==
    ASSUME CommitSelections
    PROVE  Frozen
<1>1. /\ UNCHANGED <<settings, loadPredicate, loaders, loader>>
      /\ pluginData' = [i \in DOMAIN pluginData |->
                           [pluginData[i] EXCEPT !.selected = selections[i]]]
      BY DEF CommitSelections, factoryVars, configuration
<1>2. ASSUME NEW i \in DOMAIN pluginData, NEW field \in DOMAIN pluginData[i] \ {"selected"}
      PROVE  pluginData'[i][field] = pluginData[i][field]
  <2>1. pluginData'[i] = [pluginData[i] EXCEPT !.selected = selections[i]]
        BY <1>1
  <2> QED BY <2>1
<1> QED BY <1>1, <1>2 DEF Frozen

\* The setters and the start itself come too late.
LEMMA TooLate ==
    ASSUME loadStarted
    PROVE  /\ \A paths : ~SetSystemPaths(paths)
           /\ \A scope, source : ~LoadSettings(scope, source)
           /\ \A scope, id : ~EditSettings(scope, id)
           /\ \A accepted : ~SetPluginLoadPredicate(accepted)
           /\ \A t : ~AskShared(t)
           /\ ~StartLoading
<1>1. \A scope, overrides : ~SetPluginSettings(scope, overrides)
      BY DEF SetPluginSettings, Configurable
<1>2. \A scope, source : ~LoadSettings(scope, source)
      BY <1>1 DEF LoadSettings
<1>3. \A scope, id : ~EditSettings(scope, id)
      BY <1>1 DEF EditSettings
<1> QED BY <1>2, <1>3 DEF SetSystemPaths, SetPluginLoadPredicate, Configurable,
                          AskShared, StartLoading

LEMMA StutterFrozen ==
    ASSUME UNCHANGED discoveryVars
    PROVE  Frozen
BY DEF discoveryVars, factoryVars, configuration, Frozen

\* Once loadPlugins() has started, no call on any thread changes the specs, their
\* loaders, the settings or the predicate, but for the selection itself.
THEOREM FrozenOnceStarted == DiscoverySpec => FrozenAfterStart
<1>1. ASSUME loadStarted, [DiscoveryNext]_discoveryVars
      PROVE  Frozen
  <2>1. CASE DiscoveryNext
        BY <1>1, <2>1, TooLate, QueryFrozen, PredicateFrozen, SelectionFrozen DEF DiscoveryNext
  <2>2. CASE UNCHANGED discoveryVars
        BY <2>2, StutterFrozen
  <2> QED BY <1>1, <2>1, <2>2
<1>2. [DiscoveryNext]_discoveryVars =>
          [loadStarted =>
              /\ UNCHANGED <<settings, loadPredicate, loaders, loader>>
              /\ DOMAIN pluginData' = DOMAIN pluginData
              /\ \A i \in DOMAIN pluginData :
                     \A field \in DOMAIN pluginData[i] \ {"selected"} :
                         pluginData'[i][field] = pluginData[i][field]]_discoveryVars
      BY <1>1 DEF Frozen
<1> QED BY <1>2, PTL DEF DiscoverySpec, FrozenAfterStart

-----------------------------------------------------------------------------
(* Sequences of entries.                                                   *)

Entry ==
    [loader : Addresses, file : Files, enabledByGlobal : BOOLEAN, enabled : BOOLEAN,
     selected : BOOLEAN]

\* No loader has two entries.
OneEach(data) ==
    IsInjective(data) /\ \A d, e \in ToSet(data) : d.loader = e.loader => d = e

LoadersOf(data) == {e.loader : e \in ToSet(data)}

\* setPluginEnabled() has been called for finitely many plugins.
IsOverrides(o) ==
    o \in [DOMAIN o -> BOOLEAN] /\ DOMAIN o \subseteq Ids /\ IsFiniteSet(DOMAIN o)

\* What applySettings() makes of an entry.
EnabledBy(e, current) ==
    /\ e.enabledByGlobal = EnabledOr(current["Global"], IdOf[e.file], EnabledByMetadata[e.file])
    /\ e.enabled = EnabledOr(current["Local"], IdOf[e.file], e.enabledByGlobal)

LEMMA EnabledOrBoolean ==
    ASSUME NEW o, IsOverrides(o), NEW id, NEW fallback \in BOOLEAN
    PROVE  EnabledOr(o, id, fallback) \in BOOLEAN
BY DEF EnabledOr, IsOverrides

\* The length of a sequence without repetition is the number of its elements.
LEMMA LengthCounts ==
    ASSUME NEW X, NEW s \in Seq(X), IsInjective(s)
    PROVE  Len(s) = Cardinality(ToSet(s))
  <1>1. Len(s) \in Nat /\ DOMAIN s = 1 .. Len(s)
    BY LenProperties
  <1>2. s \in Bijection(1 .. Len(s), ToSet(s))
    <2>1. s = [i \in 1 .. Len(s) |-> s[i]]
      BY <1>1
    <2>2. s \in [1 .. Len(s) -> ToSet(s)]
      BY <1>1, <2>1 DEF ToSet
    <2>3. \A x \in ToSet(s) : \E i \in 1 .. Len(s) : s[i] = x
      BY <1>1 DEF ToSet
    <2> QED BY <1>1, <2>2, <2>3 DEF Bijection, Injection, Surjection, IsInjective
  <1>3. ExistsBijection(1 .. Len(s), ToSet(s))
    BY <1>2 DEF ExistsBijection
  <1> QED BY <1>1, <1>3, FS_CountingElements

\* applySettings() changes what it is for, and nothing else.
LEMMA AppliedEntries ==
    ASSUME NEW data \in Seq(Entry), NEW current, IsOverrides(current["Global"]),
           IsOverrides(current["Local"])
    PROVE  /\ Applied(data, current) \in Seq(Entry)
           /\ Len(Applied(data, current)) = Len(data)
           /\ \A i \in 1 .. Len(data) :
                  /\ Applied(data, current)[i].loader = data[i].loader
                  /\ Applied(data, current)[i].file = data[i].file
                  /\ Applied(data, current)[i].selected = data[i].selected
                  /\ EnabledBy(Applied(data, current)[i], current)
  <1> DEFINE Global(e) == EnabledOr(current["Global"], IdOf[e.file], EnabledByMetadata[e.file])
             New(e) == [e EXCEPT !.enabledByGlobal = Global(e),
                                 !.enabled = EnabledOr(current["Local"], IdOf[e.file], Global(e))]
             applied == [i \in 1 .. Len(data) |-> New(data[i])]
  <1>1. Len(data) \in Nat /\ DOMAIN data = 1 .. Len(data) /\ \A i \in 1 .. Len(data) : data[i] \in Entry
    BY LenProperties, ElementOfSeq
  <1>2. Applied(data, current) = applied
    BY <1>1 DEF Applied
  <1>3. ASSUME NEW e \in Entry
        PROVE  /\ New(e) \in Entry /\ New(e).loader = e.loader /\ New(e).file = e.file
               /\ New(e).selected = e.selected /\ EnabledBy(New(e), current)
    <2>1. EnabledByMetadata[e.file] \in BOOLEAN
      BY MetadataAssumption DEF Entry
    <2> DEFINE global == Global(e)
               local == EnabledOr(current["Local"], IdOf[e.file], global)
    <2>2. global \in BOOLEAN
      BY <2>1, EnabledOrBoolean
    <2>3. local \in BOOLEAN
      <3> HIDE DEF global
      <3> QED BY <2>2, EnabledOrBoolean
    <2>4. New(e) = [e EXCEPT !.enabledByGlobal = global, !.enabled = local]
      OBVIOUS
    <2>5. global = EnabledOr(current["Global"], IdOf[e.file], EnabledByMetadata[e.file])
          /\ local = EnabledOr(current["Local"], IdOf[e.file], global)
      OBVIOUS
    <2> HIDE DEF global, local, New
    <2>6. /\ New(e).loader = e.loader /\ New(e).file = e.file /\ New(e).selected = e.selected
          /\ New(e).enabledByGlobal = global /\ New(e).enabled = local /\ New(e) \in Entry
      BY <2>2, <2>3, <2>4 DEF Entry
    <2> QED BY <2>5, <2>6 DEF EnabledBy
  <1> HIDE DEF New
  <1>4. applied \in Seq(Entry) /\ Len(applied) = Len(data)
    <2>1. applied \in [1 .. Len(data) -> Entry]
      BY <1>1, <1>3
    <2>2. applied \in Seq(Entry)
      BY <1>1, <2>1, SeqDef
    <2>3. DOMAIN applied = 1 .. Len(data) /\ DOMAIN applied = 1 .. Len(applied) /\ Len(applied) \in Nat
      BY <2>2, LenProperties
    <2> QED BY <1>1, <2>2, <2>3
  <1>5. \A i \in 1 .. Len(data) : applied[i] = New(data[i]) /\ data[i] \in Entry
    BY <1>1
  <1> HIDE DEF applied
  <1> QED BY <1>2, <1>3, <1>4, <1>5

\* A sequence whose entries have the loaders of another's, place by place.
LEMMA SamePlaces ==
    ASSUME NEW data \in Seq(Entry), NEW new \in Seq(Entry), Len(new) = Len(data),
           \A i \in 1 .. Len(data) : new[i].loader = data[i].loader
    PROVE  (OneEach(data) => OneEach(new)) /\ LoadersOf(new) = LoadersOf(data)
  <1>1. /\ Len(data) \in Nat /\ DOMAIN data = 1 .. Len(data) /\ DOMAIN new = 1 .. Len(data)
        /\ \A i \in 1 .. Len(data) : data[i] \in ToSet(data) /\ new[i] \in ToSet(new)
    BY ToSetOf
  <1>2. /\ \A e \in ToSet(data) : \E i \in 1 .. Len(data) : e = data[i]
        /\ \A e \in ToSet(new) : \E i \in 1 .. Len(data) : e = new[i]
    BY <1>1 DEF ToSet
  <1>3. ASSUME OneEach(data), NEW i \in 1 .. Len(data), NEW j \in 1 .. Len(data),
               new[i].loader = new[j].loader
        PROVE  i = j
    <2>1. data[i].loader = data[j].loader
      BY <1>3
    <2>2. data[i] = data[j]
      BY <1>1, <1>3, <2>1 DEF OneEach
    <2> QED BY <1>1, <1>3, <2>2 DEF OneEach, IsInjective
  <1>4. OneEach(data) => OneEach(new)
    BY <1>1, <1>2, <1>3 DEF OneEach, IsInjective
  <1>5. LoadersOf(new) = LoadersOf(data)
    <2>1. \A x : x \in LoadersOf(data) <=> \E i \in 1 .. Len(data) : x = data[i].loader
      BY <1>1, <1>2 DEF LoadersOf
    <2>2. \A x : x \in LoadersOf(new) <=> \E i \in 1 .. Len(data) : x = new[i].loader
      BY <1>1, <1>2 DEF LoadersOf
    <2>3. \A x : x \in LoadersOf(new) <=> x \in LoadersOf(data)
      BY <2>1, <2>2
    <2> QED BY <2>3 DEF LoadersOf
  <1> QED BY <1>4, <1>5

-----------------------------------------------------------------------------
(* The invariant of the factory, kept by the calls of the system.          *)

Intact == UNCHANGED <<pluginPaths, loaders, loader, readPluginFiles, pendingScans, skipped>>

LEMMA DiscoveryInitTracking ==
    ASSUME DiscoveryInit
    PROVE  Tracking
  <1>1. CASE FactoryInit
    BY <1>1, FactoryInitTracking
  <1>2. ASSUME NEW place \in Addresses,
               pluginPaths = [iid \in Iids |-> <<>>],
               loaders = [iid \in Iids |-> IF iid = SystemIid THEN <<place>> ELSE <<>>],
               loader = [a \in {place} |-> NewLoader("Runtime", NoFile, SystemIid)],
               readPluginFiles = {} /\ pendingScans = {}
        PROVE  Tracking
    <2> DEFINE l == NewLoader("Runtime", NoFile, SystemIid)
    <2>1. SystemIid \in Iids /\ NoFile \notin Unusable
      BY MetadataAssumption, FileAssumption, FactoryAssumption
    <2>2. l \in Loader /\ l.origin = "Runtime" /\ l.iid = SystemIid
      BY <2>1 DEF NewLoader, Loader, Origins
    <2>3. Live = {place} /\ loader[place] = l
      BY <1>2 DEF Live
    <2> HIDE DEF l
    <2>4. FileLoaders = {}
      BY <2>2, <2>3 DEF FileLoaders
    <2>5. <<place>> \in Seq(Addresses) /\ <<>> \in Seq(Addresses) /\ <<>> \in Seq(Directories)
      OBVIOUS
    <2>6. /\ ToSet(<<place>>) = {place} /\ IsInjective(<<place>>)
          /\ ToSet(<<>>) = {} /\ IsInjective(<<>>) /\ DOMAIN <<>> = {}
      <3>1. DOMAIN <<place>> = {1} /\ <<place>>[1] = place /\ DOMAIN <<>> = {}
        OBVIOUS
      <3> QED BY <3>1 DEF ToSet, IsInjective
    <2>7. \A iid \in Iids : loaders[iid] = (IF iid = SystemIid THEN <<place>> ELSE <<>>)
                            /\ pluginPaths[iid] = <<>>
      BY <1>2
    <2>8. \A iid \in Iids : /\ iid = SystemIid => ToSet(loaders[iid]) = {place}
                            /\ iid # SystemIid => ToSet(loaders[iid]) = {}
                            /\ IsInjective(loaders[iid])
      BY <2>6, <2>7
    <2>9. Heap
      <3>1. loaders \in [Iids -> Seq(Addresses)] /\ pluginPaths \in [Iids -> Seq(Directories)]
        BY <1>2, <2>5
      <3>2. \A iid \in Iids : ToSet(loaders[iid]) \subseteq Live
        BY <2>3, <2>8
      <3> QED BY <1>2, <2>2, <2>3, <3>1, <3>2 DEF Heap
    <2>10. Homed
      BY <2>1, <2>2, <2>3, <2>8 DEF Homed, AtHome
    <2>11. FilesTracked /\ FilesFound
      BY <1>2, <2>4, <2>6, <2>7 DEF FilesTracked, FilesFound
    <2> QED BY <2>9, <2>10, <2>11 DEF Tracking
  <1> QED BY <1>1, <1>2 DEF DiscoveryInit

LEMMA DiscoverTracking ==
    ASSUME Tracking, Discover
    PROVE  Tracking'
  <1>1. SystemIid \in Iids /\ ScanIfNeeded(SystemIid)
    BY MetadataAssumption DEF Discover
  <1> QED BY <1>1, ScanIfNeededTracking

LEMMA DiscoveryTracking ==
    ASSUME Tracking, [DiscoveryNext]_discoveryVars
    PROVE  Tracking'
  <1>1. CASE Intact
    BY <1>1, SameHeap DEF Intact
  <1>2. ASSUME NEW paths \in PathSequences, SetSystemPaths(paths)
        PROVE  Tracking'
    <2>1. paths \in Seq(Directories)
      BY PathsTyped
    <2>2. SystemIid \in Iids /\ SetPluginPaths(SystemIid, paths)
      BY <1>2, MetadataAssumption DEF SetSystemPaths
    <2> QED BY <2>1, <2>2, SetPluginPathsTracking
  <1>3. ASSUME NEW scope \in Scopes, NEW source, LoadSettings(scope, source)
        PROVE  Intact
    BY <1>3 DEF LoadSettings, SetPluginSettings, factoryVars, Intact
  <1>4. ASSUME NEW scope \in Scopes, NEW id, EditSettings(scope, id)
        PROVE  Intact
    BY <1>4 DEF EditSettings, SetPluginSettings, factoryVars, Intact
  <1>5. ASSUME NEW accepted, SetPluginLoadPredicate(accepted)
        PROVE  Intact
    BY <1>5 DEF SetPluginLoadPredicate, factoryVars, Intact
  <1>6. ASSUME NEW t, AskShared(t) \/ AskExclusive(t)
        PROVE  Tracking'
    <2>1. CASE AskShared(t)
      <3>1. Intact
        BY <2>1 DEF AskShared, factoryVars, Intact
      <3> QED BY <1>1, <3>1
    <2>2. CASE AskExclusive(t)
      <3>1. Discover \/ UNCHANGED <<factoryVars, pluginData>>
        BY <2>2 DEF AskExclusive
      <3>2. UNCHANGED <<factoryVars, pluginData>> => Intact
        BY DEF factoryVars, Intact
      <3> QED BY <1>1, <3>1, <3>2, DiscoverTracking
    <2> QED BY <1>6, <2>1, <2>2
  <1>7. CASE StartLoading
    BY <1>7, DiscoverTracking DEF StartLoading
  <1>8. AskPredicate \/ CommitSelections \/ UNCHANGED discoveryVars => Intact
    BY DEF AskPredicate, CommitSelections, discoveryVars, factoryVars, Intact
  <1> QED BY <1>1, <1>2, <1>3, <1>4, <1>5, <1>6, <1>7, <1>8 DEF DiscoveryNext

-----------------------------------------------------------------------------
(* What a scan leaves of the entries, and what it adds.                    *)

\* The list of the factory's filesystem loaders that plugins() goes through.
LEMMA FoundLoaders ==
    ASSUME Tracking
    PROVE  /\ SystemLoaders \in Seq(Addresses) /\ IsInjective(SystemLoaders)
           /\ \A a \in ToSet(SystemLoaders) : a \in Live /\ loader[a].file \in Files
  <1>1. SystemIid \in Iids
    BY MetadataAssumption
  <1>2. loaders[SystemIid] \in Seq(Addresses) /\ IsInjective(loaders[SystemIid])
    BY <1>1, HeapTypes DEF Tracking, Homed
  <1> DEFINE s == loaders[SystemIid]
  <1>3. /\ Kept(s, FileLoaders) \in Seq(Addresses)
        /\ ToSet(Kept(s, FileLoaders)) = ToSet(s) \cap FileLoaders
        /\ IsInjective(s) => IsInjective(Kept(s, FileLoaders))
    <2> HIDE DEF s
    <2>1. s \in Seq(Addresses)
      BY <1>2 DEF s
    <2> QED BY <2>1, KeptElements
  <1> QED BY <1>2, <1>3, HeapTypes DEF SystemLoaders

LEMMA KeptEntries ==
    ASSUME pluginData \in Seq(Entry), OneEach(pluginData), NEW found
    PROVE  /\ KeptData(found) \in Seq(Entry) /\ OneEach(KeptData(found))
           /\ ToSet(KeptData(found)) \subseteq ToSet(pluginData)
           /\ LoadersOf(KeptData(found)) = LoadersOf(pluginData) \cap ToSet(found)
  <1> DEFINE S == {e \in ToSet(pluginData) : e.loader \in ToSet(found)}
             kept == Kept(pluginData, S)
  <1>1. KeptData(found) = kept
    BY DEF KeptData
  <1>2. /\ kept \in Seq(Entry) /\ ToSet(kept) = ToSet(pluginData) \cap S
        /\ IsInjective(pluginData) => IsInjective(kept)
    <2> HIDE DEF S
    <2> QED BY KeptElements
  <1>3. ToSet(kept) = S
    BY <1>2
  <1> HIDE DEF kept
  <1>4. OneEach(kept)
    BY <1>2 DEF OneEach
  <1>5. LoadersOf(kept) = LoadersOf(pluginData) \cap ToSet(found)
    BY <1>3 DEF LoadersOf
  <1> QED BY <1>1, <1>2, <1>3, <1>4, <1>5

LEMMA NewEntries ==
    ASSUME pluginData \in Seq(Entry), NEW found \in Seq(Addresses), IsInjective(found), NEW heap,
           \A a \in ToSet(found) : heap[a].file \in Files
    PROVE  /\ NewData(found, heap) \in Seq(Entry) /\ OneEach(NewData(found, heap))
           /\ LoadersOf(NewData(found, heap)) = ToSet(found) \ LoadersOf(pluginData)
           /\ \A e \in ToSet(NewData(found, heap)) : e.selected
  <1> DEFINE known == {pluginData[i].loader : i \in DOMAIN pluginData}
             S == ToSet(found) \ known
             new == Kept(found, S)
             n == Len(new)
             Enter(a) == [loader |-> a, file |-> heap[a].file,
                          enabledByGlobal |-> EnabledByMetadata[heap[a].file],
                          enabled |-> EnabledByMetadata[heap[a].file],
                          selected |-> TRUE]
             data == [i \in 1 .. n |-> Enter(new[i])]
  <1>1. /\ new \in Seq(Addresses) /\ ToSet(new) = ToSet(found) \cap S /\ IsInjective(new)
    <2> HIDE DEF S
    <2>1. /\ Kept(found, S) \in Seq(Addresses) /\ ToSet(Kept(found, S)) = ToSet(found) \cap S
          /\ IsInjective(found) => IsInjective(Kept(found, S))
      BY KeptElements
    <2> QED BY <2>1
  <1>2. known = LoadersOf(pluginData)
    BY DEF LoadersOf, ToSet
  <1>3. ToSet(new) = ToSet(found) \ LoadersOf(pluginData)
    BY <1>1, <1>2
  <1>4. n \in Nat /\ DOMAIN new = 1 .. n /\ \A i \in 1 .. n : new[i] \in Addresses /\ new[i] \in ToSet(new)
    <2> HIDE DEF new
    <2> QED BY <1>1, ToSetOf
  <1>5. NewData(found, heap) = data
    BY <1>4 DEF NewData
  <1> HIDE DEF new
  <1>6. ASSUME NEW a \in Addresses, a \in ToSet(found)
        PROVE  Enter(a) \in Entry /\ Enter(a).loader = a /\ Enter(a).selected
    <2> DEFINE f == heap[a].file
               b == EnabledByMetadata[f]
    <2>1. f \in Files
      BY <1>6
    <2>2. b \in BOOLEAN
      <3> HIDE DEF f
      <3> QED BY <2>1, MetadataAssumption
    <2>3. Enter(a) = [loader |-> a, file |-> f, enabledByGlobal |-> b, enabled |-> b, selected |-> TRUE]
      OBVIOUS
    <2> HIDE DEF f, b, Enter
    <2> QED BY <1>6, <2>1, <2>2, <2>3 DEF Entry
  <1> HIDE DEF Enter
  <1>7. \A i \in 1 .. n : Enter(new[i]) \in Entry /\ Enter(new[i]).loader = new[i] /\ Enter(new[i]).selected
    BY <1>3, <1>4, <1>6
  <1>8. data \in Seq(Entry) /\ DOMAIN data = 1 .. n /\ \A i \in 1 .. n : data[i] = Enter(new[i])
    <2> HIDE DEF n
    <2>1. data \in [1 .. n -> Entry]
      BY <1>7
    <2> QED BY <1>4, <2>1, SeqDef
  <1> HIDE DEF data
  <1>9. \A e \in ToSet(data) : \E i \in 1 .. n : e = data[i]
    BY <1>8 DEF ToSet
  <1>10. OneEach(data)
    <2>1. ASSUME NEW i \in 1 .. n, NEW j \in 1 .. n, data[i].loader = data[j].loader
          PROVE  i = j
      <3>1. new[i] = new[j]
        BY <1>7, <1>8, <2>1
      <3> QED BY <1>1, <1>4, <3>1 DEF IsInjective
    <2>2. IsInjective(data)
      BY <1>8, <2>1 DEF IsInjective
    <2>3. \A d, e \in ToSet(data) : d.loader = e.loader => d = e
      BY <1>9, <2>1
    <2> QED BY <2>2, <2>3 DEF OneEach
  <1>11. LoadersOf(data) = ToSet(new)
    <2>1. \A x : x \in LoadersOf(data) <=> \E i \in 1 .. n : x = data[i].loader
      <3>1. \A i \in 1 .. n : data[i] \in ToSet(data)
        BY <1>8 DEF ToSet
      <3> QED BY <1>9, <3>1 DEF LoadersOf
    <2>2. \A x : x \in ToSet(new) <=> \E i \in 1 .. n : x = new[i]
      BY <1>4 DEF ToSet
    <2>3. \A x : x \in LoadersOf(data) <=> x \in ToSet(new)
      BY <1>7, <1>8, <2>1, <2>2
    <2> QED BY <2>3
  <1>12. \A e \in ToSet(data) : e.selected
    BY <1>7, <1>8, <1>9
  <1> QED BY <1>3, <1>5, <1>8, <1>10, <1>11, <1>12

\* The entries of one scan after the other: none twice, one for every loader found.
LEMMA ScannedEntries ==
    ASSUME pluginData \in Seq(Entry), OneEach(pluginData), NEW found \in Seq(Addresses),
           IsInjective(found), NEW heap, \A a \in ToSet(found) : heap[a].file \in Files
    PROVE  /\ KeptData(found) \o NewData(found, heap) \in Seq(Entry)
           /\ OneEach(KeptData(found) \o NewData(found, heap))
           /\ LoadersOf(KeptData(found) \o NewData(found, heap)) = ToSet(found)
           /\ \A e \in ToSet(KeptData(found) \o NewData(found, heap)) :
                  e.selected \/ e \in ToSet(pluginData)
  <1> DEFINE kept == KeptData(found)
             new == NewData(found, heap)
  <1>1. /\ kept \in Seq(Entry) /\ OneEach(kept) /\ ToSet(kept) \subseteq ToSet(pluginData)
        /\ LoadersOf(kept) = LoadersOf(pluginData) \cap ToSet(found)
    BY KeptEntries
  <1>2. /\ new \in Seq(Entry) /\ OneEach(new)
        /\ LoadersOf(new) = ToSet(found) \ LoadersOf(pluginData)
        /\ \A e \in ToSet(new) : e.selected
    BY NewEntries
  <1> HIDE DEF kept, new
  <1>3. kept \o new \in Seq(Entry) /\ ToSet(kept \o new) = ToSet(kept) \cup ToSet(new)
    BY <1>1, <1>2, ToSetConcat
  <1>4. \A d \in ToSet(kept) : \A e \in ToSet(new) : d.loader # e.loader
    BY <1>1, <1>2 DEF LoadersOf
  <1>5. IsInjective(kept \o new)
    <2>1. ToSet(kept) \cap ToSet(new) = {}
      BY <1>4
    <2> QED BY <1>1, <1>2, <2>1, InjectiveConcat DEF OneEach
  <1>6. OneEach(kept \o new)
    BY <1>1, <1>2, <1>3, <1>4, <1>5 DEF OneEach
  <1>7. LoadersOf(kept \o new) = ToSet(found)
    <2>1. LoadersOf(kept \o new) = LoadersOf(kept) \cup LoadersOf(new)
      BY <1>3 DEF LoadersOf
    <2> QED BY <1>1, <1>2, <2>1
  <1>8. \A e \in ToSet(kept \o new) : e.selected \/ e \in ToSet(pluginData)
    BY <1>1, <1>2, <1>3
  <1>9. kept \o new = KeptData(found) \o NewData(found, heap)
    BY DEF kept, new
  <1> QED BY <1>3, <1>6, <1>7, <1>8, <1>9

-----------------------------------------------------------------------------
(* Settings and their documents.                                           *)

\* What the lists of a document should say of settings.
Says(o) == [on |-> {id \in DOMAIN o : o[id] = TRUE}, off |-> {id \in DOMAIN o : o[id] = FALSE}]

LEMMA OverridesKept ==
    ASSUME NEW o, IsOverrides(o), NEW id \in Ids, NEW enabled \in BOOLEAN
    PROVE  IsOverrides(Override(o, id, enabled)) /\ IsOverrides(Forget(o, id))
  <1>1. IsFiniteSet(DOMAIN o \cup {id}) /\ IsFiniteSet(DOMAIN o \ {id})
    BY FS_AddElement, FS_RemoveElement DEF IsOverrides
  <1>2. IsOverrides(Override(o, id, enabled))
    <2> DEFINE p == Override(o, id, enabled)
               D == DOMAIN o \cup {id}
    <2>1. DOMAIN p = D /\ p \in [D -> BOOLEAN] /\ D \subseteq Ids
      BY DEF Override, IsOverrides
    <2>2. IsFiniteSet(D)
      BY <1>1
    <2> HIDE DEF p, D
    <2>3. p \in [DOMAIN p -> BOOLEAN] /\ DOMAIN p \subseteq Ids /\ IsFiniteSet(DOMAIN p)
      BY <2>1, <2>2, Zenon
    <2> QED BY <2>3 DEF IsOverrides, p
  <1>3. IsOverrides(Forget(o, id))
    <2> DEFINE p == Forget(o, id)
               D == DOMAIN o \ {id}
    <2>1. DOMAIN p = D /\ p \in [D -> BOOLEAN] /\ D \subseteq Ids
      BY DEF Forget, IsOverrides
    <2>2. IsFiniteSet(D)
      BY <1>1
    <2> HIDE DEF p, D
    <2>3. p \in [DOMAIN p -> BOOLEAN] /\ DOMAIN p \subseteq Ids /\ IsFiniteSet(DOMAIN p)
      BY <2>1, <2>2, Zenon
    <2> QED BY <2>3 DEF IsOverrides, p
  <1> QED BY <1>2, <1>3

LEMMA NoneOverridden == IsOverrides(NoOverrides) /\ DOMAIN NoOverrides = {}
  <1>1. DOMAIN NoOverrides = {} /\ NoOverrides \in [{} -> BOOLEAN]
    BY DEF NoOverrides
  <1> QED BY <1>1, FS_EmptySet DEF IsOverrides

\* A list that is written names every id once.
LEMMA WrittenList ==
    ASSUME NEW S, IsFiniteSet(S)
    PROVE  /\ SetToSeq(S) \in Seq(S) /\ IsInjective(SetToSeq(S)) /\ ToSet(SetToSeq(S)) = S
  <1> DEFINE n == Cardinality(S)
             s == SetToSeq(S)
  <1>1. n \in Nat
    BY FS_CardinalityType
  <1>2. \E f \in [1 .. n -> S] : IsInjective(f)
    <2>1. PICK m \in Nat : ExistsBijection(1 .. m, S)
      BY FS_NatBijection
    <2>2. n = m
      BY <2>1, FS_CountingElements
    <2>3. PICK f : f \in Bijection(1 .. m, S)
      BY <2>1 DEF ExistsBijection
    <2> QED BY <2>2, <2>3 DEF Bijection, Injection
  <1>3. s \in [1 .. n -> S] /\ IsInjective(s)
    BY <1>2 DEF SetToSeq
  <1> HIDE DEF s
  <1>4. s \in Seq(S)
    <2> HIDE DEF n
    <2> QED BY <1>1, <1>3, SeqDef
  <1>5. ToSet(s) = S
    <2>1. s \in Injection(1 .. n, S)
      BY <1>3 DEF Injection
    <2>2. IsFiniteSet(1 .. n) /\ Cardinality(1 .. n) = n
      <3> HIDE DEF n
      <3>1. IsFiniteSet(1 .. n)
        BY <1>1, FS_Interval
      <3>2. Cardinality(1 .. n) = IF 1 > n THEN 0 ELSE n - 1 + 1
        BY <1>1, FS_Interval
      <3> QED BY <1>1, <3>1, <3>2
    <2>3. s \in Surjection(1 .. n, S)
      <3> DEFINE T == 1 .. n
      <3>1. s \in Injection(T, S) /\ Cardinality(T) = Cardinality(S)
        BY <2>1, <2>2
      <3> HIDE DEF T
      <3>2. s \in Surjection(T, S)
        BY <3>1, FS_Injection
      <3> QED BY <3>2 DEF T
    <2> QED BY <1>3, <2>3 DEF Surjection, ToSet
  <1> QED BY <1>3, <1>4, <1>5 DEF s

LEMMA WrittenIds ==
    ASSUME NEW o, IsOverrides(o), NEW enabled \in BOOLEAN
    PROVE  /\ IdsWith(o, enabled) \in Seq(Ids) /\ IsInjective(IdsWith(o, enabled))
           /\ ToSet(IdsWith(o, enabled)) = {id \in DOMAIN o : o[id] = enabled}
  <1> DEFINE S == {id \in DOMAIN o : o[id] = enabled}
  <1>1. IsFiniteSet(S) /\ S \subseteq Ids
    BY FS_Subset DEF IsOverrides
  <1>2. IdsWith(o, enabled) = SetToSeq(S)
    BY DEF IdsWith
  <1>3. /\ SetToSeq(S) \in Seq(S) /\ IsInjective(SetToSeq(S)) /\ ToSet(SetToSeq(S)) = S
    <2> HIDE DEF S
    <2> QED BY <1>1, WrittenList
  <1>4. SetToSeq(S) \in Seq(Ids)
    <2> HIDE DEF S
    <2>1. Len(SetToSeq(S)) \in Nat /\ SetToSeq(S) \in [1 .. Len(SetToSeq(S)) -> S]
      BY <1>3, LenProperties
    <2>2. SetToSeq(S) \in [1 .. Len(SetToSeq(S)) -> Ids]
      BY <1>1, <2>1
    <2> QED BY <2>1, <2>2, SeqDef
  <1> QED BY <1>2, <1>3, <1>4

LEMMA SaidWritten ==
    ASSUME NEW o, IsOverrides(o)
    PROVE  Said(ToJson(o)) = Says(o)
  <1>1. ToSet(IdsWith(o, TRUE)) = {id \in DOMAIN o : o[id] = TRUE}
        /\ ToSet(IdsWith(o, FALSE)) = {id \in DOMAIN o : o[id] = FALSE}
    BY WrittenIds
  <1> QED BY <1>1 DEF Said, ToJson, List, Says

\* What readIds() goes through: whatever strings there are, as far as they were read.
Strings == Ids \cup {EmptyId, NotAString}

Maps == UNION {[S -> BOOLEAN] : S \in SUBSET Strings}

Reads == [ok : BOOLEAN, overrides : Maps]

Entered(r, item, enabled) ==
    [ok |-> r.ok /\ Acceptable(item, r.overrides),
     overrides |-> IF item \in DOMAIN r.overrides THEN r.overrides
                   ELSE Override(r.overrides, item, enabled)]

EnteredTo(entered, read, items, enabled) ==
    /\ entered[0] = read
    /\ \A n \in 1 .. Len(items) : entered[n] = Entered(entered[n - 1], items[n], enabled)

LEMMA EnteredReads ==
    ASSUME NEW r \in Reads, NEW item \in Strings, NEW enabled \in BOOLEAN
    PROVE  /\ Entered(r, item, enabled) \in Reads
           /\ Entered(r, item, enabled).ok <=> r.ok /\ item \in Ids /\ item \notin DOMAIN r.overrides
           /\ DOMAIN Entered(r, item, enabled).overrides = DOMAIN r.overrides \cup {item}
           /\ \A x \in DOMAIN r.overrides : Entered(r, item, enabled).overrides[x] = r.overrides[x]
           /\ item \notin DOMAIN r.overrides => Entered(r, item, enabled).overrides[item] = enabled
  <1> DEFINE o == r.overrides
             ok == r.ok /\ Acceptable(item, o)
             p == IF item \in DOMAIN o THEN o ELSE Override(o, item, enabled)
  <1>1. PICK S \in SUBSET Strings : o \in [S -> BOOLEAN]
    BY DEF Reads, Maps
  <1>2. DOMAIN o = S
    BY <1>1
  <1>3. /\ p \in [S \cup {item} -> BOOLEAN] /\ DOMAIN p = S \cup {item}
        /\ \A x \in S : p[x] = o[x]
        /\ item \notin S => p[item] = enabled
    <2> HIDE DEF o
    <2>1. CASE item \in S
      <3>1. p = o /\ S \cup {item} = S
        BY <1>2, <2>1
      <3> QED BY <1>1, <1>2, <2>1, <3>1
    <2>2. CASE item \notin S
      <3>1. p = [x \in S \cup {item} |-> IF x = item THEN enabled ELSE o[x]]
        BY <1>2, <2>2 DEF Override
      <3> HIDE DEF p
      <3> QED BY <1>1, <2>2, <3>1
    <2> QED BY <2>1, <2>2
  <1>4. ok \in BOOLEAN /\ (ok <=> r.ok /\ item \in Ids /\ item \notin S)
    BY <1>2 DEF Acceptable
  <1>5. Entered(r, item, enabled) = [ok |-> ok, overrides |-> p]
    BY DEF Entered
  <1> HIDE DEF ok, p
  <1>6. p \in Maps
    <2>1. S \cup {item} \in SUBSET Strings
      OBVIOUS
    <2> QED BY <1>3, <2>1 DEF Maps
  <1>7. Entered(r, item, enabled) \in Reads
    BY <1>4, <1>5, <1>6 DEF Reads
  <1>8. Entered(r, item, enabled).ok = ok /\ Entered(r, item, enabled).overrides = p
    BY <1>5
  <1> QED BY <1>2, <1>3, <1>4, <1>7, <1>8

LEMMA ReadIdsDefined ==
    ASSUME NEW read \in Reads, NEW list, list.items \in Seq(Strings), list.kind # "other",
           NEW enabled \in BOOLEAN
    PROVE  \E entered : /\ EnteredTo(entered, read, list.items, enabled)
                        /\ ReadIds(read, list, enabled) = entered[Len(list.items)]
  <1> DEFINE items == list.items
             N == Len(items)
             V == Reads
             step == [n \in 1 .. N |-> [v \in V |-> Entered(v, items[n], enabled)]]
             Body(g) == [n \in 0 .. N |-> IF n = 0 THEN read ELSE Entered(g[n - 1], items[n], enabled)]
  <1>1. N \in Nat /\ \A i \in 1 .. N : items[i] \in Strings
    <2> HIDE DEF items
    <2>1. items \in Seq(Strings)
      BY DEF items
    <2> QED BY <2>1, ToSetOf
  <1> HIDE DEF items
  <1>2. step \in [1 .. N -> [V -> V]]
    <2>1. \A n \in 1 .. N : \A v \in V : Entered(v, items[n], enabled) \in V
      BY <1>1, EnteredReads
    <2> QED BY <2>1
  <1>4. PICK f \in [0 .. N -> V] : f[0] = read /\ \A n \in 1 .. N : f[n] = step[n][f[n - 1]]
    <2>1. N \in Nat /\ read \in V /\ IsStep(step, N, V)
      BY <1>1, <1>2 DEF IsStep
    <2> HIDE DEF N, step, V
    <2>2. \E f : Iteration(f, N, V, read, step)
      BY <2>1, Iterated
    <2> QED BY <2>2 DEF Iteration
  <1>5. ASSUME NEW n \in 1 .. N
        PROVE  f[n] = Entered(f[n - 1], items[n], enabled)
    <2>1. n - 1 \in 0 .. N
      BY <1>1
    <2>2. f[n - 1] \in V
      BY <1>4, <2>1
    <2>3. step[n][f[n - 1]] = Entered(f[n - 1], items[n], enabled)
      BY <2>2
    <2> QED BY <1>4, <2>3
  <1>6. f = Body(f)
    <2>1. ASSUME NEW n \in 0 .. N
          PROVE  f[n] = Body(f)[n]
      <3>1. CASE n = 0
        BY <1>4, <3>1
      <3>2. CASE n # 0
        <4>1. n \in 1 .. N
          BY <1>1, <3>2
        <4>2. Body(f)[n] = Entered(f[n - 1], items[n], enabled)
          BY <3>2
        <4> QED BY <1>5, <4>1, <4>2
      <3> QED BY <3>1, <3>2
    <2>2. DOMAIN f = 0 .. N /\ f = [n \in 0 .. N |-> f[n]]
      BY <1>4
    <2> QED BY <2>1, <2>2
  <1> DEFINE entered == CHOOSE g : g = Body(g)
  <1>7. entered = Body(entered)
    BY <1>6
  <1>8. ReadIds(read, list, enabled) = entered[N]
    BY DEF ReadIds, Entered, items
  <1> HIDE DEF entered
  <1>9. /\ entered[0] = read
        /\ \A n \in 1 .. N : entered[n] = Entered(entered[n - 1], items[n], enabled)
    <2>1. entered[0] = Body(entered)[0] /\ \A n \in 1 .. N : entered[n] = Body(entered)[n]
      BY <1>7
    <2>2. Body(entered)[0] = read
      BY <1>1
    <2>3. ASSUME NEW n \in 1 .. N
          PROVE  Body(entered)[n] = Entered(entered[n - 1], items[n], enabled)
      <3>1. n \in 0 .. N /\ n # 0
        BY <1>1
      <3> QED BY <3>1
    <2> QED BY <2>1, <2>2, <2>3
  <1> QED BY <1>8, <1>9 DEF EnteredTo, items

\* A list that readIds() accepts after "o" was read: ids, none twice, none known.
Fits(items, o) == IsInjective(items) /\ ToSet(items) \subseteq Ids /\ ToSet(items) \cap DOMAIN o = {}

\* What has become of "read" after that list.
ReadOn(r, read, list, enabled) ==
    /\ r \in Reads
    /\ r.ok <=> read.ok /\ list.kind # "other" /\ Fits(list.items, read.overrides)
    /\ DOMAIN r.overrides = DOMAIN read.overrides \cup ToSet(list.items)
    /\ \A x \in DOMAIN read.overrides : r.overrides[x] = read.overrides[x]
    /\ \A x \in ToSet(list.items) \ DOMAIN read.overrides : r.overrides[x] = enabled

LEMMA ReadIdsResult ==
    ASSUME NEW read \in Reads, NEW list, IsMember(list), NEW enabled \in BOOLEAN
    PROVE  ReadOn(ReadIds(read, list, enabled), read, list, enabled)
  <1> DEFINE items == list.items
             N == Len(items)
             D == DOMAIN read.overrides
  <1>0. items \in Seq(Strings) /\ (list.kind = "other" => items = <<>>)
    BY DEF IsMember, Strings
  <1>1. CASE list.kind = "other"
    <2>1. ReadIds(read, list, enabled) = [read EXCEPT !.ok = FALSE]
      BY <1>1 DEF ReadIds
    <2>2. ToSet(list.items) = {}
      <3>1. list.items = <<>> /\ DOMAIN <<>> = {}
        BY <1>0, <1>1
      <3> QED BY <3>1 DEF ToSet
    <2>3. [read EXCEPT !.ok = FALSE] \in Reads /\ [read EXCEPT !.ok = FALSE].ok = FALSE
          /\ [read EXCEPT !.ok = FALSE].overrides = read.overrides
      BY DEF Reads
    <2> QED BY <1>1, <2>1, <2>2, <2>3 DEF ReadOn
  <1>2. CASE list.kind # "other"
    <2>1. PICK entered : /\ EnteredTo(entered, read, items, enabled)
                         /\ ReadIds(read, list, enabled) = entered[N]
      BY <1>0, <1>2, ReadIdsDefined
    <2> HIDE DEF items
    <2>2. /\ N \in Nat /\ DOMAIN items = 1 .. N /\ ToSet(items) = FirstOf(items, N)
          /\ \A i \in 1 .. N : items[i] \in Strings
      BY <1>0, ToSetOf
    <2> DEFINE FitTo(n) == \A i \in 1 .. n : /\ items[i] \in Ids /\ items[i] \notin D
                                             /\ \A j \in 1 .. i - 1 : items[j] # items[i]
               Good(v, n) == /\ v \in Reads
                             /\ v.ok <=> read.ok /\ FitTo(n)
                             /\ DOMAIN v.overrides = D \cup FirstOf(items, n)
                             /\ \A x \in D : v.overrides[x] = read.overrides[x]
                             /\ \A x \in FirstOf(items, n) \ D : v.overrides[x] = enabled
               P == {n \in 0 .. N : Good(entered[n], n)}
    <2> HIDE DEF D
    <2>3. 0 \in P
      <3>1. entered[0] = read /\ 0 \in 0 .. N /\ FirstOf(items, 0) = {}
        BY <2>1, <2>2, FirstOfNone DEF EnteredTo
      <3>2. FitTo(0)
        OBVIOUS
      <3>3. Good(read, 0)
        BY <3>1, <3>2 DEF D
      <3> QED BY <3>1, <3>3
    <2>4. ASSUME NEW n \in 1 .. N, n - 1 \in P
          PROVE  n \in P
      <3> DEFINE v == entered[n - 1]
                 f == items[n]
      <3>1. Good(v, n - 1) /\ n \in 0 .. N /\ n \in Nat \ {0} /\ f \in Strings
        BY <2>2, <2>4
      <3>2. entered[n] = Entered(v, f, enabled)
        BY <2>1 DEF EnteredTo
      <3>3. FirstOf(items, n) = FirstOf(items, n - 1) \cup {f}
        BY <3>1, FirstOfNext
      <3>4. FitTo(n) <=> FitTo(n - 1) /\ f \in Ids /\ f \notin D \cup FirstOf(items, n - 1)
        <4>1. \A i \in 1 .. n : i \in 1 .. n - 1 \/ i = n
          BY <3>1
        <4>2. f \notin FirstOf(items, n - 1) <=> \A j \in 1 .. n - 1 : items[j] # f
          BY DEF FirstOf
        <4>3. n \in 1 .. n /\ \A i \in 1 .. n - 1 : i \in 1 .. n
          BY <3>1
        <4>4. ASSUME FitTo(n) PROVE FitTo(n - 1) /\ f \in Ids /\ f \notin D \cup FirstOf(items, n - 1)
          BY <4>2, <4>3, <4>4
        <4>5. ASSUME FitTo(n - 1), f \in Ids, f \notin D \cup FirstOf(items, n - 1) PROVE FitTo(n)
          BY <4>1, <4>2, <4>5
        <4> QED BY <4>4, <4>5
      <3> HIDE DEF v, f, FitTo
      <3>5. /\ Entered(v, f, enabled) \in Reads
            /\ Entered(v, f, enabled).ok <=> v.ok /\ f \in Ids /\ f \notin DOMAIN v.overrides
            /\ DOMAIN Entered(v, f, enabled).overrides = DOMAIN v.overrides \cup {f}
            /\ \A x \in DOMAIN v.overrides : Entered(v, f, enabled).overrides[x] = v.overrides[x]
            /\ f \notin DOMAIN v.overrides => Entered(v, f, enabled).overrides[f] = enabled
        BY <3>1, EnteredReads
      <3> DEFINE w == Entered(v, f, enabled)
      <3> HIDE DEF w
      <3>6. DOMAIN v.overrides = D \cup FirstOf(items, n - 1)
        BY <3>1
      <3>7. /\ w \in Reads
            /\ w.ok <=> read.ok /\ FitTo(n)
        BY <3>1, <3>4, <3>5, <3>6 DEF w
      <3>8. DOMAIN w.overrides = D \cup FirstOf(items, n)
        BY <3>3, <3>5, <3>6 DEF w
      <3>9. \A x \in D : w.overrides[x] = read.overrides[x]
        BY <3>1, <3>5, <3>6 DEF w
      <3>10. \A x \in FirstOf(items, n) \ D : w.overrides[x] = enabled
        BY <3>1, <3>3, <3>5, <3>6 DEF w
      <3> QED BY <3>1, <3>2, <3>7, <3>8, <3>9, <3>10 DEF w
    <2>5. Good(entered[N], N)
      <3>1. \A n \in 0 .. N : n \in P
        <4> HIDE DEF P
        <4> QED BY <2>2, <2>3, <2>4, Stepwise
      <3>2. N \in 0 .. N
        BY <2>2
      <3> QED BY <3>1, <3>2
    <2>6. FitTo(N) <=> Fits(items, read.overrides)
      <3>1. ASSUME FitTo(N) PROVE Fits(items, read.overrides)
        <4>1. ASSUME NEW i \in 1 .. N, NEW j \in 1 .. N, items[i] = items[j], i # j PROVE FALSE
          <5>1. i \in 1 .. j - 1 \/ j \in 1 .. i - 1
            BY <2>2, <4>1
          <5> QED BY <3>1, <4>1, <5>1
        <4>2. IsInjective(items)
          BY <2>2, <4>1 DEF IsInjective
        <4>3. \A x \in ToSet(items) : x \in Ids /\ x \notin D
          BY <2>2, <3>1 DEF ToSet
        <4> QED BY <4>2, <4>3 DEF Fits, D
      <3>2. ASSUME Fits(items, read.overrides) PROVE FitTo(N)
        <4>1. \A i \in 1 .. N : items[i] \in ToSet(items)
          BY <2>2 DEF ToSet
        <4>2. \A i \in 1 .. N : items[i] \in Ids /\ items[i] \notin D
          BY <3>2, <4>1 DEF Fits, D
        <4>3. ASSUME NEW i \in 1 .. N, NEW j \in 1 .. i - 1, items[j] = items[i] PROVE FALSE
          <5>1. j \in 1 .. N /\ j # i
            BY <2>2
          <5> QED BY <2>2, <3>2, <4>3, <5>1 DEF Fits, IsInjective
        <4> QED BY <4>2, <4>3
      <3> QED BY <3>1, <3>2
    <2> HIDE DEF FitTo
    <2> QED BY <1>2, <2>1, <2>2, <2>5, <2>6 DEF items, D, ReadOn
  <1> QED BY <1>1, <1>2

LEMMA StartOfReading ==
    ASSUME NEW ok \in BOOLEAN
    PROVE  [ok |-> ok, overrides |-> NoOverrides] \in Reads
  <1>1. NoOverrides \in Maps
    <2>1. {} \in SUBSET Strings /\ NoOverrides \in [{} -> BOOLEAN]
      BY DEF NoOverrides
    <2> QED BY <2>1 DEF Maps
  <1> QED BY <1>1 DEF Reads

\* fromJson() reads what the lists say, and accepts them only if they say it once.
LEMMA FromJsonResult ==
    ASSUME NEW document, IsMember(document.enabledPlugins), IsMember(document.disabledPlugins)
    PROVE  /\ FromJson(document) \in Reads
           /\ FromJson(document).ok <=>
                  /\ document.kind = "object" /\ document.userData # "other"
                  /\ document.enabledPlugins.kind # "other"
                  /\ document.disabledPlugins.kind # "other"
                  /\ IsInjective(document.enabledPlugins.items)
                  /\ IsInjective(document.disabledPlugins.items)
                  /\ ToSet(document.enabledPlugins.items) \subseteq Ids
                  /\ ToSet(document.disabledPlugins.items) \subseteq Ids
                  /\ ToSet(document.disabledPlugins.items) \cap ToSet(document.enabledPlugins.items) = {}
           /\ DOMAIN FromJson(document).overrides =
                  ToSet(document.enabledPlugins.items) \cup ToSet(document.disabledPlugins.items)
           /\ \A x \in ToSet(document.enabledPlugins.items) : FromJson(document).overrides[x] = TRUE
           /\ \A x \in ToSet(document.disabledPlugins.items) \ ToSet(document.enabledPlugins.items) :
                  FromJson(document).overrides[x] = FALSE
  <1> DEFINE ok == document.kind = "object" /\ document.userData # "other"
             on == document.enabledPlugins
             off == document.disabledPlugins
             start == [ok |-> ok, overrides |-> NoOverrides]
             first == ReadIds(start, on, TRUE)
             second == ReadIds(first, off, FALSE)
             yes == TRUE
             no == FALSE
  <1>1. start \in Reads /\ (start.ok <=> ok) /\ DOMAIN start.overrides = {}
    <2>1. ok \in BOOLEAN
      OBVIOUS
    <2> HIDE DEF ok
    <2> QED BY <2>1, StartOfReading, NoneOverridden
  <1>2. FromJson(document) = second
    BY DEF FromJson
  <1>3. IsMember(on) /\ IsMember(off) /\ yes \in BOOLEAN /\ no \in BOOLEAN
    OBVIOUS
  <1> HIDE DEF start, on, off, yes, no
  <1>4. ReadOn(ReadIds(start, on, yes), start, on, yes)
    BY <1>1, <1>3, ReadIdsResult
  <1>5. /\ first \in Reads
        /\ first.ok <=> ok /\ on.kind # "other" /\ IsInjective(on.items) /\ ToSet(on.items) \subseteq Ids
        /\ DOMAIN first.overrides = ToSet(on.items)
        /\ \A x \in ToSet(on.items) : first.overrides[x] = TRUE
    <2>1. first = ReadIds(start, on, yes)
      BY DEF yes
    <2> HIDE DEF first, ok
    <2> QED BY <1>1, <1>4, <2>1 DEF Fits, yes, ReadOn
  <1> HIDE DEF first
  <1>6. ReadOn(ReadIds(first, off, no), first, off, no)
    BY <1>3, <1>5, ReadIdsResult
  <1>7. second = ReadIds(first, off, no)
    BY DEF no
  <1> HIDE DEF second, ok
  <1>8. /\ second \in Reads
        /\ second.ok <=> /\ ok /\ on.kind # "other" /\ off.kind # "other"
                         /\ IsInjective(on.items) /\ IsInjective(off.items)
                         /\ ToSet(on.items) \subseteq Ids /\ ToSet(off.items) \subseteq Ids
                         /\ ToSet(off.items) \cap ToSet(on.items) = {}
        /\ DOMAIN second.overrides = ToSet(on.items) \cup ToSet(off.items)
        /\ \A x \in ToSet(on.items) : second.overrides[x] = TRUE
        /\ \A x \in ToSet(off.items) \ ToSet(on.items) : second.overrides[x] = FALSE
    <2>1. second \in Reads
      BY <1>6, <1>7 DEF ReadOn
    <2>2. second.ok <=> first.ok /\ off.kind # "other" /\ Fits(off.items, first.overrides)
      BY <1>6, <1>7 DEF ReadOn
    <2>3. Fits(off.items, first.overrides) <=>
              /\ IsInjective(off.items) /\ ToSet(off.items) \subseteq Ids
              /\ ToSet(off.items) \cap ToSet(on.items) = {}
      BY <1>5 DEF Fits
    <2>4. DOMAIN second.overrides = ToSet(on.items) \cup ToSet(off.items)
      BY <1>5, <1>6, <1>7 DEF ReadOn
    <2>5. \A x \in ToSet(on.items) : second.overrides[x] = TRUE
      BY <1>5, <1>6, <1>7 DEF ReadOn
    <2>6. \A x \in ToSet(off.items) \ ToSet(on.items) : second.overrides[x] = FALSE
      BY <1>5, <1>6, <1>7 DEF no, ReadOn
    <2> QED BY <1>5, <2>1, <2>2, <2>3, <2>4, <2>5, <2>6
  <1> QED BY <1>2, <1>8 DEF ok, on, off

\* The settings that a document is read into say what the document says.
LEMMA DocumentRead ==
    ASSUME NEW document, IsMember(document.enabledPlugins), IsMember(document.disabledPlugins),
           FromJson(document).ok
    PROVE  /\ IsOverrides(FromJson(document).overrides)
           /\ Said(document) = Says(FromJson(document).overrides)
  <1> DEFINE on == ToSet(document.enabledPlugins.items)
             off == ToSet(document.disabledPlugins.items)
             o == FromJson(document).overrides
  <1>1. /\ o \in Maps /\ on \subseteq Ids /\ off \subseteq Ids /\ off \cap on = {}
        /\ DOMAIN o = on \cup off
        /\ \A x \in on : o[x] = TRUE
        /\ \A x \in off : o[x] = FALSE
    <2>1. /\ FromJson(document) \in Reads
          /\ FromJson(document).ok <=>
                 /\ document.kind = "object" /\ document.userData # "other"
                 /\ document.enabledPlugins.kind # "other"
                 /\ document.disabledPlugins.kind # "other"
                 /\ IsInjective(document.enabledPlugins.items)
                 /\ IsInjective(document.disabledPlugins.items)
                 /\ ToSet(document.enabledPlugins.items) \subseteq Ids
                 /\ ToSet(document.disabledPlugins.items) \subseteq Ids
                 /\ ToSet(document.disabledPlugins.items) \cap ToSet(document.enabledPlugins.items) = {}
          /\ DOMAIN FromJson(document).overrides =
                 ToSet(document.enabledPlugins.items) \cup ToSet(document.disabledPlugins.items)
          /\ \A x \in ToSet(document.enabledPlugins.items) : FromJson(document).overrides[x] = TRUE
          /\ \A x \in ToSet(document.disabledPlugins.items) \ ToSet(document.enabledPlugins.items) :
                 FromJson(document).overrides[x] = FALSE
      BY FromJsonResult
    <2>2. \A r \in Reads : r.overrides \in Maps
      BY DEF Reads
    <2> QED BY <2>1, <2>2
  <1>2. IsFiniteSet(on) /\ IsFiniteSet(off)
    <2>1. document.enabledPlugins.items \in Seq(Strings) /\ document.disabledPlugins.items \in Seq(Strings)
      BY DEF IsMember, Strings
    <2>2. \A s \in Seq(Strings) : IsFiniteSet(ToSet(s))
      <3> SUFFICES ASSUME NEW s \in Seq(Strings) PROVE IsFiniteSet(ToSet(s))
        OBVIOUS
      <3>1. Len(s) \in Nat /\ DOMAIN s = 1 .. Len(s)
        BY LenProperties
      <3>2. IsFiniteSet(1 .. Len(s))
        BY <3>1, FS_Interval
      <3>3. s \in Surjection(1 .. Len(s), ToSet(s))
        <4>1. s = [i \in 1 .. Len(s) |-> s[i]]
          BY <3>1
        <4>2. s \in [1 .. Len(s) -> ToSet(s)]
          BY <3>1, <4>1 DEF ToSet
        <4> QED BY <3>1, <4>2 DEF Surjection, ToSet
      <3> DEFINE I == 1 .. Len(s)
                 T == ToSet(s)
      <3>4. IsFiniteSet(I) /\ s \in Surjection(I, T)
        BY <3>2, <3>3
      <3> HIDE DEF I, T
      <3>5. IsFiniteSet(T)
        BY <3>4, FS_Surjection
      <3> QED BY <3>5 DEF T
    <2> QED BY <2>1, <2>2
  <1>3. IsFiniteSet(on \cup off)
    <2> HIDE DEF on, off
    <2> QED BY <1>2, FS_Union
  <1> HIDE DEF on, off, o
  <1>4. IsOverrides(o)
    <2> DEFINE D == on \cup off
    <2>1. DOMAIN o = D /\ D \subseteq Ids /\ IsFiniteSet(D)
      BY <1>1, <1>3
    <2>2. o \in [D -> BOOLEAN]
      <3>1. PICK S \in SUBSET Strings : o \in [S -> BOOLEAN]
        BY <1>1 DEF Maps
      <3>2. S = D
        BY <2>1, <3>1
      <3> QED BY <3>1, <3>2
    <2> HIDE DEF D
    <2>3. o \in [DOMAIN o -> BOOLEAN] /\ DOMAIN o \subseteq Ids /\ IsFiniteSet(DOMAIN o)
      BY <2>1, <2>2, Zenon
    <2> QED BY <2>3 DEF IsOverrides
  <1>5. Says(o) = [on |-> on, off |-> off]
    <2>1. {id \in DOMAIN o : o[id] = TRUE} = on
      BY <1>1
    <2>2. {id \in DOMAIN o : o[id] = FALSE} = off
      BY <1>1
    <2> QED BY <2>1, <2>2 DEF Says
  <1>6. Said(document) = [on |-> on, off |-> off]
    BY DEF Said, on, off
  <1> QED BY <1>4, <1>5, <1>6 DEF o

\* What toJson() wrote, fromJson() reads back.
LEMMA RoundTrip ==
    ASSUME NEW o, IsOverrides(o)
    PROVE  FromJson(ToJson(o)) = [ok |-> TRUE, overrides |-> o]
  <1> DEFINE document == ToJson(o)
             on == IdsWith(o, TRUE)
             off == IdsWith(o, FALSE)
             r == FromJson(document)
  <1>1. /\ on \in Seq(Ids) /\ IsInjective(on) /\ ToSet(on) = {id \in DOMAIN o : o[id] = TRUE}
        /\ off \in Seq(Ids) /\ IsInjective(off) /\ ToSet(off) = {id \in DOMAIN o : o[id] = FALSE}
    BY WrittenIds
  <1>2. /\ document.kind = "object" /\ document.userData # "other"
        /\ document.enabledPlugins = List(on) /\ document.disabledPlugins = List(off)
    BY DEF ToJson
  <1> HIDE DEF document, on, off
  <1>3. /\ document.enabledPlugins.items = on /\ document.disabledPlugins.items = off
        /\ document.enabledPlugins.kind = "array" /\ document.disabledPlugins.kind = "array"
    BY <1>2 DEF List
  <1>4. IsMember(document.enabledPlugins) /\ IsMember(document.disabledPlugins)
    <2>1. Seq(Ids) \subseteq Seq(Ids \cup {EmptyId, NotAString})
      <3> SUFFICES ASSUME NEW s \in Seq(Ids) PROVE s \in Seq(Ids \cup {EmptyId, NotAString})
        OBVIOUS
      <3>1. Len(s) \in Nat /\ s \in [1 .. Len(s) -> Ids]
        BY LenProperties
      <3>2. s \in [1 .. Len(s) -> Ids \cup {EmptyId, NotAString}]
        BY <3>1
      <3> QED BY <3>1, <3>2, SeqDef
    <2> QED BY <1>1, <1>3, <2>1 DEF IsMember
  <1>5. /\ r \in Reads
        /\ r.ok <=>
               /\ document.kind = "object" /\ document.userData # "other"
               /\ document.enabledPlugins.kind # "other"
               /\ document.disabledPlugins.kind # "other"
               /\ IsInjective(document.enabledPlugins.items)
               /\ IsInjective(document.disabledPlugins.items)
               /\ ToSet(document.enabledPlugins.items) \subseteq Ids
               /\ ToSet(document.disabledPlugins.items) \subseteq Ids
               /\ ToSet(document.disabledPlugins.items) \cap ToSet(document.enabledPlugins.items) = {}
        /\ DOMAIN r.overrides =
               ToSet(document.enabledPlugins.items) \cup ToSet(document.disabledPlugins.items)
        /\ \A x \in ToSet(document.enabledPlugins.items) : r.overrides[x] = TRUE
        /\ \A x \in ToSet(document.disabledPlugins.items) \ ToSet(document.enabledPlugins.items) :
               r.overrides[x] = FALSE
    BY <1>4, FromJsonResult
  <1> HIDE DEF r
  <1>6. /\ DOMAIN o \subseteq Ids /\ \A id \in DOMAIN o : o[id] \in BOOLEAN
        /\ o = [id \in DOMAIN o |-> o[id]]
    BY DEF IsOverrides
  <1>7. ToSet(on) \subseteq Ids /\ ToSet(off) \subseteq Ids /\ ToSet(off) \cap ToSet(on) = {}
        /\ ToSet(on) \cup ToSet(off) = DOMAIN o
    BY <1>1, <1>6
  <1>8. r.ok
    BY <1>1, <1>2, <1>3, <1>5, <1>7
  <1>9. r.overrides = o
    <2>1. DOMAIN r.overrides = DOMAIN o
      BY <1>3, <1>5, <1>7
    <2>2. ASSUME NEW id \in DOMAIN o
          PROVE  r.overrides[id] = o[id]
      <3>1. CASE id \in ToSet(on)
        BY <1>1, <1>3, <1>5, <3>1
      <3>2. CASE id \in ToSet(off)
        BY <1>1, <1>3, <1>5, <1>7, <3>2
      <3> QED BY <1>7, <3>1, <3>2
    <2>3. r.overrides = [id \in DOMAIN r.overrides |-> r.overrides[id]]
      BY <1>5 DEF Reads, Maps
    <2> QED BY <1>6, <2>1, <2>2, <2>3
  <1>10. r = [ok |-> TRUE, overrides |-> o]
    <2>1. r.ok = TRUE /\ r = [ok |-> r.ok, overrides |-> r.overrides]
      BY <1>5, <1>8 DEF Reads
    <2> QED BY <1>9, <2>1
  <1> QED BY <1>10 DEF r, document

-----------------------------------------------------------------------------
(* The invariant.                                                          *)

\* The settings are what their documents say.
SettingsSaid ==
    /\ settings = [scope \in Scopes |-> settings[scope]]
    /\ \A scope \in Scopes : IsOverrides(settings[scope])
    /\ said = [scope \in Scopes |-> Says(settings[scope])]

\* The entries of the specs, as applySettings() left them.
Specs ==
    /\ pluginData \in Seq(Entry) /\ OneEach(pluginData)
    /\ \A e \in ToSet(pluginData) : EnabledBy(e, settings)

Started == loadStarted => LoadersOf(pluginData) = ToSet(SystemLoaders)

AllSelected == \A e \in ToSet(pluginData) : e.selected

\* What the predicate has said so far, and what came of it.
Choosing ==
    /\ loadStarted \in BOOLEAN /\ selecting \in BOOLEAN /\ (selecting => loadStarted)
    /\ selections \in Seq(BOOLEAN) /\ (~loadStarted => selections = <<>>)
    /\ ~loadStarted \/ selecting => AllSelected
    /\ selecting => /\ Len(selections) <= Len(pluginData)
                    /\ \A i \in 1 .. Len(selections) :
                           selections[i] <=> pluginData[i].file \in Broken \cup loadPredicate
    /\ loadStarted /\ ~selecting =>
           \A e \in ToSet(pluginData) : e.selected <=> e.file \in Broken \cup loadPredicate

Consistent == SettingsSaid /\ Specs /\ Started /\ Choosing

LEMMA DiscoverSpecs ==
    ASSUME Tracking, Specs, SettingsSaid, Discover
    PROVE  /\ pluginData' \in Seq(Entry) /\ OneEach(pluginData')
           /\ \A e \in ToSet(pluginData') : EnabledBy(e, settings)
           /\ LoadersOf(pluginData') = ToSet(SystemLoaders')
           /\ AllSelected => \A e \in ToSet(pluginData') : e.selected
  <1>1. Tracking'
    BY DiscoverTracking
  <1>2. SystemIid \in Iids
    BY MetadataAssumption
  <1>3. /\ loaders'[SystemIid] \in Seq(Addresses) /\ IsInjective(loaders'[SystemIid])
        /\ \A a \in FileLoaders' : loader'[a].file \in Files
    BY <1>1, <1>2 DEF Tracking, Heap, Homed, FilesTracked
  <1>4. PICK list : list = loaders'[SystemIid]
    OBVIOUS
  <1>5. PICK S : S = FileLoaders'
    OBVIOUS
  <1>6. PICK heap : heap = loader'
    OBVIOUS
  <1> DEFINE found == Kept(list, S)
  <1>7. SystemLoaders' = found
    BY <1>4, <1>5 DEF SystemLoaders
  <1>8. found \in Seq(Addresses) /\ IsInjective(found) /\ ToSet(found) = ToSet(list) \cap S
    <2>1. list \in Seq(Addresses) /\ IsInjective(list)
      BY <1>3, <1>4
    <2>2. /\ Kept(list, S) \in Seq(Addresses) /\ ToSet(Kept(list, S)) = ToSet(list) \cap S
          /\ IsInjective(list) => IsInjective(Kept(list, S))
      BY <2>1, KeptElements
    <2> QED BY <2>1, <2>2
  <1> DEFINE data == KeptData(found) \o NewData(found, heap)
  <1>9. pluginData' = Applied(data, settings)
    BY <1>6, <1>7 DEF Discover, AfterScan
  <1>10. \A a \in ToSet(found) : heap[a].file \in Files
    BY <1>3, <1>5, <1>6, <1>8
  <1> HIDE DEF found
  <1>11. /\ data \in Seq(Entry) /\ OneEach(data) /\ LoadersOf(data) = ToSet(found)
         /\ \A e \in ToSet(data) : e.selected \/ e \in ToSet(pluginData)
    BY <1>8, <1>10, ScannedEntries DEF Specs
  <1> HIDE DEF data
  <1> DEFINE applied == Applied(data, settings)
  <1>12. /\ applied \in Seq(Entry) /\ Len(applied) = Len(data)
         /\ \A i \in 1 .. Len(data) :
                /\ applied[i].loader = data[i].loader /\ applied[i].file = data[i].file
                /\ applied[i].selected = data[i].selected /\ EnabledBy(applied[i], settings)
    <2>1. IsOverrides(settings["Global"]) /\ IsOverrides(settings["Local"])
      BY DEF SettingsSaid, Scopes
    <2> QED BY <1>11, <2>1, AppliedEntries
  <1> HIDE DEF applied
  <1>13. (OneEach(data) => OneEach(applied)) /\ LoadersOf(applied) = LoadersOf(data)
    BY <1>11, <1>12, SamePlaces
  <1>14. ASSUME NEW e \in ToSet(applied)
         PROVE  EnabledBy(e, settings) /\ (AllSelected => e.selected)
    <2>1. /\ DOMAIN applied = 1 .. Len(applied)
          /\ \A i \in 1 .. Len(data) : data[i] \in ToSet(data)
      BY <1>11, <1>12, ToSetOf
    <2>2. PICK i \in 1 .. Len(data) : e = applied[i]
      BY <1>12, <2>1 DEF ToSet
    <2>3. data[i].selected \/ data[i] \in ToSet(pluginData)
      BY <1>11, <2>1
    <2>4. AllSelected => data[i].selected
      BY <2>3 DEF AllSelected
    <2> QED BY <1>12, <2>2, <2>4
  <1>15. pluginData' = applied
    BY <1>9 DEF applied
  <1> QED BY <1>7, <1>11, <1>12, <1>13, <1>14, <1>15

\* A scan, in the course of a query or at the start of loading.
LEMMA DiscoverConsistent ==
    ASSUME Tracking, Consistent, ~loadStarted, Discover, UNCHANGED <<configuration, selections>>,
           \/ UNCHANGED <<loadStarted, selecting>>
           \/ loadStarted' = TRUE /\ selecting' = TRUE
    PROVE  Consistent'
  <1>1. /\ pluginData' \in Seq(Entry) /\ OneEach(pluginData')
        /\ \A e \in ToSet(pluginData') : EnabledBy(e, settings)
        /\ LoadersOf(pluginData') = ToSet(SystemLoaders')
        /\ AllSelected => \A e \in ToSet(pluginData') : e.selected
    BY DiscoverSpecs DEF Consistent
  <1>2. UNCHANGED <<settings, said, loadPredicate, selections>>
    BY DEF configuration
  <1>3. SettingsSaid' /\ Specs' /\ Started'
    BY <1>1, <1>2 DEF Consistent, SettingsSaid, Specs, Started
  <1>4. AllSelected'
    BY <1>1 DEF Consistent, Choosing, AllSelected
  <1>5. selections = <<>> /\ ~selecting
    BY DEF Consistent, Choosing
  <1>6. Len(<<>>) = 0 /\ Len(pluginData') \in Nat /\ 1 .. 0 = {}
    BY <1>1, LenProperties
  <1>7. Choosing'
    <2>1. (loadStarted' = FALSE /\ selecting' = FALSE) \/ (loadStarted' = TRUE /\ selecting' = TRUE)
      BY <1>5 DEF Consistent, Choosing
    <2>2. selections' = <<>> /\ selections' \in Seq(BOOLEAN)
      BY <1>2, <1>5
    <2>3. CASE loadStarted' = FALSE /\ selecting' = FALSE
      BY <1>4, <2>2, <2>3 DEF Choosing
    <2>4. CASE loadStarted' = TRUE /\ selecting' = TRUE
      <3>1. Len(selections') = 0 /\ 0 <= Len(pluginData') /\ 1 .. Len(selections') = {}
        BY <1>6, <2>2
      <3> QED BY <1>4, <2>2, <2>4, <3>1 DEF Choosing
    <2> QED BY <2>1, <2>3, <2>4
  <1> QED BY <1>3, <1>7 DEF Consistent

\* A setter of the settings, before loading starts.
LEMMA SettingsConsistent ==
    ASSUME Consistent, NEW scope \in Scopes, NEW o, IsOverrides(o), SetPluginSettings(scope, o),
           said' = [said EXCEPT ![scope] = Says(o)]
    PROVE  Consistent'
  <1>1. /\ ~loadStarted /\ settings' = [settings EXCEPT ![scope] = o]
        /\ pluginData' = Applied(pluginData, settings')
        /\ UNCHANGED <<loadPredicate, loadStarted, selecting, selections>>
    BY DEF SetPluginSettings, Configurable, progress
  <1>2. SettingsSaid'
    BY <1>1 DEF Consistent, SettingsSaid
  <1>3. PICK current : current = settings'
    OBVIOUS
  <1>4. IsOverrides(current["Global"]) /\ IsOverrides(current["Local"])
    BY <1>2, <1>3 DEF SettingsSaid, Scopes
  <1>5. PICK data : data = pluginData
    OBVIOUS
  <1> DEFINE applied == Applied(data, current)
  <1>6. data \in Seq(Entry) /\ OneEach(data)
    BY <1>5 DEF Consistent, Specs
  <1>7. /\ applied \in Seq(Entry) /\ Len(applied) = Len(data)
        /\ \A i \in 1 .. Len(data) :
               /\ applied[i].loader = data[i].loader /\ applied[i].file = data[i].file
               /\ applied[i].selected = data[i].selected /\ EnabledBy(applied[i], current)
    BY <1>4, <1>6, AppliedEntries
  <1>8. pluginData' = applied
    BY <1>1, <1>3, <1>5
  <1> HIDE DEF applied
  <1>9. OneEach(applied)
    BY <1>6, <1>7, SamePlaces
  <1>10. ASSUME NEW e \in ToSet(applied)
         PROVE  EnabledBy(e, current) /\ e.selected
    <2>1. /\ DOMAIN applied = 1 .. Len(applied)
          /\ \A i \in 1 .. Len(data) : data[i] \in ToSet(data)
      BY <1>6, <1>7, ToSetOf
    <2>2. PICK i \in 1 .. Len(data) : e = applied[i]
      BY <1>7, <2>1 DEF ToSet
    <2>3. data[i].selected
      BY <1>1, <1>5, <2>1 DEF Consistent, Choosing, AllSelected
    <2> QED BY <1>7, <2>2, <2>3
  <1>11. Specs'
    BY <1>3, <1>7, <1>8, <1>9, <1>10 DEF Specs
  <1>12. AllSelected'
    BY <1>8, <1>10 DEF AllSelected
  <1>13. Choosing' /\ Started'
    BY <1>1, <1>12 DEF Consistent, Choosing, Started
  <1> QED BY <1>2, <1>11, <1>13 DEF Consistent

LEMMA AskPredicateConsistent ==
    ASSUME Consistent, AskPredicate
    PROVE  Consistent'
  <1>1. /\ selecting /\ Len(selections) < Len(pluginData)
        /\ UNCHANGED <<loaders, loader, pluginData, settings, said, loadPredicate,
                       loadStarted, selecting>>
    BY DEF AskPredicate, factoryVars, configuration
  <1> DEFINE n == Len(selections)
             data == pluginData[n + 1]
             choice == IF data.file \in Broken THEN data.selected ELSE data.file \in loadPredicate
  <1>2. selections' = Append(selections, choice)
    BY DEF AskPredicate
  <1>3. /\ selections \in Seq(BOOLEAN) /\ n \in Nat /\ Len(pluginData) \in Nat
        /\ pluginData \in Seq(Entry) /\ n + 1 \in 1 .. Len(pluginData)
    <2>1. selections \in Seq(BOOLEAN) /\ pluginData \in Seq(Entry)
      BY DEF Consistent, Choosing, Specs
    <2>2. n \in Nat /\ Len(pluginData) \in Nat
      BY <2>1, LenProperties
    <2> QED BY <1>1, <2>1, <2>2
  <1>4. data \in Entry /\ data \in ToSet(pluginData)
    <2> HIDE DEF n
    <2> QED BY <1>3, ToSetOf
  <1>5. data.selected = TRUE
    BY <1>1, <1>4 DEF Consistent, Choosing, AllSelected, Entry
  <1>6. choice \in BOOLEAN /\ (choice <=> data.file \in Broken \cup loadPredicate)
    <2> HIDE DEF data
    <2>1. CASE data.file \in Broken
      <3>1. choice = TRUE
        BY <1>5, <2>1
      <3> QED BY <2>1, <3>1
    <2>2. CASE data.file \notin Broken
      <3>1. choice = (data.file \in loadPredicate)
        BY <2>2
      <3> QED BY <2>2, <3>1
    <2> QED BY <2>1, <2>2
  <1> HIDE DEF choice
  <1>7. /\ selections' \in Seq(BOOLEAN) /\ Len(selections') = n + 1
        /\ \A i \in 1 .. n : selections'[i] = selections[i]
        /\ selections'[n + 1] = choice
    BY <1>2, <1>3, <1>6, AppendProperties
  <1>8. \A i \in 1 .. n : selections[i] <=> pluginData[i].file \in Broken \cup loadPredicate
    BY <1>1 DEF Consistent, Choosing
  <1>9. ASSUME NEW i \in 1 .. Len(selections')
        PROVE  selections'[i] <=> pluginData[i].file \in Broken \cup loadPredicate
    <2>1. i \in 1 .. n \/ i = n + 1
      BY <1>3, <1>7
    <2>2. CASE i \in 1 .. n
      BY <1>7, <1>8, <2>2
    <2>3. CASE i = n + 1
      BY <1>6, <1>7, <2>3
    <2> QED BY <2>1, <2>2, <2>3
  <1>10. Len(selections') <= Len(pluginData)
    BY <1>3, <1>7
  <1>11. Choosing'
    <2>1. AllSelected /\ loadStarted = TRUE
      BY <1>1 DEF Consistent, Choosing
    <2>2. AllSelected'
      BY <1>1, <2>1 DEF AllSelected
    <2> QED BY <1>1, <1>7, <1>9, <1>10, <2>1, <2>2 DEF Consistent, Choosing
  <1>12. SettingsSaid' /\ Specs'
    BY <1>1 DEF Consistent, SettingsSaid, Specs
  <1>13. Started'
    BY <1>1 DEF Consistent, Started, SystemLoaders, FileLoaders, Live
  <1> QED BY <1>11, <1>12, <1>13 DEF Consistent

LEMMA CommitConsistent ==
    ASSUME Consistent, CommitSelections
    PROVE  Consistent'
  <1>1. /\ selecting /\ Len(selections) = Len(pluginData)
        /\ pluginData' = [i \in DOMAIN pluginData |->
                             [pluginData[i] EXCEPT !.selected = selections[i]]]
        /\ selecting' = FALSE
        /\ UNCHANGED <<loaders, loader, settings, said, loadPredicate, loadStarted, selections>>
    BY DEF CommitSelections, factoryVars, configuration
  <1>2. PICK data : data = pluginData
    OBVIOUS
  <1>3. PICK choices : choices = selections
    OBVIOUS
  <1> DEFINE n == Len(data)
             New(i) == [data[i] EXCEPT !.selected = choices[i]]
             new == [i \in 1 .. n |-> New(i)]
  <1>4. data \in Seq(Entry) /\ OneEach(data) /\ choices \in Seq(BOOLEAN) /\ Len(choices) = n
    BY <1>1, <1>2, <1>3 DEF Consistent, Specs, Choosing
  <1>5. /\ n \in Nat /\ DOMAIN data = 1 .. n
        /\ \A i \in 1 .. n : data[i] \in Entry /\ data[i] \in ToSet(data) /\ choices[i] \in BOOLEAN
    <2>1. Len(data) \in Nat /\ DOMAIN data = 1 .. n
          /\ \A i \in 1 .. n : data[i] \in Entry /\ data[i] \in ToSet(data)
      BY <1>4, ToSetOf
    <2>2. \A i \in 1 .. n : choices[i] \in BOOLEAN
      BY <1>4, ElementOfSeq
    <2> QED BY <2>1, <2>2
  <1>6. \A i \in 1 .. n : choices[i] <=> data[i].file \in Broken \cup loadPredicate
    BY <1>1, <1>2, <1>3, <1>4 DEF Consistent, Choosing
  <1>7. ASSUME NEW i \in 1 .. n
        PROVE  /\ New(i) \in Entry /\ New(i).loader = data[i].loader /\ New(i).file = data[i].file
               /\ New(i).enabledByGlobal = data[i].enabledByGlobal
               /\ New(i).enabled = data[i].enabled /\ New(i).selected = choices[i]
    BY <1>5 DEF Entry
  <1>8. pluginData' = new
    BY <1>1, <1>2, <1>3, <1>5
  <1> HIDE DEF New
  <1>9. new \in Seq(Entry) /\ Len(new) = n /\ DOMAIN new = 1 .. n /\ \A i \in 1 .. n : new[i] = New(i)
    <2> HIDE DEF n
    <2>1. new \in [1 .. n -> Entry]
      BY <1>7
    <2>2. new \in Seq(Entry)
      BY <1>5, <2>1, SeqDef
    <2>3. DOMAIN new = 1 .. n /\ DOMAIN new = 1 .. Len(new) /\ Len(new) \in Nat
      BY <2>2, LenProperties
    <2> QED BY <1>5, <2>2, <2>3
  <1> HIDE DEF new
  <1>10. OneEach(new) /\ LoadersOf(new) = LoadersOf(data)
    BY <1>4, <1>7, <1>9, SamePlaces
  <1>11. ASSUME NEW e \in ToSet(new)
         PROVE  EnabledBy(e, settings) /\ (e.selected <=> e.file \in Broken \cup loadPredicate)
    <2>1. PICK i \in 1 .. n : e = new[i]
      BY <1>9 DEF ToSet
    <2>2. e = New(i)
      BY <1>9, <2>1
    <2>3. EnabledBy(data[i], settings)
      BY <1>2, <1>5 DEF Consistent, Specs
    <2>4. EnabledBy(e, settings)
      BY <1>7, <2>2, <2>3 DEF EnabledBy
    <2>5. e.selected = choices[i] /\ e.file = data[i].file
      BY <1>7, <2>2
    <2> QED BY <1>6, <2>4, <2>5
  <1>12. SettingsSaid' /\ Specs'
    BY <1>1, <1>8, <1>9, <1>10, <1>11 DEF Consistent, SettingsSaid, Specs
  <1>13. Started'
    <2>1. loadStarted /\ SystemLoaders' = SystemLoaders
      BY <1>1 DEF Consistent, Choosing, SystemLoaders, FileLoaders, Live
    <2>2. LoadersOf(pluginData') = LoadersOf(pluginData)
      BY <1>2, <1>8, <1>10
    <2> QED BY <2>1, <2>2 DEF Consistent, Started
  <1>14. Choosing'
    <2>1. loadStarted = TRUE
      BY <1>1 DEF Consistent, Choosing
    <2> QED BY <1>1, <1>8, <1>11, <2>1 DEF Consistent, Choosing
  <1> QED BY <1>12, <1>13, <1>14 DEF Consistent

\* What the invariant is about, apart from the factory.
Untouched ==
    UNCHANGED <<loaders, loader, pluginData, settings, said, loadPredicate, loadStarted,
                selecting, selections>>

LEMMA UntouchedConsistent ==
    ASSUME Consistent, Untouched
    PROVE  Consistent'
  <1>1. SettingsSaid' /\ Specs'
    BY DEF Untouched, Consistent, SettingsSaid, Specs
  <1>2. Started'
    BY DEF Untouched, Consistent, Started, SystemLoaders, FileLoaders, Live
  <1>3. Choosing'
    BY DEF Untouched, Consistent, Choosing, AllSelected
  <1> QED BY <1>1, <1>2, <1>3 DEF Consistent

LEMMA BeforeStart ==
    ASSUME Consistent, ~loadStarted,
           UNCHANGED <<pluginData, settings, said, loadStarted, selecting, selections>>
    PROVE  Consistent'
  <1>1. SettingsSaid' /\ Specs' /\ Started'
    BY DEF Consistent, SettingsSaid, Specs, Started
  <1>2. ~selecting /\ ~selecting' /\ ~loadStarted' /\ AllSelected'
    BY DEF Consistent, Choosing, AllSelected
  <1>3. Choosing'
    BY <1>2 DEF Consistent, Choosing
  <1> QED BY <1>1, <1>3 DEF Consistent

LEMMA LoadSettingsConsistent ==
    ASSUME Consistent, NEW scope \in Scopes, NEW source \in Documents, LoadSettings(scope, source)
    PROVE  Consistent'
  <1>1. IsMember(source.enabledPlugins) /\ IsMember(source.disabledPlugins)
    BY DocumentAssumption
  <1>2. /\ FromJson(source).ok /\ SetPluginSettings(scope, FromJson(source).overrides)
        /\ said' = [said EXCEPT ![scope] = Said(source)]
    BY DEF LoadSettings
  <1>3. /\ IsOverrides(FromJson(source).overrides)
        /\ Said(source) = Says(FromJson(source).overrides)
    BY <1>1, <1>2, DocumentRead
  <1> DEFINE o == FromJson(source).overrides
  <1>4. IsOverrides(o) /\ SetPluginSettings(scope, o) /\ said' = [said EXCEPT ![scope] = Says(o)]
    BY <1>2, <1>3
  <1> HIDE DEF o
  <1> QED BY <1>4, SettingsConsistent

LEMMA EditSettingsConsistent ==
    ASSUME Consistent, NEW scope \in Scopes, NEW id \in Ids, EditSettings(scope, id)
    PROVE  Consistent'
  <1>1. PICK o : SetPluginSettings(scope, o) /\ IsOverrides(o)
    <2>1. IsOverrides(settings[scope])
      BY DEF Consistent, SettingsSaid
    <2>2. CASE \E enabled \in BOOLEAN : SetPluginSettings(scope, Override(settings[scope], id, enabled))
      <3>1. PICK enabled \in BOOLEAN : SetPluginSettings(scope, Override(settings[scope], id, enabled))
        BY <2>2
      <3>2. IsOverrides(Override(settings[scope], id, enabled))
        BY <2>1, OverridesKept
      <3> QED BY <3>1, <3>2
    <2>3. CASE SetPluginSettings(scope, Forget(settings[scope], id))
      <3>1. IsOverrides(Forget(settings[scope], id))
        BY <2>1, OverridesKept
      <3> QED BY <2>3, <3>1
    <2> QED BY <2>2, <2>3 DEF EditSettings
  <1>2. said' = [said EXCEPT ![scope] = Said(ToJson(settings'[scope]))]
    BY DEF EditSettings
  <1>3. settings'[scope] = o
    BY <1>1 DEF SetPluginSettings, Consistent, SettingsSaid
  <1>4. Said(ToJson(o)) = Says(o)
    BY <1>1, SaidWritten
  <1> QED BY <1>1, <1>2, <1>3, <1>4, SettingsConsistent

LEMMA DiscoveryInitConsistent ==
    ASSUME DiscoveryInit
    PROVE  Consistent
  <1>1. /\ pluginData = <<>> /\ selections = <<>> /\ loadStarted = FALSE /\ selecting = FALSE
        /\ settings = [scope \in Scopes |-> NoOverrides]
        /\ said = [scope \in Scopes |-> Said(ToJson(NoOverrides))]
    BY DEF DiscoveryInit
  <1>2. SettingsSaid
    <2>1. IsOverrides(NoOverrides) /\ Said(ToJson(NoOverrides)) = Says(NoOverrides)
      BY NoneOverridden, SaidWritten
    <2> QED BY <1>1, <2>1 DEF SettingsSaid
  <1>3. /\ pluginData \in Seq(Entry) /\ DOMAIN pluginData = {} /\ ToSet(pluginData) = {}
        /\ selections \in Seq(BOOLEAN)
    <2>1. DOMAIN <<>> = {} /\ <<>> \in Seq(Entry) /\ <<>> \in Seq(BOOLEAN)
      OBVIOUS
    <2> QED BY <1>1, <2>1 DEF ToSet
  <1>4. Specs
    BY <1>3 DEF Specs, OneEach, IsInjective
  <1>5. Started /\ Choosing
    BY <1>1, <1>3 DEF Started, Choosing, AllSelected
  <1> QED BY <1>2, <1>4, <1>5 DEF Consistent

LEMMA DiscoveryConsistent ==
    ASSUME Tracking, Consistent, [DiscoveryNext]_discoveryVars
    PROVE  Consistent'
  <1>1. ASSUME NEW paths, SetSystemPaths(paths)
        PROVE  Consistent'
    BY <1>1, BeforeStart DEF SetSystemPaths, Configurable, configuration, progress
  <1>2. ASSUME NEW scope \in Scopes,
               \/ \E source \in Documents : LoadSettings(scope, source)
               \/ \E id \in Ids : EditSettings(scope, id)
        PROVE  Consistent'
    BY <1>2, LoadSettingsConsistent, EditSettingsConsistent
  <1>3. ASSUME NEW accepted, SetPluginLoadPredicate(accepted)
        PROVE  Consistent'
    BY <1>3, BeforeStart DEF SetPluginLoadPredicate, Configurable, progress
  <1>4. ASSUME NEW t, AskShared(t)
        PROVE  Untouched
    BY <1>4 DEF AskShared, Untouched, factoryVars, configuration, progress
  <1>5. ASSUME NEW t, AskExclusive(t)
        PROVE  Consistent'
    <2>1. UNCHANGED <<configuration, loadStarted, selecting, selections>>
      BY <1>5 DEF AskExclusive, progress
    <2>2. (~loadStarted /\ Discover) \/ UNCHANGED <<factoryVars, pluginData>>
      BY <1>5 DEF AskExclusive, ScanStill
    <2>3. CASE ~loadStarted /\ Discover
      BY <2>1, <2>3, DiscoverConsistent
    <2>4. CASE UNCHANGED <<factoryVars, pluginData>>
      <3>1. Untouched
        BY <2>1, <2>4 DEF Untouched, factoryVars, configuration
      <3> QED BY <3>1, UntouchedConsistent
    <2> QED BY <2>2, <2>3, <2>4
  <1>6. CASE StartLoading
    <2>1. /\ ~loadStarted /\ Discover /\ UNCHANGED <<configuration, selections>>
          /\ loadStarted' = TRUE /\ selecting' = TRUE
      BY <1>6 DEF StartLoading
    <2> QED BY <2>1, DiscoverConsistent
  <1>7. CASE AskPredicate
    BY <1>7, AskPredicateConsistent
  <1>8. CASE CommitSelections
    BY <1>8, CommitConsistent
  <1>9. UNCHANGED discoveryVars => Untouched
    BY DEF discoveryVars, factoryVars, configuration, progress, Untouched
  <1> QED BY <1>1, <1>2, <1>3, <1>4, <1>5, <1>6, <1>7, <1>8, <1>9, UntouchedConsistent
          DEF DiscoveryNext

LEMMA DiscoveryStep ==
    ASSUME Tracking /\ Consistent, [DiscoveryNext]_discoveryVars
    PROVE  (Tracking /\ Consistent)'
BY DiscoveryTracking, DiscoveryConsistent

-----------------------------------------------------------------------------
(* What follows.                                                           *)

LEMMA Deciding ==
    ASSUME NEW o, IsOverrides(o), NEW id, NEW fallback \in BOOLEAN
    PROVE  /\ EnabledOr(o, id, fallback) <=> id \in Says(o).on \/ (fallback /\ id \notin Says(o).off)
           /\ Says(o).on \cap Says(o).off = {}
  <1>1. /\ Says(o).on = {x \in DOMAIN o : o[x] = TRUE}
        /\ Says(o).off = {x \in DOMAIN o : o[x] = FALSE}
    BY DEF Says
  <1>2. \A x \in DOMAIN o : o[x] = TRUE \/ o[x] = FALSE
    BY DEF IsOverrides
  <1>3. CASE id \in DOMAIN o
    <2>1. EnabledOr(o, id, fallback) = o[id]
      BY <1>3 DEF EnabledOr
    <2>2. CASE o[id] = TRUE
      BY <1>1, <1>3, <2>1, <2>2
    <2>3. CASE o[id] = FALSE
      BY <1>1, <1>3, <2>1, <2>3
    <2> QED BY <1>2, <1>3, <2>2, <2>3
  <1>4. CASE id \notin DOMAIN o
    <2>1. EnabledOr(o, id, fallback) = fallback
      BY <1>4 DEF EnabledOr
    <2> QED BY <1>1, <1>4, <2>1
  <1> QED BY <1>3, <1>4

LEMMA DecidedByDocuments ==
    ASSUME Consistent
    PROVE  EnabledByDocuments
  <1>1. \A scope \in Scopes : IsOverrides(settings[scope]) /\ said[scope] = Says(settings[scope])
    BY DEF Consistent, SettingsSaid
  <1>2. ASSUME NEW scope \in Scopes
        PROVE  said[scope].on \cap said[scope].off = {}
    <2> DEFINE o == settings[scope]
    <2>1. IsOverrides(o) /\ said[scope] = Says(o)
      BY <1>1
    <2> HIDE DEF o
    <2> DEFINE fallback == TRUE
    <2>2. fallback \in BOOLEAN
      OBVIOUS
    <2> HIDE DEF fallback
    <2>3. /\ EnabledOr(o, o, fallback) <=> o \in Says(o).on \/ (fallback /\ o \notin Says(o).off)
          /\ Says(o).on \cap Says(o).off = {}
      BY <2>1, <2>2, Deciding
    <2> QED BY <2>1, <2>3
  <1> DEFINE Decided(scope, id, fallback) ==
                 id \in said[scope].on \/ (fallback /\ id \notin said[scope].off)
  <1>3. ASSUME NEW scope \in Scopes, NEW id, NEW fallback \in BOOLEAN
        PROVE  EnabledOr(settings[scope], id, fallback) <=> Decided(scope, id, fallback)
    <2> DEFINE o == settings[scope]
    <2>1. IsOverrides(o) /\ said[scope] = Says(o)
      BY <1>1
    <2> HIDE DEF o
    <2>2. EnabledOr(o, id, fallback) <=> id \in Says(o).on \/ (fallback /\ id \notin Says(o).off)
      BY <2>1, Deciding
    <2> QED BY <2>1, <2>2 DEF o
  <1>4. ASSUME NEW i \in DOMAIN pluginData
        PROVE  /\ pluginData[i].enabledByGlobal <=>
                      Decided("Global", IdOf[pluginData[i].file],
                              EnabledByMetadata[pluginData[i].file])
               /\ pluginData[i].enabled <=>
                      Decided("Local", IdOf[pluginData[i].file], pluginData[i].enabledByGlobal)
    <2> DEFINE e == pluginData[i]
               id == IdOf[e.file]
               fallback == EnabledByMetadata[e.file]
    <2>1. e \in Entry /\ EnabledBy(e, settings)
      <3>1. pluginData \in Seq(Entry) /\ e \in ToSet(pluginData)
        BY DEF Consistent, Specs, ToSet
      <3>2. ToSet(pluginData) \subseteq Entry
        BY <3>1, ToSetOf
      <3> QED BY <3>1, <3>2 DEF Consistent, Specs
    <2> HIDE DEF e
    <2>2. fallback \in BOOLEAN /\ e.enabledByGlobal \in BOOLEAN
      BY <2>1, MetadataAssumption DEF Entry
    <2>3. "Global" \in Scopes /\ "Local" \in Scopes
      BY DEF Scopes
    <2>4. /\ e.enabledByGlobal = EnabledOr(settings["Global"], id, fallback)
          /\ e.enabled = EnabledOr(settings["Local"], id, e.enabledByGlobal)
      BY <2>1 DEF EnabledBy
    <2> HIDE DEF id, fallback, Decided
    <2>5. /\ e.enabledByGlobal <=> Decided("Global", id, fallback)
          /\ e.enabled <=> Decided("Local", id, e.enabledByGlobal)
      BY <1>3, <2>2, <2>3, <2>4
    <2> QED BY <2>5 DEF e, id, fallback
  <1>5. ASSUME NEW i \in DOMAIN pluginData
        PROVE  LET e == pluginData[i] IN
               /\ e.enabledByGlobal <=> Decided("Global", IdOf[e.file], EnabledByMetadata[e.file])
               /\ e.enabled <=> Decided("Local", IdOf[e.file], e.enabledByGlobal)
    BY <1>4, Zenon
  <1> QED BY <1>2, <1>5, Zenon DEF EnabledByDocuments

LEMMA LoadersOfStarted ==
    ASSUME Tracking, Consistent
    PROVE  StartedWithLoaders
  <1>1. SUFFICES ASSUME loadStarted
                 PROVE  /\ {pluginData[i].loader : i \in DOMAIN pluginData} = ToSet(SystemLoaders)
                        /\ Len(pluginData) = Len(SystemLoaders)
    BY DEF StartedWithLoaders
  <1>2. pluginData \in Seq(Entry) /\ OneEach(pluginData)
    BY DEF Consistent, Specs
  <1>3. /\ Len(pluginData) \in Nat /\ DOMAIN pluginData = 1 .. Len(pluginData)
        /\ \A i \in 1 .. Len(pluginData) : pluginData[i] \in Entry /\ pluginData[i] \in ToSet(pluginData)
    BY <1>2, ToSetOf
  <1>4. {pluginData[i].loader : i \in DOMAIN pluginData} = LoadersOf(pluginData)
    BY DEF LoadersOf, ToSet
  <1>5. LoadersOf(pluginData) = ToSet(SystemLoaders)
    BY <1>1 DEF Consistent, Started
  <1> DEFINE n == Len(pluginData)
             s == [i \in 1 .. n |-> pluginData[i].loader]
  <1>6. s \in Seq(Addresses) /\ Len(s) = n /\ IsInjective(s) /\ ToSet(s) = LoadersOf(pluginData)
    <2>1. \A i \in 1 .. n : pluginData[i].loader \in Addresses
      BY <1>3 DEF Entry
    <2> HIDE DEF n
    <2>2. s \in [1 .. n -> Addresses]
      BY <2>1
    <2>3. n \in Nat
      BY <1>3 DEF n
    <2>4. s \in Seq(Addresses)
      BY <2>2, <2>3, SeqDef
    <2>5. DOMAIN s = 1 .. n /\ DOMAIN s = 1 .. Len(s) /\ Len(s) \in Nat
      BY <2>4, LenProperties
    <2>6. Len(s) = n
      BY <2>3, <2>5
    <2>7. IsInjective(s)
      BY <1>2, <1>3 DEF OneEach, IsInjective, n
    <2>8. ToSet(s) = LoadersOf(pluginData)
      BY <1>3, <1>4 DEF ToSet, n
    <2> QED BY <2>4, <2>6, <2>7, <2>8
  <1>7. SystemLoaders \in Seq(Addresses) /\ IsInjective(SystemLoaders)
    BY FoundLoaders
  <1> HIDE DEF n, s
  <1>8. Len(s) = Cardinality(ToSet(s)) /\ Len(SystemLoaders) = Cardinality(ToSet(SystemLoaders))
    BY <1>6, <1>7, LengthCounts
  <1>9. ToSet(s) = ToSet(SystemLoaders)
    BY <1>5, <1>6
  <1> QED BY <1>4, <1>5, <1>6, <1>8, <1>9 DEF n

LEMMA ChosenByPredicate ==
    ASSUME Consistent
    PROVE  SelectedByPredicate
  <1> SUFFICES ASSUME NEW i \in DOMAIN pluginData
               PROVE  pluginData[i].selected <=>
                          \/ ~loadStarted \/ selecting
                          \/ pluginData[i].file \in Broken \cup loadPredicate
    BY DEF SelectedByPredicate
  <1>1. pluginData[i] \in ToSet(pluginData)
    BY DEF ToSet
  <1>2. CASE ~loadStarted \/ selecting
    BY <1>1, <1>2 DEF Consistent, Choosing, AllSelected
  <1>3. CASE loadStarted /\ ~selecting
    BY <1>1, <1>3 DEF Consistent, Choosing
  <1> QED BY <1>2, <1>3

LEMMA SettingsReadBack ==
    ASSUME Consistent
    PROVE  SettingsRoundTrip
  <1> SUFFICES ASSUME NEW scope \in Scopes
               PROVE  FromJson(ToJson(settings[scope])) = [ok |-> TRUE, overrides |-> settings[scope]]
    BY DEF SettingsRoundTrip
  <1>1. IsOverrides(settings[scope])
    BY DEF Consistent, SettingsSaid
  <1> QED BY <1>1, RoundTrip

\* Before, while and after the plugins are selected, every spec is enabled as the
\* settings documents in force say: the local one before the global one before the
\* metadata, in whatever order scans, documents and edits came.
THEOREM EnabledAsDocumented == DiscoverySpec => []EnabledByDocuments
  <1>1. DiscoveryInit => Tracking /\ Consistent
    BY DiscoveryInitTracking, DiscoveryInitConsistent
  <1>2. (Tracking /\ Consistent) /\ [DiscoveryNext]_discoveryVars => (Tracking /\ Consistent)'
    BY DiscoveryStep
  <1>3. Tracking /\ Consistent => EnabledByDocuments
    BY DecidedByDocuments
  <1> QED BY <1>1, <1>2, <1>3, PTL DEF DiscoverySpec

\* Whatever settings the host has got to, toJson() and fromJson() bring them back.
THEOREM SettingsSurviveJson == DiscoverySpec => []SettingsRoundTrip
  <1>1. DiscoveryInit => Tracking /\ Consistent
    BY DiscoveryInitTracking, DiscoveryInitConsistent
  <1>2. (Tracking /\ Consistent) /\ [DiscoveryNext]_discoveryVars => (Tracking /\ Consistent)'
    BY DiscoveryStep
  <1>3. Tracking /\ Consistent => SettingsRoundTrip
    BY SettingsReadBack
  <1> QED BY <1>1, <1>2, <1>3, PTL DEF DiscoverySpec

\* From the start of loading on, the specs are those of the factory's filesystem
\* loaders, one for each: no spec has lost its loader, no loader its spec.
THEOREM SpecsHaveLoaders == DiscoverySpec => []StartedWithLoaders
  <1>1. DiscoveryInit => Tracking /\ Consistent
    BY DiscoveryInitTracking, DiscoveryInitConsistent
  <1>2. (Tracking /\ Consistent) /\ [DiscoveryNext]_discoveryVars => (Tracking /\ Consistent)'
    BY DiscoveryStep
  <1>3. Tracking /\ Consistent => StartedWithLoaders
    BY LoadersOfStarted
  <1> QED BY <1>1, <1>2, <1>3, PTL DEF DiscoverySpec

\* The selection is the predicate's, of every spec that is not broken, and shows
\* only when all of it has been made.
THEOREM SelectionIsPredicate == DiscoverySpec => []SelectedByPredicate
  <1>1. DiscoveryInit => Tracking /\ Consistent
    BY DiscoveryInitTracking, DiscoveryInitConsistent
  <1>2. (Tracking /\ Consistent) /\ [DiscoveryNext]_discoveryVars => (Tracking /\ Consistent)'
    BY DiscoveryStep
  <1>3. Tracking /\ Consistent => SelectedByPredicate
    BY ChosenByPredicate
  <1> QED BY <1>1, <1>2, <1>3, PTL DEF DiscoverySpec

=============================================================================
