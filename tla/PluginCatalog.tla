---------------------------- MODULE PluginCatalog ----------------------------
(***************************************************************************)
(* PluginCatalog, which owns a PluginFactory and indexes the loaders of    *)
(* one IID by the keys in their metadata.  The program may also use the    *)
(* owned factory directly; the factory marks the catalog's observer dirty  *)
(* when the loaders change.  The queries of the catalog share plugins_mtx  *)
(* with the factory: they read the index under the shared lock if neither  *)
(* a scan nor a rebuild is due, and otherwise come back for the exclusive  *)
(* lock, look again, and answer under it.                                  *)
(***************************************************************************)
EXTENDS PluginFactory

CONSTANTS
    CatalogIid,    \* the IID indexed
    Keys,
    EmptyKey,
    FileKeys,      \* file -> the strings its metadata advertises, in order
    OtherKeys      \* those of a static or a runtime plugin

ASSUME KeyAssumption ==
    /\ CatalogIid \in Iids
    /\ FileKeys \in [Files -> Seq(Keys)] /\ OtherKeys \in Seq(Keys)
    /\ EmptyKey \in Keys

VARIABLES
    index,     \* the loaders, keys and loadersByKey of the catalog
    reading,   \* the threads whose query awaits the exclusive lock
    answer     \* auxiliary: <<the last answer>>, until the factory is used

catalogVars == <<factoryVars, index, reading, answer>>

EmptyIndex == [loaders |-> <<>>, keys |-> <<>>, byKey |-> [k \in {} |-> <<>>]]

\* keysFromMetadata().
KeysOf(l) == IF l.origin = "FileSystem" THEN FileKeys[l.file] ELSE OtherKeys

AddToKey(places, a) == IF a \in ToSet(places) THEN places ELSE Append(places, a)

\* One turn of the loop over a loader's keys.
EnterKey(built, a, k) ==
    IF k = EmptyKey THEN built
    ELSE IF k \in DOMAIN built.byKey
    THEN [built EXCEPT !.byKey[k] = AddToKey(@, a)]
    ELSE [built EXCEPT !.byKey = [x \in DOMAIN @ \cup {k} |-> IF x = k THEN <<a>> ELSE @[x]],
                       !.keys = Append(@, k)]

\* One turn of the loop over the loaders.
EnterLoader(built, a, keys) ==
    LET entered[n \in 0 .. Len(keys)] ==
            IF n = 0 THEN [built EXCEPT !.loaders = Append(@, a)]
            ELSE EnterKey(entered[n - 1], a, keys[n])
    IN  entered[Len(keys)]

\* rebuildIndex(), of the loaders "list" in the heap "heap".
Rebuild(list, heap) ==
    LET built[n \in 0 .. Len(list)] ==
            IF n = 0 THEN EmptyIndex
            ELSE IF heap[list[n]].iid # CatalogIid THEN built[n - 1]
            ELSE EnterLoader(built[n - 1], list[n], KeysOf(heap[list[n]]))
    IN  built[Len(list)]

IndexCurrent == ~NeedsScan(CatalogIid) /\ ~dirty[CatalogIid]

-----------------------------------------------------------------------------
CatalogInit ==
    /\ FactoryInit
    /\ index = EmptyIndex
    /\ reading = {}
    /\ answer = <<>>

\* A query that the index can answer under the shared lock.
ReadShared(t) ==
    /\ t \notin reading
    /\ IndexCurrent
    /\ answer' = <<index>>
    /\ UNCHANGED <<factoryVars, index, reading>>

\* A query that has to give up the shared lock.
ReadWaits(t) ==
    /\ t \notin reading
    /\ ~IndexCurrent
    /\ reading' = reading \cup {t}
    /\ UNCHANGED <<factoryVars, index, answer>>

\* Mutant: what a scan of this very query found is left to the next one.
RebuildDue_Before == dirty[CatalogIid]

\* The observer's flag after the scan.
RebuildDue == Notified(CatalogIid, loaders' # loaders)[CatalogIid]

\* updateIndex(), the scan if it is still due and then the rebuild, and the
\* answer.
ReadExclusive(t) ==
    /\ t \in reading
    /\ ScanIfNeeded(CatalogIid)
    /\ index' = IF RebuildDue THEN Rebuild(loaders'[CatalogIid], loader') ELSE index
    /\ dirty' = [dirty EXCEPT ![CatalogIid] = FALSE]
    /\ answer' = <<index'>>
    /\ reading' = reading \ {t}
    /\ UNCHANGED query

AnswerQuery(t) == ReadShared(t) \/ ReadWaits(t) \/ ReadExclusive(t)

\* The program uses the owned factory, and the plugins it was given.
UseFactory == FactoryNext /\ answer' = <<>> /\ UNCHANGED <<index, reading>>

CatalogNext == UseFactory \/ \E t \in Threads : AnswerQuery(t)

CatalogSpec == CatalogInit /\ [][CatalogNext]_catalogVars

-----------------------------------------------------------------------------
(* Properties.                                                             *)

\* The positions of the usable loaders in a factory's list, and where they
\* advertise keys: <<position of the loader, position of the key>>.
Usable(list, heap) == {n \in DOMAIN list : heap[list[n]].iid # NoIid}

Adverts(list, heap) ==
    UNION {{<<n, i>> : i \in DOMAIN KeysOf(heap[list[n]])} : n \in Usable(list, heap)}

KeyAt(list, heap, p) == KeysOf(heap[list[p[1]]])[p[2]]

Earlier(p, q) == p[1] < q[1] \/ (p[1] = q[1] /\ p[2] < q[2])

\* The sequence has the loaders at these positions, in the order of the list.
InOrder(s, list, positions) ==
    /\ ToSet(s) = {list[n] : n \in positions}
    /\ \A i, j \in DOMAIN s : i < j =>
           \E m, n \in positions : m < n /\ s[i] = list[m] /\ s[j] = list[n]

\* What an index is, apart from the loops: the usable loaders in factory order,
\* under a key those that advertise it, and the keys in the order in which they
\* are first advertised, none of them empty.
Describes(x, list, heap) ==
    LET adverts == Adverts(list, heap)
        At(k) == {p \in adverts : KeyAt(list, heap, p) = k}
        advertised == {KeyAt(list, heap, p) : p \in adverts} \ {EmptyKey}
    IN  /\ InOrder(x.loaders, list, Usable(list, heap))
        /\ ToSet(x.keys) = advertised
        /\ \A i, j \in DOMAIN x.keys : i < j =>
               \E p \in At(x.keys[i]) : \A q \in At(x.keys[j]) : Earlier(p, q)
        /\ DOMAIN x.byKey = advertised
        /\ \A k \in advertised : InOrder(x.byKey[k], list, {p[1] : p \in At(k)})

\* Whatever threads query and configure at the same time, an answer is that of
\* the loaders at the moment it was given.
AnswersExact ==
    \A i \in DOMAIN answer : Describes(answer[i], loaders[CatalogIid], loader)

=====
