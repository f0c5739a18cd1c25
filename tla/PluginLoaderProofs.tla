------------------------- MODULE PluginLoaderProofs -------------------------
(* Proofs about PluginLoader, for any number of loaders.                    *)
EXTENDS PluginLoader, TLAPS

\* Exact alone is not inductive: that a plugin becomes live only with an IID,
\* and a library is opened only for a file, needs to know what a selection that
\* load() can act on has read.
Selected(i) ==
    /\ i.path \/ i.provider => i.iid \/ i.state = "Invalid"
    /\ i.path => i.origin = "FileSystem"

Consistent(i) == i \in Impl /\ Exact(i) /\ Selected(i)

\* The inductive invariant.
Inv == TypeOK /\ \A l \in Loaders : Consistent(impl[l])

Calls == {"none", "select", "load", "unload"}

\* A step that replaces one loader's members by consistent ones.
LEMMA SetPreserves ==
    ASSUME Inv, NEW l \in Loaders, NEW i, Consistent(i), Set(l, i),
           NEW call \in Calls, NEW ok \in BOOLEAN, Returns(l, call, ok)
    PROVE  Inv'
<1>1. TypeOK'
      BY DEF Inv, TypeOK, Consistent, Set, Returns, Calls
<1>2. \A k \in Loaders : impl'[k] = IF k = l THEN i ELSE impl[k]
      BY DEF Inv, TypeOK, Set
<1>3. \A k \in Loaders : Consistent(impl'[k])
      BY <1>2 DEF Inv
<1> QED BY <1>1, <1>3 DEF Inv

\* A step that answers a call and leaves the loaders alone.
LEMMA ReturnPreserves ==
    ASSUME Inv, NEW l \in Loaders, UNCHANGED impl,
           NEW call \in Calls, NEW ok \in BOOLEAN, Returns(l, call, ok)
    PROVE  Inv'
BY DEF Inv, TypeOK, Returns, Calls

USE DEF Impl, States, Origins, Calls

-----------------------------------------------------------------------------
(* Members that are consistent.                                            *)

\* A selection, or a load, that failed.
LEMMA FailedConsistent ==
    ASSUME NEW i \in Impl, i.state \in {"Invalid", "LoadFailed"}, i.hasError,
           ~i.plugin, ~i.library, Selected(i)
    PROVE  Consistent(i)
BY DEF Consistent, Exact

\* A plugin that waits for load().
LEMMA ReadConsistent ==
    ASSUME NEW i \in Impl, i.state = "Read", i.iid, ~i.hasError, ~i.plugin, ~i.library,
           i.path => i.origin = "FileSystem"
    PROVE  Consistent(i)
BY DEF Consistent, Exact, Selected

\* A live plugin, whose library is open if it has one.
LEMMA LiveConsistent ==
    ASSUME NEW i \in Impl, i.state = "Loaded", i.iid, i.plugin,
           i.library <=> i.origin = "FileSystem", i.path => i.origin = "FileSystem"
    PROVE  Consistent(i)
BY DEF Consistent, Exact, Selected

\* What load() works on is a selection that was read, and nothing is live yet.
LEMMA Loadable ==
    ASSUME NEW i, Consistent(i), i.state # "Loaded", ~i.hasError, i.path \/ i.provider
    PROVE  i.iid /\ ~i.plugin /\ ~i.library
BY DEF Consistent, Exact, Selected

-----------------------------------------------------------------------------
(* The calls.                                                              *)

LEMMA SelectPreserves ==
    ASSUME Inv, NEW l \in Loaders, Select(l) PROVE Inv'
<1> DEFINE r == Reset(impl[l])
<1>r. r = [state |-> "Null", hasError |-> FALSE, origin |-> "FileSystem", iid |-> FALSE,
           path |-> FALSE, provider |-> FALSE, library |-> FALSE, plugin |-> FALSE]
      BY DEF Reset
<1> HIDE DEF r
<1>1. CASE SetFilePath(l)
      <2> DEFINE s == ReportError([r EXCEPT !.path = TRUE], "Invalid")
                 t == [[r EXCEPT !.path = TRUE] EXCEPT !.iid = TRUE, !.state = "Read"]
      <2>1. Consistent(s)
            BY <1>r, FailedConsistent DEF ReportError, Selected
      <2>2. Consistent(t)
            BY <1>r, ReadConsistent
      <2>3. (Set(l, s) \/ Set(l, t)) /\ Returns(l, "select", TRUE)
            BY <1>1 DEF SetFilePath, r
      <2> HIDE DEF s, t
      <2> QED BY <2>1, <2>2, <2>3, SetPreserves
<1>2. CASE SetStaticPlugin(l)
      <2> DEFINE s == ReportError([r EXCEPT !.origin = "Static"], "Invalid")
                 t(p) == [[r EXCEPT !.origin = "Static"] EXCEPT
                             !.iid = TRUE, !.provider = p, !.state = "Read"]
      <2>1. Consistent(s)
            BY <1>r, FailedConsistent DEF ReportError, Selected
      <2>2. ASSUME NEW p \in BOOLEAN PROVE Consistent(t(p))
            BY <1>r, ReadConsistent
      <2>3. /\ Set(l, s) \/ \E p \in BOOLEAN : Set(l, t(p))
            /\ Returns(l, "select", TRUE)
            BY <1>2 DEF SetStaticPlugin, r
      <2> HIDE DEF s, t
      <2> QED BY <2>1, <2>2, <2>3, SetPreserves
<1>3. CASE SetPlugin(l)
      <2> DEFINE s == ReportError([r EXCEPT !.origin = "Runtime"], "Invalid")
                 t == [[r EXCEPT !.origin = "Runtime"] EXCEPT
                          !.iid = TRUE, !.plugin = TRUE, !.state = "Loaded"]
      <2>1. Consistent(s)
            BY <1>r, FailedConsistent DEF ReportError, Selected
      <2>2. Consistent(t)
            BY <1>r, LiveConsistent
      <2>3. (Set(l, s) \/ Set(l, t)) /\ Returns(l, "select", TRUE)
            BY <1>3 DEF SetPlugin, r
      <2> HIDE DEF s, t
      <2> QED BY <2>1, <2>2, <2>3, SetPreserves
<1> QED BY <1>1, <1>2, <1>3 DEF Select

LEMMA LoadPreserves ==
    ASSUME Inv, NEW l \in Loaders, Load(l) PROVE Inv'
<1> DEFINE i == impl[l]
<1>i. Consistent(i) /\ i \in Impl
      BY DEF Inv, Consistent
<1> HIDE DEF i
<1>1. CASE LoadAgain(l)
      <2>1. i.state = "Loaded" /\ Set(l, ClearError(i)) /\ Returns(l, "load", TRUE)
            BY <1>1 DEF LoadAgain, i
      <2>2. Consistent(ClearError(i))
            BY <2>1, <1>i, LiveConsistent DEF ClearError, Consistent, Exact, Selected
      <2> QED BY <2>1, <2>2, SetPreserves
<1>2. CASE LoadRefused(l)
      BY <1>2, ReturnPreserves DEF LoadRefused
<1>3. CASE LoadStatic(l)
      <2> DEFINE t == [i EXCEPT !.plugin = TRUE, !.state = "Loaded"]
                 u == ReportError(i, "LoadFailed")
      <2>1. /\ i.state # "Loaded" /\ ~i.hasError /\ i.origin = "Static"
            /\ \/ Set(l, u) /\ Returns(l, "load", FALSE)
               \/ i.provider /\ Set(l, t) /\ Returns(l, "load", TRUE)
            BY <1>3 DEF LoadStatic, i
      <2>2. Consistent(u)
            <3>1. ~i.plugin /\ ~i.library /\ Exact(i) /\ Selected(i)
                  BY <2>1, <1>i DEF Consistent, Exact
            <3>2. Selected(u)
                  BY <3>1, <2>1, <1>i DEF ReportError, Selected, Exact
            <3> QED BY <3>1, <3>2, <1>i, FailedConsistent DEF ReportError
      <2>3. i.provider => Consistent(t)
            BY <2>1, <1>i, Loadable, LiveConsistent DEF Consistent, Selected
      <2> HIDE DEF t, u
      <2> QED BY <2>1, <2>2, <2>3, SetPreserves
<1>4. CASE LoadLibrary(l)
      <2> DEFINE t == [i EXCEPT !.library = TRUE, !.plugin = TRUE, !.state = "Loaded"]
                 u == LibraryRejected(i)
      <2>1. /\ i.state # "Loaded" /\ ~i.hasError /\ i.origin # "Static"
            /\ \/ Set(l, u) /\ Returns(l, "load", FALSE)
               \/ i.path /\ Set(l, t) /\ Returns(l, "load", TRUE)
            BY <1>4 DEF LoadLibrary, i
      <2>2. Consistent(u)
            <3>1. ~i.plugin /\ ~i.library /\ Exact(i) /\ Selected(i)
                  BY <2>1, <1>i DEF Consistent, Exact
            <3>2. Selected(u)
                  BY <3>1, <2>1, <1>i DEF LibraryRejected, ReportError, Selected, Exact
            <3> QED BY <3>1, <3>2, <1>i, FailedConsistent DEF LibraryRejected, ReportError
      <2>3. i.path => Consistent(t)
            BY <2>1, <1>i, Loadable, LiveConsistent DEF Consistent, Selected
      <2> HIDE DEF t, u
      <2> QED BY <2>1, <2>2, <2>3, SetPreserves
<1> QED BY <1>1, <1>2, <1>3, <1>4 DEF Load

LEMMA UnloadPreserves ==
    ASSUME Inv, NEW l \in Loaders, UnloadPlugin(l) PROVE Inv'
<1> DEFINE i == impl[l]
<1>i. Consistent(i) /\ i \in Impl
      BY DEF Inv, Consistent
<1> HIDE DEF i
<1>1. CASE UnloadNothing(l)
      BY <1>1, ReturnPreserves DEF UnloadNothing
<1>2. CASE UnloadFails(l)
      <2> DEFINE t == [i EXCEPT !.hasError = TRUE]
      <2>1. i.state = "Loaded" /\ Set(l, t) /\ Returns(l, "unload", FALSE)
            BY <1>2 DEF UnloadFails, i
      <2>2. Consistent(t)
            BY <2>1, <1>i, LiveConsistent DEF Consistent, Exact, Selected
      <2> HIDE DEF t
      <2> QED BY <2>1, <2>2, SetPreserves
<1>3. CASE Unload(l)
      <2> DEFINE t == ClearError([i EXCEPT !.library = FALSE, !.plugin = FALSE,
                                           !.state = "Read"])
      <2>1. i.state = "Loaded" /\ Set(l, t) /\ Returns(l, "unload", TRUE)
            BY <1>3 DEF Unload, i
      <2>2. Consistent(t)
            BY <2>1, <1>i, ReadConsistent DEF ClearError, Consistent, Exact, Selected
      <2> HIDE DEF t
      <2> QED BY <2>1, <2>2, SetPreserves
<1> QED BY <1>1, <1>2, <1>3 DEF UnloadPlugin

-----------------------------------------------------------------------------
\* Nothing is live before a plugin is selected.
LEMMA InvInit == LoaderInit => Inv
BY DEF LoaderInit, Inv, TypeOK, Consistent, Exact, Selected, Reset

\* Every step is a call on one loader.
LEMMA InvNext == Inv /\ [LoaderNext]_loaderVars => Inv'
<1> SUFFICES ASSUME Inv, [LoaderNext]_loaderVars PROVE Inv'
    OBVIOUS
<1>1. CASE UNCHANGED loaderVars
      BY <1>1 DEF loaderVars, Inv, TypeOK
<1> QED BY <1>1, SelectPreserves, LoadPreserves, UnloadPreserves DEF LoaderNext

\* Whatever calls a program makes on whichever loaders, an instance is live and a
\* library open exactly in the states that say so, and errors are held where
\* they belong.
THEOREM InstanceAlwaysExact == LoaderSpec => []InstanceExact
<1>1. Inv => InstanceExact
      BY DEF Inv, InstanceExact, Consistent
<1> QED BY InvInit, InvNext, <1>1, PTL DEF LoaderSpec

-----------------------------------------------------------------------------
(* The answers of the calls.                                               *)

Told(i, r) ==
    /\ r.call = "load" => (r.ok <=> i.plugin)
    /\ r.call = "unload" => (r.ok <=> ~i.plugin)
    /\ ~r.ok => i.hasError

\* A call that replaces the members by ones that its answer tells of.
LEMMA SetTells ==
    ASSUME Inv, ResultsTruthful, NEW l \in Loaders, NEW i, Set(l, i),
           NEW call, NEW ok, Returns(l, call, ok), Told(i, [call |-> call, ok |-> ok])
    PROVE  ResultsTruthful'
<1>1. \A k \in Loaders : /\ impl'[k] = IF k = l THEN i ELSE impl[k]
                         /\ result'[k] = IF k = l THEN [call |-> call, ok |-> ok] ELSE result[k]
      BY DEF Inv, TypeOK, Set, Returns
<1> QED BY <1>1 DEF ResultsTruthful, Told

\* A call that only answers.
LEMMA ReturnTells ==
    ASSUME Inv, ResultsTruthful, NEW l \in Loaders, UNCHANGED impl,
           NEW call, NEW ok, Returns(l, call, ok), Told(impl[l], [call |-> call, ok |-> ok])
    PROVE  ResultsTruthful'
<1>1. \A k \in Loaders :
          result'[k] = IF k = l THEN [call |-> call, ok |-> ok] ELSE result[k]
      BY DEF Inv, TypeOK, Returns
<1> QED BY <1>1 DEF ResultsTruthful, Told

LEMMA SelectTells ==
    ASSUME Inv, ResultsTruthful, NEW l \in Loaders, Select(l)
    PROVE  ResultsTruthful'
<1>1. PICK i : Set(l, i)
      BY DEF Select, SetFilePath, SetStaticPlugin, SetPlugin
<1>2. Returns(l, "select", TRUE)
      BY DEF Select, SetFilePath, SetStaticPlugin, SetPlugin
<1>3. Told(i, [call |-> "select", ok |-> TRUE])
      BY DEF Told
<1> QED BY <1>1, <1>2, <1>3, SetTells

LEMMA LoadTells ==
    ASSUME Inv, ResultsTruthful, NEW l \in Loaders, Load(l)
    PROVE  ResultsTruthful'
<1> DEFINE i == impl[l]
<1>i. i \in Impl /\ Exact(i)
      BY DEF Inv, Consistent
<1>1. CASE LoadAgain(l)
  <2>1. Told(ClearError(i), [call |-> "load", ok |-> TRUE])
        BY <1>1, <1>i DEF LoadAgain, ClearError, Told, Exact
  <2> QED BY <1>1, <2>1, SetTells DEF LoadAgain
<1>2. CASE LoadRefused(l)
  <2>1. Told(i, [call |-> "load", ok |-> FALSE])
        BY <1>2, <1>i DEF LoadRefused, Told, Exact
  <2> QED BY <1>2, <2>1, ReturnTells DEF LoadRefused
<1>3. CASE LoadStatic(l) \/ LoadLibrary(l)
  <2>1. ~i.plugin
        BY <1>3, <1>i DEF LoadStatic, LoadLibrary, Exact
  <2>2. /\ Told(ReportError(i, "LoadFailed"), [call |-> "load", ok |-> FALSE])
        /\ Told(LibraryRejected(i), [call |-> "load", ok |-> FALSE])
        /\ Told([i EXCEPT !.plugin = TRUE, !.state = "Loaded"], [call |-> "load", ok |-> TRUE])
        /\ Told([i EXCEPT !.library = TRUE, !.plugin = TRUE, !.state = "Loaded"],
                [call |-> "load", ok |-> TRUE])
        BY <2>1, <1>i DEF ReportError, LibraryRejected, Told
  <2>3. PICK t, ok : Set(l, t) /\ Returns(l, "load", ok) /\ Told(t, [call |-> "load", ok |-> ok])
        BY <1>3, <2>2 DEF LoadStatic, LoadLibrary
  <2> QED BY <2>3, SetTells
<1> QED BY <1>1, <1>2, <1>3 DEF Load

LEMMA UnloadTells ==
    ASSUME Inv, ResultsTruthful, NEW l \in Loaders, UnloadPlugin(l)
    PROVE  ResultsTruthful'
<1> DEFINE i == impl[l]
           closed == ClearError([i EXCEPT !.library = FALSE, !.plugin = FALSE, !.state = "Read"])
<1>i. i \in Impl /\ Exact(i)
      BY DEF Inv, Consistent
<1>1. CASE UnloadNothing(l)
  <2>1. Told(i, [call |-> "unload", ok |-> TRUE])
        BY <1>1, <1>i DEF UnloadNothing, Told, Exact
  <2> QED BY <1>1, <2>1, ReturnTells DEF UnloadNothing
<1>2. CASE UnloadFails(l)
  <2>1. Told([i EXCEPT !.hasError = TRUE], [call |-> "unload", ok |-> FALSE])
        BY <1>2, <1>i DEF UnloadFails, Told, Exact
  <2> QED BY <1>2, <2>1, SetTells DEF UnloadFails
<1>3. CASE Unload(l)
  <2>1. Told(closed, [call |-> "unload", ok |-> TRUE])
        BY <1>i DEF ClearError, Told
  <2> QED BY <1>3, <2>1, SetTells DEF Unload
<1> QED BY <1>1, <1>2, <1>3 DEF UnloadPlugin

\* Whatever calls a program makes, load() and unload() say truly whether the plugin
\* is live when they return, and a call that returns false leaves an error.
THEOREM AnswersTruthful == LoaderSpec => []ResultsTruthful
<1>1. ASSUME LoaderInit PROVE ResultsTruthful
  <2> DEFINE none == [call |-> "none", ok |-> TRUE]
  <2>1. \A i : Told(i, none)
        BY DEF Told
  <2>2. \A l \in Loaders : result[l] = none
        BY <1>1 DEF LoaderInit
  <2> HIDE DEF none
  <2>3. \A l \in Loaders : Told(impl[l], result[l])
        BY <2>1, <2>2
  <2> QED BY <2>3 DEF ResultsTruthful, Told
<1>2. Inv /\ ResultsTruthful /\ [LoaderNext]_loaderVars => ResultsTruthful'
  <2>1. ASSUME Inv, ResultsTruthful, LoaderNext PROVE ResultsTruthful'
        BY <2>1, SelectTells, LoadTells, UnloadTells DEF LoaderNext
  <2>2. ASSUME ResultsTruthful, UNCHANGED loaderVars PROVE ResultsTruthful'
        BY <2>2 DEF ResultsTruthful, loaderVars
  <2> QED BY <2>1, <2>2
<1> QED BY InvInit, InvNext, <1>1, <1>2, PTL DEF LoaderSpec

=============================================================================
