------------------------ MODULE MCDependencyResolution ------------------------
(* Instances of DependencyResolution for TLC: ids are numbers, 0 is the     *)
(* empty id, and the discoveries are enumerated by the definitions below.   *)
EXTENDS DependencyResolution, SequencesExt

MCIds == 1 .. N

\* All plugins valid and wanted, plugin p with id p: the shape of the graph is
\* everything.  A spec lists other plugins at most once, in any order.
GraphDependency(p) ==
    [id : MCIds \ {p}, version : {1}, type : Types]

GraphDependencies(p) ==
    {s \in SeqOf(GraphDependency(p), N - 1) :
        \A i, j \in DOMAIN s : s[i].id = s[j].id => i = j}

GraphSpec(p) ==
    {[id |-> p, valid |-> TRUE, enabled |-> TRUE, selected |-> TRUE,
      version |-> 1, compatVersion |-> 1, dependencies |-> s] :
        s \in GraphDependencies(p)}

GraphDiscoveries ==
    {d \in [Plugins -> UNION {GraphSpec(p) : p \in Plugins}] :
        \A p \in Plugins : d[p].id = p}

\* The rules: ids that clash or are empty, metadata that was not read, settings,
\* the predicate and versions on either side of the accepted one, with at most
\* one dependency each, self dependencies and ids nobody has included.  Ids are
\* interchangeable, so plugin p needs none above p for its own.
RuleDependencies ==
    SeqOf([id : MCIds, version : {1, 2, 3}, type : Types], 1)

UnreadSpec ==
    [id : MCIds \cup {NoId}, valid : {FALSE}, enabled : {TRUE},
     selected : {TRUE}, version : {0}, compatVersion : {0}, dependencies : {<<>>}]

WantedSpec ==
    [id : MCIds, valid : {TRUE}, enabled : {TRUE}, selected : {TRUE},
     version : {2}, compatVersion : {2}, dependencies : RuleDependencies]

UnwantedSpec ==
    {s \in [id : MCIds, valid : {TRUE}, enabled : BOOLEAN, selected : BOOLEAN,
            version : {2}, compatVersion : {2}, dependencies : {<<>>}] :
        s.enabled # s.selected}

RuleDiscoveries ==
    {d \in [Plugins -> UnreadSpec \cup WantedSpec \cup UnwantedSpec] :
        \A p \in Plugins : d[p].id <= p}

MCDiscoveries == GraphDiscoveries \cup RuleDiscoveries

=============================================================================
