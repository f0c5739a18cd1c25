------------------------ MODULE DependencyResolution ------------------------
(***************************************************************************)
(* PluginSystem::Impl::resolveDependencies(), which loadPlugins() runs     *)
(* once: it gives every id its first holder, turns the Read specs into     *)
(* Resolved or Invalid ones, reports cycles, propagates the invalidity of  *)
(* required dependencies and computes loadOrder.                           *)
(*                                                                         *)
(* Plugins are numbered in the order of pluginData (a linked_map), which   *)
(* is the order plugins() returns.  The recursion of findCycles and append *)
(* is an explicit stack of frames; a frame is the plugin being visited and *)
(* the index of its next dependency.                                       *)
(***************************************************************************)
EXTENDS Integers, SequencesExt

CONSTANTS
    N,            \* number of discovered specs
    Ids,          \* plugin ids
    NoId,         \* the empty id of a spec whose metadata could not be read
    NoPlugin,     \* the null candidate
    Discoveries   \* the sets of specs discovery may hand to the resolver

Plugins == 1 .. N

Types == {"required", "optional"}

\* What resolveDependencies() reads of a PluginSpecData.  "valid" says that
\* read() succeeded; "selected" is the outcome of selectPlugins().
PluginSpec ==
    [id : Ids \cup {NoId}, valid : BOOLEAN, enabled : BOOLEAN,
     selected : BOOLEAN, version : Nat, compatVersion : Nat,
     dependencies : Seq([id : Ids, version : Nat, type : Types])]

ASSUME CountAssumption == N \in Nat
ASSUME NullAssumption == NoPlugin \notin Plugins
\* PluginSpecData::read() succeeds only with an id and with a compatVersion
\* that is not newer than the version.
ASSUME DiscoveryAssumption ==
    \A d \in Discoveries :
        /\ d \in [Plugins -> PluginSpec]
        /\ \A p \in Plugins :
               d[p].valid => d[p].id # NoId /\ d[p].compatVersion <= d[p].version

States == {"Invalid", "Read", "Resolved"}

Reasons == {"none", "metadata", "duplicate", "missing", "disabled",
            "unselected", "incompatible", "cycle", "requiredInvalid"}

Phases == {"index", "resolve", "cycles", "propagate", "order", "done"}

Frame == [data : Plugins, next : Nat \ {0}]

VARIABLES
    spec,       \* the discovered specs, fixed before the call
    dataById,   \* id -> the first spec that has it
    state,      \* PluginSpecData::state
    reason,     \* which message PluginSpecData::errorMessage holds
    resolved,   \* resolvedDependencies: the indices of the accepted dependencies
    phase,      \* the loop of the function that runs
    cursor,     \* the position of that loop in pluginData
    visit,      \* visitStates
    stack,      \* the active calls of findCycles, then of append
    onCycle,    \* the keys of cycleErrors
    changed,    \* the flag of the propagation loop
    order,      \* the order append builds; "added" is its range
    loadOrder,  \* the order committed to the Impl
    finished    \* auxiliary: the plugins in the order findCycles left them

vars == <<spec, dataById, state, reason, resolved, phase, cursor, visit,
          stack, onCycle, changed, order, loadOrder, finished>>

Top == stack[Len(stack)]

Pop == SubSeq(stack, 1, Len(stack) - 1)

\* The frame below a call that is made has already moved past the edge.
AdvanceTop == [stack EXCEPT ![Len(stack)].next = @ + 1]

-----------------------------------------------------------------------------
(* The dependencies of a spec.                                             *)

Dependencies(p) == spec[p].dependencies

DependencyIndices(p) == DOMAIN spec[p].dependencies

Required(p, k) == Dependencies(p)[k].type = "required"

\* The spec that dataById gives for the id of a dependency.
Target(p, k) == dataById[Dependencies(p)[k].id]

Compatible(p, k) ==
    /\ spec[Target(p, k)].compatVersion <= Dependencies(p)[k].version
    /\ Dependencies(p)[k].version <= spec[Target(p, k)].version

\* The conditions of the dependency loop, in their order.
Verdict(p, k) ==
    IF Target(p, k) = NoPlugin THEN "missing"
    ELSE IF state[Target(p, k)] = "Invalid" THEN "missing"
    ELSE IF ~spec[Target(p, k)].enabled THEN "disabled"
    ELSE IF ~spec[Target(p, k)].selected THEN "unselected"
    ELSE IF ~Compatible(p, k) THEN "incompatible"
    ELSE "none"

\* Mutant: an optional dependency that fails stops the loop, too.
Failures_AnyType(p) == {k \in DependencyIndices(p) : Verdict(p, k) # "none"}

\* The required dependencies that stop the loop with an error.
Failures(p) ==
    {k \in DependencyIndices(p) : Required(p, k) /\ Verdict(p, k) # "none"}

Accepted(p) == {k \in DependencyIndices(p) : Verdict(p, k) = "none"}

Participates(p) == spec[p].enabled /\ spec[p].selected

\* The edges the three later loops follow.
ResolvedTargets(p) == {Target(p, k) : k \in resolved[p]}

RequiredResolved(p) == {k \in resolved[p] : Required(p, k)}

-----------------------------------------------------------------------------
Init ==
    /\ spec \in Discoveries
    /\ dataById = [id \in Ids |-> NoPlugin]
    /\ state = [p \in Plugins |-> IF spec[p].valid THEN "Read" ELSE "Invalid"]
    /\ reason = [p \in Plugins |-> IF spec[p].valid THEN "none" ELSE "metadata"]
    /\ resolved = [p \in Plugins |-> {}]
    /\ phase = "index"
    /\ cursor = 1
    /\ visit = [p \in Plugins |-> "NotVisited"]
    /\ stack = <<>>
    /\ onCycle = {}
    /\ changed = FALSE
    /\ order = <<>>
    /\ loadOrder = <<>>
    /\ finished = <<>>

\* Mutant: the next loop starts before the first spec.
NextPhase_BeforeFirst(from, to) ==
    /\ phase = from
    /\ cursor = N + 1
    /\ phase' = to
    /\ cursor' = 0

\* The end of a loop over pluginData: the next one starts at the first spec.
NextPhase(from, to) ==
    /\ phase = from
    /\ cursor = N + 1
    /\ phase' = to
    /\ cursor' = 1

InLoop(ph) ==
    /\ phase = ph
    /\ cursor \in Plugins
    /\ cursor' = cursor + 1
    /\ UNCHANGED <<spec, phase, loadOrder>>

ReportError(p, why) ==
    /\ state' = [state EXCEPT ![p] = "Invalid"]
    /\ reason' = [reason EXCEPT ![p] = why]

-----------------------------------------------------------------------------
(* The id index.                                                           *)

IndexSkip(p) ==
    /\ spec[p].id = NoId
    /\ UNCHANGED <<dataById, state, reason>>

IndexFirst(p) ==
    /\ spec[p].id # NoId
    /\ dataById[spec[p].id] = NoPlugin
    /\ dataById' = [dataById EXCEPT ![spec[p].id] = p]
    /\ UNCHANGED <<state, reason>>

IndexDuplicate(p) ==
    /\ spec[p].id # NoId
    /\ dataById[spec[p].id] # NoPlugin
    /\ ReportError(p, "duplicate")
    /\ UNCHANGED dataById

IndexId ==
    /\ InLoop("index")
    /\ IndexSkip(cursor) \/ IndexFirst(cursor) \/ IndexDuplicate(cursor)
    /\ UNCHANGED <<resolved, visit, stack, onCycle, changed, order, finished>>

IndexDone ==
    /\ NextPhase("index", "resolve")
    /\ UNCHANGED <<spec, dataById, state, reason, resolved, visit, stack,
                   onCycle, changed, order, loadOrder, finished>>

-----------------------------------------------------------------------------
(* The dependency loop.  A failing required dependency breaks it, so only  *)
(* the accepted dependencies before it are kept.                           *)

ResolveSkip(p) ==
    /\ ~(state[p] = "Read" /\ Participates(p))
    /\ UNCHANGED <<state, reason, resolved>>

ResolveSucceeds(p) ==
    /\ state[p] = "Read"
    /\ Participates(p)
    /\ Failures(p) = {}
    /\ state' = [state EXCEPT ![p] = "Resolved"]
    /\ resolved' = [resolved EXCEPT ![p] = Accepted(p)]
    /\ UNCHANGED reason

ResolveFails(p) ==
    /\ state[p] = "Read"
    /\ Participates(p)
    /\ \E k \in Failures(p) :
        /\ \A j \in Failures(p) : k <= j
        /\ ReportError(p, Verdict(p, k))
        /\ resolved' = [resolved EXCEPT ![p] = {j \in Accepted(p) : j < k}]

ResolvePlugin ==
    /\ InLoop("resolve")
    /\ \/ ResolveSkip(cursor)
       \/ ResolveSucceeds(cursor)
       \/ ResolveFails(cursor)
    /\ UNCHANGED <<dataById, visit, stack, onCycle, changed, order, finished>>

ResolveDone ==
    /\ NextPhase("resolve", "cycles")
    /\ UNCHANGED <<spec, dataById, state, reason, resolved, visit, stack,
                   onCycle, changed, order, loadOrder, finished>>

-----------------------------------------------------------------------------
(* findCycles.                                                             *)

IsCycleRoot(p) == state[p] = "Resolved" /\ visit[p] = "NotVisited"

CycleRoot ==
    /\ stack = <<>>
    /\ InLoop("cycles")
    /\ IF IsCycleRoot(cursor)
       THEN /\ stack' = <<[data |-> cursor, next |-> 1]>>
            /\ visit' = [visit EXCEPT ![cursor] = "Visiting"]
       ELSE UNCHANGED <<stack, visit>>
    /\ UNCHANGED <<dataById, state, reason, resolved, onCycle, changed, order,
                   finished>>

\* Mutant: the walk ignores optional dependencies.
CycleEdge_RequiredOnly(p, k) ==
    /\ k \in resolved[p]
    /\ Required(p, k)
    /\ state[Target(p, k)] = "Resolved"

\* The edges the walk follows: accepted ones to a spec that is still Resolved.
CycleEdge(p, k) == k \in resolved[p] /\ state[Target(p, k)] = "Resolved"

\* Mutant: the whole stack is blamed for the cycle.
SegmentFrom_WholeStack(q) == {stack[j].data : j \in DOMAIN stack}

\* The part of the stack from the first frame of q to the top.
SegmentFrom(q) ==
    {stack[j].data : j \in {m \in DOMAIN stack :
                               \E i \in 1 .. m : stack[i].data = q}}

CycleSkip(p, k) ==
    /\ CycleEdge(p, k) => visit[Target(p, k)] = "Visited"
    /\ stack' = AdvanceTop
    /\ UNCHANGED <<visit, onCycle>>

\* Mutant: a plugin is marked Visited when it is entered.
CycleDescend_Visited(p, k) ==
    /\ CycleEdge(p, k)
    /\ visit[Target(p, k)] = "NotVisited"
    /\ stack' = Append(AdvanceTop, [data |-> Target(p, k), next |-> 1])
    /\ visit' = [visit EXCEPT ![Target(p, k)] = "Visited"]
    /\ UNCHANGED onCycle

CycleDescend(p, k) ==
    /\ CycleEdge(p, k)
    /\ visit[Target(p, k)] = "NotVisited"
    /\ stack' = Append(AdvanceTop, [data |-> Target(p, k), next |-> 1])
    /\ visit' = [visit EXCEPT ![Target(p, k)] = "Visiting"]
    /\ UNCHANGED onCycle

CycleFound(p, k) ==
    /\ CycleEdge(p, k)
    /\ visit[Target(p, k)] = "Visiting"
    /\ onCycle' = onCycle \cup SegmentFrom(Target(p, k))
    /\ stack' = AdvanceTop
    /\ UNCHANGED visit

CycleStep ==
    /\ phase = "cycles"
    /\ stack # <<>>
    /\ Top.next \in DependencyIndices(Top.data)
    /\ \/ CycleSkip(Top.data, Top.next)
       \/ CycleDescend(Top.data, Top.next)
       \/ CycleFound(Top.data, Top.next)
    /\ UNCHANGED <<spec, dataById, state, reason, resolved, phase, cursor,
                   changed, order, loadOrder, finished>>

CycleLeave ==
    /\ phase = "cycles"
    /\ stack # <<>>
    /\ Top.next \notin DependencyIndices(Top.data)
    /\ visit' = [visit EXCEPT ![Top.data] = "Visited"]
    /\ finished' = Append(finished, Top.data)
    /\ stack' = Pop
    /\ UNCHANGED <<spec, dataById, state, reason, resolved, phase, cursor,
                   onCycle, changed, order, loadOrder>>

\* Every plugin of cycleErrors is reported before propagation starts.
ReportCycles ==
    /\ stack = <<>>
    /\ NextPhase("cycles", "propagate")
    /\ state' = [p \in Plugins |-> IF p \in onCycle THEN "Invalid" ELSE state[p]]
    /\ reason' = [p \in Plugins |-> IF p \in onCycle THEN "cycle" ELSE reason[p]]
    /\ changed' = FALSE
    /\ UNCHANGED <<spec, dataById, resolved, visit, stack, onCycle, order,
                   loadOrder, finished>>

-----------------------------------------------------------------------------
(* The propagation loop.                                                   *)

\* A required dependency of p is no longer Resolved.
LostRequired(p) ==
    \E k \in RequiredResolved(p) : state[Target(p, k)] # "Resolved"

Propagate ==
    /\ InLoop("propagate")
    /\ IF state[cursor] = "Resolved" /\ LostRequired(cursor)
       THEN ReportError(cursor, "requiredInvalid") /\ changed' = TRUE
       ELSE UNCHANGED <<state, reason, changed>>
    /\ UNCHANGED <<dataById, resolved, visit, stack, onCycle, order, finished>>

\* Mutant: the flag is not cleared at the start of a pass.
PropagateAgain_NoReset ==
    /\ changed
    /\ NextPhase("propagate", "propagate")
    /\ UNCHANGED <<spec, dataById, state, reason, resolved, visit, stack,
                   onCycle, changed, order, loadOrder, finished>>

PropagateAgain ==
    /\ changed
    /\ NextPhase("propagate", "propagate")
    /\ changed' = FALSE
    /\ UNCHANGED <<spec, dataById, state, reason, resolved, visit, stack,
                   onCycle, order, loadOrder, finished>>

\* Mutant: one pass, whether or not it changed anything.
PropagateDone_OnePass ==
    /\ NextPhase("propagate", "order")
    /\ UNCHANGED <<spec, dataById, state, reason, resolved, visit, stack,
                   onCycle, changed, order, loadOrder, finished>>

PropagateDone ==
    /\ ~changed
    /\ NextPhase("propagate", "order")
    /\ UNCHANGED <<spec, dataById, state, reason, resolved, visit, stack,
                   onCycle, changed, order, loadOrder, finished>>

-----------------------------------------------------------------------------
(* append and the commit of the order.                                     *)

\* Mutant: a plugin added before is not skipped.
Appendable_Again(p) == Participates(p) /\ state[p] = "Resolved"

\* append(data) goes past its early return.
Appendable(p) ==
    p \notin ToSet(order) /\ Participates(p) /\ state[p] = "Resolved"

\* The call for a dependency that does not return at once.
AppendEdge(p, k) == k \in resolved[p] /\ Appendable(Target(p, k))

AppendRoot ==
    /\ stack = <<>>
    /\ InLoop("order")
    /\ stack' = IF Appendable(cursor) THEN <<[data |-> cursor, next |-> 1]>>
                                      ELSE <<>>
    /\ UNCHANGED <<dataById, state, reason, resolved, visit, onCycle, changed,
                   order, finished>>

AppendStep ==
    /\ phase = "order"
    /\ stack # <<>>
    /\ Top.next \in DependencyIndices(Top.data)
    /\ stack' = IF AppendEdge(Top.data, Top.next)
                THEN Append(AdvanceTop,
                            [data |-> Target(Top.data, Top.next), next |-> 1])
                ELSE AdvanceTop
    /\ UNCHANGED <<spec, dataById, state, reason, resolved, phase, cursor,
                   visit, onCycle, changed, order, loadOrder, finished>>

AppendLeave ==
    /\ phase = "order"
    /\ stack # <<>>
    /\ Top.next \notin DependencyIndices(Top.data)
    /\ order' = Append(order, Top.data)
    /\ stack' = Pop
    /\ UNCHANGED <<spec, dataById, state, reason, resolved, phase, cursor,
                   visit, onCycle, changed, loadOrder, finished>>

Commit ==
    /\ stack = <<>>
    /\ NextPhase("order", "done")
    /\ loadOrder' = order
    /\ UNCHANGED <<spec, dataById, state, reason, resolved, visit, stack,
                   onCycle, changed, order, finished>>

Terminated == phase = "done" /\ UNCHANGED vars

-----------------------------------------------------------------------------
Next ==
    \/ IndexId \/ IndexDone
    \/ ResolvePlugin \/ ResolveDone
    \/ CycleRoot \/ CycleStep \/ CycleLeave \/ ReportCycles
    \/ Propagate \/ PropagateAgain \/ PropagateDone
    \/ AppendRoot \/ AppendStep \/ AppendLeave \/ Commit
    \/ Terminated

Spec == Init /\ [][Next]_vars

\* The function runs to its end on the thread that called it.
FairSpec == Spec /\ WF_vars(Next)

-----------------------------------------------------------------------------
(* Properties.                                                             *)

\* The variables keep their types; a frame's index is at most one past the
\* dependencies of its plugin.
TypeOK ==
    /\ spec \in Discoveries
    /\ dataById \in [Ids -> Plugins \cup {NoPlugin}]
    /\ state \in [Plugins -> States]
    /\ reason \in [Plugins -> Reasons]
    /\ resolved \in [Plugins -> SUBSET (Nat \ {0})]
    /\ \A p \in Plugins : resolved[p] \subseteq DependencyIndices(p)
    /\ phase \in Phases
    /\ cursor \in 1 .. N + 1
    /\ visit \in [Plugins -> {"NotVisited", "Visiting", "Visited"}]
    /\ stack \in Seq(Frame)
    /\ onCycle \subseteq Plugins
    /\ changed \in BOOLEAN
    /\ order \in Seq(Plugins)
    /\ loadOrder \in Seq(Plugins)
    /\ finished \in Seq(Plugins)

\* q answers the declared dependency d.
Satisfies(q, d) ==
    /\ spec[q].id = d.id
    /\ spec[q].compatVersion <= d.version
    /\ d.version <= spec[q].version

\* "Dependencies are loaded and initialized before their dependents"
\* (pluginsystem.h): every plugin of the load order is enabled, selected and
\* without error, and each required dependency it declares is answered by a
\* plugin that stands before it.
RequiredBefore ==
    \A i \in DOMAIN loadOrder :
        LET p == loadOrder[i] IN
        /\ Participates(p)
        /\ state[p] = "Resolved"
        /\ \A k \in DependencyIndices(p) :
              Required(p, k) =>
                  \E j \in 1 .. i - 1 : Satisfies(loadOrder[j], Dependencies(p)[k])

\* When the function returns, the load order lists exactly the plugins that
\* are enabled, selected and carry no error, each once: none is dropped
\* without a diagnostic and none is appended twice.
ListedOnce ==
    /\ \A i, j \in DOMAIN order : order[i] = order[j] => i = j
    /\ phase = "done" =>
           ToSet(loadOrder) =
               {p \in Plugins : Participates(p) /\ reason[p] = "none"}

\* The plugins reached from p by one or more edges of succ.
ReachedFrom(succ, p) ==
    {q \in Plugins :
        \A S \in SUBSET Plugins :
            (succ[p] \subseteq S /\ \A r \in S : succ[r] \subseteq S) => q \in S}

\* Each message names a fact about the discovered specs, at the end as well as
\* when it was reported: a plugin blamed for a cycle lies on one, and a plugin
\* blamed for its dependency declares a required one that is really so.
Blamed(p, why) ==
    LET holder(d) == {q \in Plugins : /\ spec[q].id = d.id
                                      /\ \A r \in 1 .. q - 1 : spec[r].id # d.id}
        required == {Dependencies(p)[k] : k \in {i \in DependencyIndices(p) : Required(p, i)}}
    IN CASE why = "none" -> spec[p].valid
         [] why = "metadata" -> ~spec[p].valid
         [] why = "duplicate" -> \E q \in 1 .. p - 1 : spec[q].id = spec[p].id
         [] why = "missing" -> \E d \in required :
                                   \A q \in holder(d) : reason[q] # "none"
         [] why = "disabled" -> \E d \in required : \E q \in holder(d) :
                                   ~spec[q].enabled
         [] why = "unselected" -> \E d \in required : \E q \in holder(d) :
                                   spec[q].enabled /\ ~spec[q].selected
         [] why = "incompatible" -> \E d \in required : \E q \in holder(d) :
                                   Participates(q) /\ ~Satisfies(q, d)
         [] why = "requiredInvalid" -> \E d \in required : \E q \in holder(d) :
                                   reason[q] # "none"
         [] why = "cycle" ->
              p \in ReachedFrom([q \in Plugins |-> ResolvedTargets(q)], p)

ReasonsHold == phase = "done" => \A p \in Plugins : Blamed(p, reason[p])

\* Reporting the plugins of cycleErrors breaks every cycle: from then on no
\* Resolved plugin reaches itself through Resolved plugins, so that append,
\* which marks a plugin only after its recursion, ends.
CyclesBroken ==
    phase \in {"propagate", "order", "done"} =>
        LET live == {p \in Plugins : state[p] = "Resolved"}
            succ == [p \in Plugins |-> IF p \in live THEN ResolvedTargets(p) \cap live
                                                     ELSE {}]
        IN \A p \in live : p \notin ReachedFrom(succ, p)

\* No plugin is twice on the stack of findCycles or of append: the recursion
\* is bounded by the number of plugins.
NoReentry ==
    \A i, j \in DOMAIN stack : stack[i].data = stack[j].data => i = j

Promise ==
    INSTANCE ResolutionPromise
        WITH blamed <- IF phase = "done" THEN onCycle ELSE {}, done <- phase = "done"

\* All the loops together keep the promise of loadOrder(): whatever the graph
\* and the order of discovery, they list the greatest set of plugins outside the
\* blamed ones that is closed under required dependencies, providers first,
\* and blame nobody for a cycle without one.
KeepsPromise == Promise!Spec

\* The function returns, cycles or not: neither the recursion nor the do-while
\* loop of the propagation runs for ever.
Returns == <>(phase = "done")

=============================================================================
