-------------------------- MODULE ResolutionPromise --------------------------
(***************************************************************************)
(* What PluginSystem::loadOrder() promises of resolveDependencies(), as a  *)
(* single choice: plugins are blamed for cycles they lie on, the others    *)
(* are listed if everything they require can be, and the order puts        *)
(* providers first and else follows discovery.                             *)
(***************************************************************************)
EXTENDS Integers, SequencesExt

CONSTANTS N, Discoveries

VARIABLES spec, blamed, loadOrder, done

Plugins == 1 .. N

\* Plugins that could load alone: valid, wanted, first holder of their id.
Eligible ==
    {p \in Plugins : /\ spec[p].valid /\ spec[p].enabled /\ spec[p].selected
                     /\ \A q \in 1 .. p - 1 : spec[q].id # spec[p].id}

Satisfies(q, d) ==
    spec[q].id = d.id /\ d.version \in spec[q].compatVersion .. spec[q].version

\* The plugins among S that answer a dependency of p, of the given types.
Answering(p, S, types) ==
    {q \in S : \E d \in ToSet(spec[p].dependencies) : d.type \in types /\ Satisfies(q, d)}

AnyType == {"required", "optional"}

RequirementsMetIn(S) ==
    \A p \in S : \A d \in ToSet(spec[p].dependencies) :
        d.type = "required" => \E q \in S : Satisfies(q, d)

\* The plugins reached from p by one or more dependencies within S.
ReachedFrom(p, S) ==
    {q \in S :
        \A T \in SUBSET S :
            (\A r \in T \cup {p} : Answering(r, S, AnyType) \subseteq T) => q \in T}

Loadable(excluded) ==
    UNION {S \in SUBSET (Eligible \ excluded) : RequirementsMetIn(S)}

\* "Each plugin comes after its resolved dependencies, required or optional.
\* Otherwise the order follows plugins()": one overtakes another only for the
\* sake of a dependent that was discovered no later than that other.
Ordered(order) ==
    \A i, j \in DOMAIN order : i < j =>
        /\ order[j] \notin Answering(order[i], Plugins, AnyType) \cup {order[i]}
        /\ order[j] < order[i] =>
               \E r \in ToSet(order) :
                   r <= order[j] /\ order[i] \in ReachedFrom(r, ToSet(order))

Init ==
    /\ spec \in Discoveries
    /\ blamed = {}
    /\ loadOrder = <<>>
    /\ done = FALSE

Resolve ==
    /\ ~done
    /\ done' = TRUE
    /\ \A p \in blamed' : p \in ReachedFrom(p, Eligible)
    /\ ToSet(loadOrder') = Loadable(blamed')
    /\ Ordered(loadOrder')
    /\ UNCHANGED spec

Spec == Init /\ [][Resolve]_<<spec, blamed, loadOrder, done>>

=============================================================================
