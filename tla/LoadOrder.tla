------------------------------ MODULE LoadOrder ------------------------------
(***************************************************************************)
(* What the passes of loadPlugins() and shutdownPlugins() take for granted *)
(* of the outcome of resolveDependencies(): the assumption of module       *)
(* PluginLifecycle, and a theorem about module DependencyResolution.       *)
(***************************************************************************)
EXTENDS Integers, Sequences

\* No plugin is listed twice, and the required dependencies of a listed plugin
\* are listed before it.
IsResolution(r, plugins) ==
    /\ r.order \in Seq(plugins)
    /\ r.required \in [plugins -> SUBSET plugins]
    /\ \A i, j \in DOMAIN r.order : r.order[i] = r.order[j] => i = j
    /\ \A i \in DOMAIN r.order : \A d \in r.required[r.order[i]] :
           \E j \in 1 .. i - 1 : r.order[j] = d

=============================================================================
