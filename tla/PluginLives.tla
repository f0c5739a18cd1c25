----------------------------- MODULE PluginLives -----------------------------
(***************************************************************************)
(* What plugins can rely on, whatever threads, locks and passes do: the    *)
(* life of each plugin and how the lives of providers, plugins that others *)
(* require, and dependents are tied together.                              *)
(*                                                                         *)
(*   absent -> loaded -> initializing -> initialized -> readying           *)
(*          -> running -> told -> gone                                     *)
(*                                                                         *)
(* An unusable plugin is loaded but not an IPlugin, a failed one did not   *)
(* initialize, and a stuck one could not be unloaded.                      *)
(***************************************************************************)
EXTENDS Integers

CONSTANT Plugins

VARIABLES required, life, heard

livesVars == <<required, life, heard>>

Up == {"loaded", "unusable", "initializing", "initialized", "failed",
       "readying", "running", "told"}

Over == {"told", "gone", "stuck"}

Providers(p) == required[p]

Dependents(p) == {q \in Plugins : p \in required[q]}

All(S, stages) == \A q \in S : life[q] \in stages

Becomes(p, from, to) == life[p] = from /\ life' = [life EXCEPT ![p] = to]

\* Nothing is started once the first plugin was told of the end.
Starting == \A p \in Plugins : life[p] \notin Over

-----------------------------------------------------------------------------
Init ==
    /\ required = [p \in Plugins |-> {}]
    /\ life = [p \in Plugins |-> "absent"]
    /\ heard = [p \in Plugins |-> 0]

\* The dependencies are known before the first library is loaded.
Resolve ==
    /\ All(Plugins, {"absent"})
    /\ required' \in [Plugins -> SUBSET Plugins]
    /\ UNCHANGED <<life, heard>>

Load(p) ==
    /\ Starting /\ All(Providers(p), {"loaded"})
    /\ Becomes(p, "absent", "loaded") \/ Becomes(p, "absent", "unusable")

Initialize(p) ==
    /\ Starting /\ All(Providers(p), {"initialized"})
    /\ All(Plugins, {"absent", "loaded", "unusable", "initialized", "failed"})
    /\ Becomes(p, "loaded", "initializing")

Initialized(p) ==
    Becomes(p, "initializing", "initialized") \/ Becomes(p, "initializing", "failed")

\* pluginsInitialized() comes to the dependents first, when all initialize()
\* are over.
BecomeReady(p) ==
    /\ Starting
    /\ All(Plugins, {"absent", "loaded", "unusable", "initialized", "failed", "running"})
    /\ \A q \in Dependents(p) : life[q] # "initialized"
    /\ Becomes(p, "initialized", "readying")

Run(p) == Becomes(p, "readying", "running")

\* A command is given to running plugins, whose providers run, too.
Hear(p) ==
    /\ All({p} \cup Providers(p), {"running"})
    /\ heard' = [heard EXCEPT ![p] = @ + 1]
    /\ UNCHANGED life

\* aboutToShutdown() comes when no plugin is being started, to dependents first.
Tell(p) ==
    /\ All(Plugins, {"absent", "loaded", "unusable", "failed", "running", "told"})
    /\ \A q \in Dependents(p) : life[q] # "running"
    /\ Becomes(p, "running", "told")

\* Libraries are unloaded when every plugin that ran was told, those of the
\* dependents first unless they cannot be unloaded.
Unload(p) ==
    /\ All(Plugins, {"absent", "loaded", "unusable", "failed"} \cup Over)
    /\ All(Dependents(p), {"absent", "gone", "stuck"})
    /\ life[p] \in Up
    /\ \E end \in {"gone", "stuck"} : life' = [life EXCEPT ![p] = end]

Next ==
    \/ Resolve
    \/ /\ \E p \in Plugins :
             \/ Load(p) \/ Initialize(p) \/ Initialized(p) \/ BecomeReady(p)
             \/ Run(p) \/ Tell(p) \/ Unload(p)
       /\ UNCHANGED <<required, heard>>
    \/ \E p \in Plugins : Hear(p) /\ UNCHANGED required

Spec == Init /\ [][Next]_livesVars

=============================================================================
