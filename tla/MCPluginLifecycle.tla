-------------------------- MODULE MCPluginLifecycle --------------------------
(* Instances of PluginLifecycle for TLC.                                    *)
EXTENDS PluginLifecycle, FiniteSets

CONSTANTS p1, p2, p3,
          PluginOrder   \* the plugins in the order they would be loaded

TwoPlugins == <<p1, p2>>
ThreePlugins == <<p1, p2, p3>>

MCPlugins == ToSet(PluginOrder)

\* Every prefix of the order, with every set of required dependencies that
\* points backwards in it.
MCResolutions ==
    UNION {
        LET order == SubSeq(PluginOrder, 1, n)
            Before(p) == {order[j] : j \in {k \in 1 .. n : \E i \in k + 1 .. n : order[i] = p}}
        IN  {[order |-> order, required |-> r] :
                r \in {f \in [MCPlugins -> SUBSET ToSet(order)] :
                           \A p \in MCPlugins : f[p] \subseteq Before(p)}}
        : n \in 0 .. Len(PluginOrder)}

\* One host thread makes all calls.
OneThread == {"main"}
OneThreadCalls == OneThread \X APIs

\* Two host threads start and shut down; commands are out of the question.
TwoThreads == {"main", "worker"}
TwoThreadsCalls == TwoThreads \X {"loadPlugins", "shutdownPlugins"}

\* A plugin may pass commands from everywhere (an event loop that it runs), and
\* it may start or stop the system while it handles a command.
SafeReentry ==
    (Callbacks \X {"remoteCommand"})
        \cup {<<"remoteCommand", "loadPlugins">>, <<"remoteCommand", "shutdownPlugins">>}

\* ... or repeat a lifecycle call during the lifecycle passes.
RepeatingReentry == Callbacks \X {"loadPlugins", "shutdownPlugins"}

NoReentry == {}

Nothing == {}

=============================================================================
