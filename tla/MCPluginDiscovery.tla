-------------------------- MODULE MCPluginDiscovery --------------------------
(* An instance of PluginDiscovery for TLC: three plugins in two directories, *)
(* two of them with the same id and one with broken metadata, and settings   *)
(* documents for that id, two of which say too much or the wrong thing.      *)
EXTENDS PluginDiscovery, TLC

CONSTANTS a1, a2, a3

MCIids == {"app"}
MCDirectories == {"plugins", "extra"}
MCFiles == {"editor", "editor2", "viewer"}
MCFilesIn == [plugins |-> <<"editor", "viewer">>, extra |-> <<"editor2">>]
MCIidOf == [f \in MCFiles |-> "app"]
MCAddresses == {a1, a2, a3}

\* A scan meets no fault, a single one that it notices, or one library it cannot read.
MCFaults ==
    [noticed : {{}} \cup {{x} : x \in MCDirectories \cup MCFiles}, unread : {{}}]
        \cup [noticed : {{}}, unread : {{"editor"}}]


MCIds == {"edit"}
MCIdOf == [editor |-> "edit", editor2 |-> "edit", viewer |-> ""]
MCEnabledByMetadata == [editor |-> TRUE, editor2 |-> FALSE, viewer |-> TRUE]
MCBroken == {"viewer"}
MCPredicates == {MCFiles, {"editor2"}}
MCDocuments ==
    {[kind |-> "object", userData |-> "absent", enabledPlugins |-> on, disabledPlugins |-> off] :
        on, off \in {Null, List(<<"edit">>), List(<<"">>), NoArray}}
MCStaticPlugins == [app |-> 0]

AddressSymmetry == Permutations(MCAddresses)

=============================================================================
