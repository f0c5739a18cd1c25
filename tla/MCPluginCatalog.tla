--------------------------- MODULE MCPluginCatalog ---------------------------
(* An instance of PluginCatalog for TLC: one extension point, two threads,  *)
(* keys that are shared, repeated and empty.                                *)
EXTENDS PluginCatalog, TLC

CONSTANTS a1, a2, a3

MCIids == {"app"}
MCDirectories == {"plugins", "extra"}
MCFiles == {"editor", "viewer", "notes"}
MCFilesIn == [plugins |-> <<"editor">>, extra |-> <<"editor", "notes", "viewer">>]
MCIidOf == [editor |-> "app", viewer |-> "app", notes |-> "app"]
MCUnusable == {"notes"}
MCAddresses == {a1, a2, a3}

\* A scan meets no fault, a single one that it notices, or a library it cannot read.
MCFaults ==
    [noticed : {{}} \cup {{x} : x \in MCDirectories \cup MCFiles}, unread : {{}}]
        \cup [noticed : {{}}, unread : {{f} : f \in MCFiles}]


MCKeys == {"", "txt", "png", "svg", "md"}
MCFileKeys == [editor |-> <<"txt", "", "svg", "txt">>, viewer |-> <<"png", "svg">>,
               notes |-> <<"txt", "md">>]
MCOtherKeys == <<"svg", "txt">>
MCStaticPlugins == [app |-> 0]

AddressSymmetry == Permutations(MCAddresses)

=============================================================================
