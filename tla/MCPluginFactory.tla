--------------------------- MODULE MCPluginFactory ---------------------------
(* An instance of PluginFactory for TLC: two extension points whose plugins *)
(* lie in two directories, with one file that both directories lead to.     *)
EXTENDS PluginFactory, TLC

CONSTANTS a1, a2, a3, a4

MCIids == {"app", "codec"}
MCDirectories == {"plugins", "extra"}
MCFiles == {"editor", "viewer", "flac"}
MCFilesIn == [plugins |-> <<"editor", "flac">>, extra |-> <<"editor", "viewer">>]
MCIidOf == [editor |-> "app", viewer |-> "app", flac |-> "codec"]
MCUnusable == {"viewer"}
MCAddresses == {a1, a2, a3, a4}
MCStaticPlugins == [app |-> 0, codec |-> 2]

AddressSymmetry == Permutations(MCAddresses)

\* A scan meets no fault, a single one that it notices, or a library it cannot read.
MCFaults ==
    [noticed : {{}} \cup {{x} : x \in MCDirectories \cup MCFiles}, unread : {{}}]
        \cup [noticed : {{}}, unread : {{f} : f \in MCFiles}]

=============================================================================
