--------------------------- MODULE MCPluginReading ---------------------------
(* An instance of PluginReading for TLC: a manifest that is in order or has  *)
(* one fault, libraries inside and outside of the bundle.                    *)
EXTENDS PluginReading

Path(names) == [root |-> FALSE, names |-> names]

MCMetadataNames ==
    {Path(<<"plugin.json">>), Path(<<"meta", "plugin.json">>), Path(<<"..", "plugin.json">>),
     Path(<<"meta", "">>), [root |-> TRUE, names |-> <<"plugin.json">>]}

NoDependencies == [usable |-> TRUE, items |-> <<>>]

Dependency(version, type) == [id |-> "core", version |-> version, type |-> type]

Good == [json |-> TRUE, name |-> Path(<<"edit">>), id |-> "edit", displayName |-> TRUE,
         description |-> TRUE, version |-> 2, compatVersion |-> NoVersion,
         enabledByDefault |-> "null", dependencies |-> NoDependencies]

Other == [Good EXCEPT !.version = 1, !.enabledByDefault = "FALSE",
                      !.dependencies.items = <<Dependency(1, "optional")>>]

MCManifests ==
    {[json |-> FALSE, broken |-> TRUE], Good, Other}
        \cup {[Good EXCEPT !.name = Path(n)] : n \in {<<>>, <<"..", "edit">>}}
        \cup {[Good EXCEPT !.id = ""], [Other EXCEPT !.displayName = FALSE]}
        \cup {[Good EXCEPT !.version = 0], [Good EXCEPT !.enabledByDefault = "other"]}
        \cup {[Good EXCEPT !.compatVersion = v] : v \in {0, 1, 3}}
        \cup {[Good EXCEPT !.dependencies.items = <<Dependency(1, "required"), d>>] :
                  d \in {Dependency(0, "optional"), Dependency(2, "needed")}}

\* The library, once more under another name, next to the bundle, and broken.
Plain == <<<<"", "edit", ".so">>>>
Prefixed == <<<<"lib", "edit", ".so">>>>
Outside == <<<<"", "..", "">>, <<"", "edit", ".so">>>>

MCLibraryStates ==
    {[path \in {Plain, Outside} |-> "app"], [path \in {Prefixed, Outside} |-> "app"],
     [path \in {Plain, Prefixed} |-> IF path = Plain THEN "unreadable" ELSE "app"],
     [path \in {Prefixed} |-> "codec"], [path \in {Outside} |-> "app"]}

=============================================================================
