---------------------------- MODULE PluginSettings ----------------------------
(***************************************************************************)
(* PluginSettings: which plugins are switched on or off, as a map, and the *)
(* JSON documents it is read from and written to.  What the user data      *)
(* holds is of no account here.                                            *)
(***************************************************************************)
EXTENDS Integers, SequencesExt

CONSTANTS
    Ids,        \* plugin ids
    EmptyId,    \* the empty string
    NotAString  \* any JSON value that is no string

ASSUME IdAssumption == EmptyId \notin Ids /\ NotAString \notin Ids

\* A member of a document.  One that is missing reads as null.
List(items) == [kind |-> "array", items |-> items]

Null == [kind |-> "null", items |-> <<>>]

NoArray == [kind |-> "other", items |-> <<>>]

IsMember(member) ==
    /\ member.kind \in {"array", "null", "other"}
    /\ member.items \in Seq(Ids \cup {EmptyId, NotAString})
    /\ member.kind # "array" => member.items = <<>>

-----------------------------------------------------------------------------
NoOverrides == [id \in {} |-> TRUE]

\* setPluginEnabled(id, enabled), and setPluginEnabled(id, nullopt).
Override(overrides, id, enabled) ==
    [x \in DOMAIN overrides \cup {id} |-> IF x = id THEN enabled ELSE overrides[x]]

Forget(overrides, id) == [x \in DOMAIN overrides \ {id} |-> overrides[x]]

\* pluginEnabled(id).value_or(fallback)
EnabledOr(overrides, id, fallback) ==
    IF id \in DOMAIN overrides THEN overrides[id] ELSE fallback

\* enabledPlugins() and disabledPlugins(), in the order of the map.
IdsWith(overrides, enabled) ==
    SetToSeq({id \in DOMAIN overrides : overrides[id] = enabled})

-----------------------------------------------------------------------------
\* Mutant: the lists are written under each other's names.
ToJson_Swapped(overrides) ==
    [kind |-> "object", userData |-> "object",
     enabledPlugins |-> List(IdsWith(overrides, FALSE)),
     disabledPlugins |-> List(IdsWith(overrides, TRUE))]

ToJson(overrides) ==
    [kind |-> "object", userData |-> "object",
     enabledPlugins |-> List(IdsWith(overrides, TRUE)),
     disabledPlugins |-> List(IdsWith(overrides, FALSE))]

Acceptable(item, overrides) == item \in Ids /\ item \notin DOMAIN overrides

\* readIds(), which goes on from what was read so far unless that failed.
ReadIds(read, list, enabled) ==
    LET Enter(r, item) ==
            [ok |-> r.ok /\ Acceptable(item, r.overrides),
             overrides |-> IF item \in DOMAIN r.overrides THEN r.overrides
                           ELSE Override(r.overrides, item, enabled)]
        entered[n \in 0 .. Len(list.items)] ==
            IF n = 0 THEN read ELSE Enter(entered[n - 1], list.items[n])
    IN  IF list.kind = "other" THEN [read EXCEPT !.ok = FALSE]
        ELSE entered[Len(list.items)]

\* fromJson(): the settings, or ok = FALSE and nothing to use.
FromJson(document) ==
    LET start == [ok |-> document.kind = "object" /\ document.userData # "other",
                  overrides |-> NoOverrides]
    IN  ReadIds(ReadIds(start, document.enabledPlugins, TRUE),
                document.disabledPlugins, FALSE)

=============================================================================
