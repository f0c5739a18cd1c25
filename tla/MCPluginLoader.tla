--------------------------- MODULE MCPluginLoader ---------------------------
(* PluginLoader and the decoders of the three formats for TLC, side by side: *)
(* the calls on two loaders, or the decoding of one file by the decoder of a *)
(* build.  ELF files have at most twelve bytes and 4-bit offsets: sections at *)
(* both ends of the file, around it, and sizes whose sums wrap around.        *)
EXTENDS PluginLoader, EmbeddedMetadata, MachOMetadata, PeMetadata

MCSection == [name : {0, 2, 3, 15}, offset : {0, 4, 8, 15}, size : {0, 1, 4, 5, 9}]

Tables == {<<>>} \cup {<<s>> : s \in MCSection} \cup {<<s, t>> : s, t \in MCSection}

\* Every table, with the names in the first or the second section, and the
\* metadata's name at one or several of the places that section names lead to.
Headers ==
    [size : {12}, elf : {TRUE}, sizes : {TRUE}, shoff : {2}, shstrndx : 0 .. 1,
     sections : Tables, named : {{6}, {4, 10}, {6, 8, 10}}]

\* Headers that are unusable, or only just usable.
OddHeaders ==
    [size : {0, 1, 2, 11}, elf : BOOLEAN, sizes : BOOLEAN, shoff : {0, 9, 10, 15},
     shstrndx : {0, 2}, named : {{8}},
     sections : {<<>>} \cup {<<[name |-> 0, offset |-> 8, size |-> n]>> : n \in {2, 3, 4}}]

MCFiles == Headers \cup OddHeaders

-----------------------------------------------------------------------------
\* Segments with a section that is the metadata's or not, and other commands;
\* sizes that fit, and sizes that are too small or lead out of the commands.
MachSections == [metadata : BOOLEAN, offset : {0, 4, 15}, size : {0, 1, 13}]

Segments ==
    [size : {1, 3, 4}, segment : {TRUE},
     sections : {<<s>> : s \in MachSections}
                    \cup {<<s, t>> : s, t \in [metadata : BOOLEAN, offset : {4}, size : {0, 1}]}]

OtherCommands == [size : {0, 1, 2, 15}, segment : {FALSE}, sections : {<<>>}]

Slices ==
    [commandsSize : {1, 3, 5},
     commands : {<<>>} \cup {<<c>> : c \in Segments \cup OtherCommands}
                    \cup {<<c, d>> : c \in OtherCommands, d \in Segments}]

\* A few of them: two usable ones, and a damaged one.
Usable(place) ==
    [commandsSize |-> 3,
     commands |-> <<[size |-> 3, segment |-> TRUE,
                     sections |-> <<[metadata |-> TRUE, offset |-> place, size |-> 1]>>]>>]

FewSlices == {Usable(4), Usable(5), [Usable(4) EXCEPT !.commands[1].size = 2]}

\* Architectures that overlap, do not fit their slice, or lie out of the file.
MCArches == [offset : {3, 8}, size : {4, 5, 6}] \cup {[offset |-> 12, size |-> 5], [offset |-> 15, size |-> 2]}

MCImages ==
    [size : {0, 1, 5, 8, 14}, fat : {FALSE}, arches : {<<>>}, slices : [{0} -> Slices]]
        \cup [size : {14}, fat : {TRUE}, slices : [{3, 8} -> FewSlices],
              arches : {<<a>> : a \in MCArches} \cup {<<a, b>> : a, b \in MCArches}]
        \cup [size : {0, 1, 2, 9}, fat : {TRUE}, slices : {[place \in {3} |-> Usable(4)]},
              arches : {<<>>, <<[offset |-> 3, size |-> 6]>>}]

-----------------------------------------------------------------------------
PeSections ==
    [metadata : BOOLEAN, data : BOOLEAN, constant : BOOLEAN,
     raw : {0, 3, 4}, virtual : {0, 2, 6}, pointer : {0, 8, 10}]

MCLibraries ==
    [size : {12}, dos : {TRUE}, lfanew : {2}, nt : {TRUE}, dll : {TRUE}, optional : {1},
     sections : {<<s>> : s \in PeSections}
                    \cup {<<s, t>> : s \in [metadata : BOOLEAN, data : {TRUE}, constant : {TRUE},
                                            raw : {3}, virtual : {2}, pointer : {8, 11}],
                                     t \in PeSections}]
        \cup [size : {0, 2, 8, 9}, dos : BOOLEAN, lfanew : {-1, 0, 2, 5, 6, 9}, nt : BOOLEAN,
              dll : BOOLEAN, optional : {0, 1, 9},
              sections : {<<>>, <<[metadata |-> TRUE, data |-> TRUE, constant |-> TRUE,
                                   raw |-> 2, virtual |-> 0, pointer |-> 0]>>}]

-----------------------------------------------------------------------------
ElfIdle == file = <<>> /\ at = "idle" /\ next = 1 /\ reads = {} /\ text = <<>>

MachIdle ==
    /\ image = <<>> /\ phase = "idle" /\ arch = 1 /\ base = 0 /\ end = 0
    /\ command = 1 /\ commandOffset = 0 /\ sliceReads = {} /\ machText = <<>>

PeIdle == pe = <<>> /\ peAt = "idle" /\ peNext = 1 /\ peReads = {} /\ peText = <<>>

\* Calls on loaders are checked where no file is decoded.
Calling == LoaderInit /\ ElfIdle /\ MachIdle /\ PeIdle

Decoding ==
    /\ LoaderInit
    /\ \/ Init /\ MachIdle /\ PeIdle
       \/ ElfIdle /\ MachInit /\ PeIdle
       \/ ElfIdle /\ MachIdle /\ PeInit

DecoderNext ==
    \/ Next /\ UNCHANGED <<machVars, peVars>>
    \/ MachNext /\ UNCHANGED <<vars, peVars>>
    \/ PeNext /\ UNCHANGED <<vars, machVars>>

CallNext == LoaderNext /\ ElfIdle /\ MachIdle /\ PeIdle

LibrariesSpec ==
    /\ Calling \/ Decoding
    /\ [][\/ CallNext /\ UNCHANGED <<vars, machVars, peVars>>
          \/ DecoderNext /\ UNCHANGED loaderVars]_<<loaderVars, vars, machVars, peVars>>

=============================================================================
