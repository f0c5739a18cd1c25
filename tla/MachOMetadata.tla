---------------------------- MODULE MachOMetadata ----------------------------
(***************************************************************************)
(* How the loader finds the embedded metadata of a Mach-O library: the     *)
(* slices of a universal binary, or the whole file, one after the other,   *)
(* and in each its load commands up to the first metadata section.  Every  *)
(* offset and size comes from the file; a slice that is unusable in any    *)
(* way gives way to the next.                                              *)
(***************************************************************************)
EXTENDS Integers, SequencesExt

CONSTANTS
    MachWords,        \* 2^w, w the width of an offset
    FatHeaderSize,    \* sizeof(fat_header), also that of the magic number here
    ArchSize,         \* sizeof(fat_arch)
    MachHeaderSize,   \* sizeof(mach_header)
    CommandSize,      \* sizeof(load_command)
    SegmentSize,      \* sizeof(segment_command)
    MachSectionSize,  \* sizeof(section)
    Images            \* the files considered

\* "slices": what a Mach-O reader finds at an offset, of those where there is a
\* magic number; "commands" of a slice: what it finds when it steps from one
\* command to the next by their sizes; "sections": those that a segment counts.
Section == [metadata : BOOLEAN, offset : 0 .. MachWords - 1, size : 0 .. MachWords - 1]
Command == [size : 0 .. MachWords - 1, segment : BOOLEAN, sections : Seq(Section)]
Slice == [commandsSize : 0 .. MachWords - 1, commands : Seq(Command)]
Arch == [offset : 0 .. MachWords - 1, size : 0 .. MachWords - 1]

ASSUME MachSizeAssumption ==
    /\ {MachWords, FatHeaderSize, ArchSize, MachHeaderSize, MachSectionSize} \subseteq Nat \ {0}
    /\ CommandSize \in Nat \ {0} /\ SegmentSize \in CommandSize .. MachWords - 1
ASSUME ImagesAssumption ==
    \A i \in Images :
        /\ i.size \in 0 .. MachWords - 1 /\ i.fat \in BOOLEAN /\ i.arches \in Seq(Arch)
        /\ \A place \in DOMAIN i.slices : i.slices[place] \in Slice

VARIABLES
    image,        \* the library, fixed
    phase,        \* what is read next, or the outcome
    arch,         \* the number of the slice
    base, end,    \* its bounds, "fileSize" in read_macho_slice()
    command,      \* the number of the load command
    commandOffset,
    sliceReads,   \* auxiliary: <<offset, size, base, end>> of the reads of usable parts
    machText      \* the section returned, as <<offset, size>>

machVars == <<image, phase, arch, base, end, command, commandOffset, sliceReads, machText>>

\* A thin file is its own only slice.
Arches == IF image.fat THEN image.arches ELSE <<[offset |-> 0, size |-> image.size]>>

CurrentSlice == image.slices[base]

\* Mutant: the end is compared, and may wrap around.
InRange_Sum(from, size, limit) == (from + size) % MachWords <= limit

\* valid_range()
InRange(from, size, limit) == from <= limit /\ size <= limit - from

ReadsInSlice(ranges) ==
    sliceReads' = sliceReads \cup {<<r[1], r[2], base, end>> : r \in ranges}

-----------------------------------------------------------------------------
MachInit ==
    /\ image \in Images
    /\ phase = "magic"
    /\ arch = 1
    /\ base = 0 /\ end = 0
    /\ command = 1
    /\ commandOffset = 0
    /\ sliceReads = {}
    /\ machText = <<>>

\* The magic number, and the header of a universal binary with its table.
ReadMagic ==
    /\ phase = "magic"
    /\ phase' = IF /\ InRange(0, FatHeaderSize, image.size)
                   /\ image.fat => InRange(FatHeaderSize, Len(image.arches) * ArchSize, image.size)
                THEN "arch" ELSE "rejected"
    /\ UNCHANGED <<image, arch, base, end, command, commandOffset, sliceReads, machText>>

EnterSlice ==
    /\ phase = "arch" /\ arch <= Len(Arches)
    /\ LET a == Arches[arch] IN
       \/ /\ ~InRange(a.offset, a.size, image.size)
          /\ arch' = arch + 1
          /\ UNCHANGED <<phase, base, end>>
       \/ /\ InRange(a.offset, a.size, image.size)
          /\ phase' = "header" /\ base' = a.offset /\ end' = a.offset + a.size
          /\ UNCHANGED arch
    /\ UNCHANGED <<image, command, commandOffset, sliceReads, machText>>

NoSliceLeft ==
    /\ phase = "arch" /\ arch > Len(Arches)
    /\ phase' = "rejected"
    /\ UNCHANGED <<image, arch, base, end, command, commandOffset, sliceReads, machText>>

\* Mutant: a slice without usable metadata ends the search.
AfterFailure_Reject == "rejected"

AfterFailure == "arch"

SliceFails ==
    phase' = AfterFailure /\ arch' = arch + 1 /\ UNCHANGED <<command, commandOffset, machText>>

CommandsStart == base + MachHeaderSize

CommandsEnd == CommandsStart + CurrentSlice.commandsSize

ReadMachHeader ==
    /\ phase = "header"
    /\ LET readable == base \in DOMAIN image.slices /\ InRange(base, MachHeaderSize, end)
           usable == /\ InRange(CommandsStart, CurrentSlice.commandsSize, end)
                     /\ Len(CurrentSlice.commands) * CommandSize <= CurrentSlice.commandsSize
       IN  /\ ReadsInSlice(IF readable THEN {<<base, MachHeaderSize>>} ELSE {})
           /\ IF readable /\ usable
              THEN /\ phase' = "commands" /\ command' = 1 /\ commandOffset' = CommandsStart
                   /\ UNCHANGED <<arch, machText>>
              ELSE SliceFails
    /\ UNCHANGED <<image, base, end>>

\* A command is within the commands, and so are the sections of a segment.
CommandUsable(c) ==
    /\ InRange(commandOffset, CommandSize, CommandsEnd)
    /\ c.size \in CommandSize .. CommandsEnd - commandOffset
    /\ c.segment => /\ SegmentSize <= c.size
                    /\ Len(c.sections) <= (c.size - SegmentSize) \div MachSectionSize

SectionStart(s) == base + s.offset

HasMetadata(c) == c.segment /\ \E s \in ToSet(c.sections) : s.metadata

\* No section before the j-th has the metadata's name.
Reaches(c, j) == c.segment /\ \A i \in 1 .. j - 1 : ~c.sections[i].metadata

\* The sections are read up to the metadata's.
SectionReads(c) ==
    {<<commandOffset + SegmentSize + (j - 1) * MachSectionSize, MachSectionSize>> :
        j \in {x \in DOMAIN c.sections : Reaches(c, x)}}

CommandReads(c) == {<<commandOffset, IF c.segment THEN SegmentSize ELSE CommandSize>>} \cup SectionReads(c)

ReadCommand ==
    /\ phase = "commands" /\ command <= Len(CurrentSlice.commands)
    /\ LET c == CurrentSlice.commands[command] IN
       /\ CommandUsable(c) /\ ~HasMetadata(c)
       /\ command' = command + 1
       /\ commandOffset' = commandOffset + c.size
       /\ ReadsInSlice(CommandReads(c))
    /\ UNCHANGED <<image, phase, arch, base, end, machText>>

FindMetadata ==
    /\ phase = "commands" /\ command <= Len(CurrentSlice.commands)
    /\ LET c == CurrentSlice.commands[command] IN
       /\ CommandUsable(c)
       /\ \E j \in DOMAIN c.sections :
              LET s == c.sections[j]
                  text == <<SectionStart(s), s.size>>
              IN  /\ Reaches(c, j) /\ s.metadata
                  /\ IF InRange(SectionStart(s), s.size, end)
                     THEN /\ phase' = "found" /\ machText' = text
                          /\ ReadsInSlice(CommandReads(c) \cup {text})
                          /\ UNCHANGED <<arch, command, commandOffset>>
                     ELSE SliceFails /\ ReadsInSlice(CommandReads(c))
    /\ UNCHANGED <<image, base, end>>

CommandsFail ==
    /\ phase = "commands"
    /\ command <= Len(CurrentSlice.commands) => ~CommandUsable(CurrentSlice.commands[command])
    /\ SliceFails
    /\ UNCHANGED <<image, base, end, sliceReads>>

MachOver == phase \in {"found", "rejected"} /\ UNCHANGED machVars

MachNext ==
    \/ ReadMagic \/ EnterSlice \/ NoSliceLeft \/ ReadMachHeader
    \/ ReadCommand \/ FindMetadata \/ CommandsFail \/ MachOver

MachSpec == MachInit /\ [][MachNext]_machVars

-----------------------------------------------------------------------------
(* Properties.                                                             *)

\* Whatever offsets, counts and sizes the file holds, what is read of a slice
\* lies in that slice, and the slice in the file: no architecture's metadata is
\* taken from another's part of the file.
SlicesReadApart ==
    \A r \in sliceReads : r[3] <= r[1] /\ r[1] + r[2] <= r[4] /\ r[4] <= image.size

\* Where the k-th command of a slice starts, from the start of the slice.
CommandStart(slice, k) ==
    LET sum[n \in 0 .. Len(slice.commands)] ==
            IF n = 0 THEN MachHeaderSize ELSE sum[n - 1] + slice.commands[n].size
    IN  sum[k - 1]

\* The k-th command fills its part of the commands, with room for its sections.
CommandWhole(slice, k) ==
    LET c == slice.commands[k] IN
    /\ c.size >= CommandSize
    /\ CommandStart(slice, k) + c.size <= MachHeaderSize + slice.commandsSize
    /\ c.segment => SegmentSize + Len(c.sections) * MachSectionSize <= c.size

FirstWithMetadata(slice, k) ==
    /\ HasMetadata(slice.commands[k])
    /\ \A j \in 1 .. k - 1 : ~HasMetadata(slice.commands[j])

MetadataIn(c) ==
    c.sections[CHOOSE j \in DOMAIN c.sections : c.sections[j].metadata /\ Reaches(c, j)]

\* The metadata of a slice, if any, as the format has it: the commands up to that
\* of the first metadata section are whole, and that section is in the slice.
MetadataOf(a) ==
    LET slice == image.slices[a.offset]
        Text(k) == MetadataIn(slice.commands[k])
    IN  IF a.offset \notin DOMAIN image.slices \/ a.offset + a.size > image.size THEN {}
        ELSE {<<a.offset + Text(k).offset, Text(k).size>> :
                 k \in {x \in DOMAIN slice.commands :
                            /\ FirstWithMetadata(slice, x)
                            /\ \A j \in 1 .. x : CommandWhole(slice, j)
                            /\ MachHeaderSize + slice.commandsSize <= a.size
                            /\ Len(slice.commands) * CommandSize <= slice.commandsSize
                            /\ Text(x).offset + Text(x).size <= a.size}}

TableEnd == FatHeaderSize + (IF image.fat THEN Len(image.arches) * ArchSize ELSE 0)

\* The loader returns the metadata of the first slice that has any, passing over
\* slices that are damaged or outside of the file, and rejects a library only if
\* none has.
DecodesFirstSlice ==
    LET usable == {i \in DOMAIN Arches :
                      TableEnd <= image.size /\ MetadataOf(Arches[i]) # {}}
    IN  /\ phase = "found" =>
               \E i \in usable : (\A j \in usable : i <= j) /\ machText \in MetadataOf(Arches[i])
        /\ phase = "rejected" => usable = {}

=============================================================================
