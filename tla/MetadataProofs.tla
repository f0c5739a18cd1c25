--------------------------- MODULE MetadataProofs ---------------------------
(***************************************************************************)
(* Proofs about the decoders of embedded metadata: of ELF files for any    *)
(* word width and any file, of Mach-O files for any width of offsets and   *)
(* any sizes of the headers, of PE files for any sizes of the headers.     *)
(***************************************************************************)
EXTENDS EmbeddedMetadata, MachOMetadata, PeMetadata,
        NaturalsInduction, WellFoundedInduction, TLAPS

-----------------------------------------------------------------------------
(* ELF.                                                                    *)

ElfSection ==
    [name : 0 .. Words - 1, offset : 0 .. Words - 1, size : 0 .. Words - 1]

-----------------------------------------------------------------------------
(* The arithmetic on words.                                                *)

\* A range that passes the check lies in the file, and the other way round,
\* also when the size does not fit a word.
LEMMA ValidRangeIsIn ==
    ASSUME file \in File, NEW offset \in Nat, NEW size \in Nat
    PROVE  ValidRange(offset, size) <=> In(offset, size)
<1>1. file.size \in 0 .. Words - 1
      BY DEF File
<1> QED BY <1>1, SizeAssumption DEF ValidRange, In, Minus

\* A name that fits lies in the table of names.
LEMMA NameFitsInTable ==
    ASSUME file \in File, NEW s \in ElfSection, Names \in ElfSection
    PROVE  NameFits(s) <=> s.name + NameSize <= Names.size
BY SizeAssumption DEF NameFits, Minus, ElfSection

\* The offset of a name that fits does not wrap around, and the file holds it.
LEMMA NameOffsetExact ==
    ASSUME file \in File, NEW s \in ElfSection, Names \in ElfSection,
           NamesUsable, NameFits(s)
    PROVE  /\ NameOffset(s) = Names.offset + s.name
           /\ NameOffset(s) \in Nat
           /\ NameOffset(s) + NameSize <= file.size
<1>1. Names.offset + Names.size <= file.size
      BY ValidRangeIsIn, SizeAssumption DEF NamesUsable, In, ElfSection
<1>2. s.name + NameSize <= Names.size
      BY NameFitsInTable
<1>3. file.size < Words /\ file.size \in Nat
      BY SizeAssumption DEF File
<1>4. /\ s.name \in Nat /\ Names.offset \in Nat /\ Names.size \in Nat
      BY SizeAssumption DEF ElfSection
<1>5. Names.offset + s.name < Words
      BY <1>1, <1>2, <1>3, <1>4, SizeAssumption
<1>6. NameOffset(s) = Names.offset + s.name
      BY <1>5 DEF NameOffset, Plus
<1> QED BY <1>1, <1>2, <1>3, <1>4, <1>6, SizeAssumption

-----------------------------------------------------------------------------
(* The invariant: what was checked before a step still holds in it, and no *)
(* section before the loop's position has the metadata's name.             *)

Inv ==
    /\ file \in File
    /\ next \in Nat \ {0}
    /\ at \in {"header", "names"} => next = 1
    /\ reads \subseteq Nat \X Nat
    /\ ReadsInFile
    /\ at \in {"names", "sections"} => HeaderUsable
    /\ at = "sections" => /\ NamesUsable
                          /\ \A k \in MetadataSections : next <= k
    /\ DecodesMetadata

\* The members of a file whose header is usable.
LEMMA Typed ==
    ASSUME file \in File
    PROVE  /\ Shnum \in Nat
           /\ Shnum * SectionSize \in Nat
           /\ file.shoff \in Nat /\ file.shoff < Words
           /\ file.size \in Nat /\ file.size < Words
           /\ file.shstrndx \in Nat
           /\ \A k \in 1 .. Shnum : file.sections[k] \in ElfSection
           /\ file.shstrndx < Shnum => Names \in ElfSection
<1>1. file.sections \in Seq(ElfSection)
      BY DEF File, ElfSection
<1>2. Shnum \in Nat /\ \A k \in 1 .. Shnum : file.sections[k] \in ElfSection
      BY <1>1 DEF Shnum
<1>3. file.shstrndx \in Nat /\ file.shoff \in 0 .. Words - 1 /\ file.size \in 0 .. Words - 1
      BY DEF File
<1>4. Shnum * SectionSize \in Nat
      BY <1>2, SizeAssumption
<1>5. file.shstrndx < Shnum => Names \in ElfSection
      BY <1>2, <1>3 DEF Names
<1> QED BY <1>2, <1>3, <1>4, <1>5, SizeAssumption

\* The checks of the header and of the tables are those the format asks for.
LEMMA HeaderExact ==
    ASSUME file \in File
    PROVE  HeaderUsable <=> /\ file.elf /\ file.sizes /\ In(0, HeaderSize)
                            /\ file.shstrndx < Shnum
                            /\ In(file.shoff, Shnum * SectionSize)
<1> DEFINE t == Shnum * SectionSize
<1>1. /\ Shnum \in Nat /\ t \in Nat /\ file.shoff \in Nat
      /\ file.size \in Nat /\ file.shstrndx \in Nat
      BY Typed
<1>2. ValidRange(file.shoff, t) <=> In(file.shoff, t)
      BY <1>1, ValidRangeIsIn
<1>3. In(0, HeaderSize) <=> file.size >= HeaderSize
      BY <1>1, SizeAssumption DEF In
<1>4. file.shstrndx < Shnum => Shnum # 0
      BY <1>1
<1> HIDE DEF t
<1>5. HeaderUsable <=> /\ file.elf /\ file.size >= HeaderSize /\ file.sizes
                       /\ Shnum # 0 /\ file.shstrndx < Shnum
                       /\ ValidRange(file.shoff, t)
      BY DEF HeaderUsable, t
<1>6. In(file.shoff, Shnum * SectionSize) <=> In(file.shoff, t)
      BY DEF t
<1> QED BY <1>2, <1>3, <1>4, <1>5, <1>6

LEMMA NamesExact ==
    ASSUME file \in File, HeaderUsable
    PROVE  NamesUsable <=> Names.size > 0 /\ In(Names.offset, Names.size)
<1>1. Names \in ElfSection
      BY Typed DEF HeaderUsable
<1>2. Names.size \in Nat /\ Names.offset \in Nat
      BY <1>1, SizeAssumption DEF ElfSection
<1> QED BY <1>2, ValidRangeIsIn DEF NamesUsable

LEMMA SectionExact ==
    ASSUME file \in File, NEW s \in ElfSection
    PROVE  SectionUsable(s) <=> s.size \in 1 .. MaxRead /\ In(s.offset, s.size)
<1>1. s.size \in Nat /\ s.offset \in Nat
      BY SizeAssumption DEF ElfSection
<1> QED BY <1>1, ValidRangeIsIn, SizeAssumption DEF SectionUsable

\* A section is found by its name exactly if it is a metadata section.
LEMMA MetadataExact ==
    ASSUME file \in File, HeaderUsable, NamesUsable, NEW k \in 1 .. Shnum
    PROVE  k \in MetadataSections <=>
               /\ NameFits(file.sections[k])
               /\ NameOffset(file.sections[k]) \in file.named
<1> DEFINE s == file.sections[k]
<1>1. s \in ElfSection /\ Names \in ElfSection
      BY Typed DEF HeaderUsable
<1>2. k \in MetadataSections <=>
          s.name + NameSize <= Names.size /\ Names.offset + s.name \in file.named
      BY DEF MetadataSections
<1> HIDE DEF s
<1>3. NameFits(s) <=> s.name + NameSize <= Names.size
      BY <1>1, NameFitsInTable
<1>4. NameFits(s) => NameOffset(s) = Names.offset + s.name
      BY <1>1, NameOffsetExact
<1> QED BY <1>2, <1>3, <1>4 DEF s

-----------------------------------------------------------------------------
(* The steps.                                                              *)

LEMMA InvInit == Init => Inv
<1> SUFFICES ASSUME Init PROVE Inv
    OBVIOUS
<1>1. file \in File
      BY FilesAssumption DEF Init
<1> QED BY <1>1 DEF Init, Inv, ReadsInFile, DecodesMetadata

\* What the outcome "a" with the text "x" has to be, in terms of the checks made.
Found(x) ==
    \E k \in 1 .. Shnum :
        /\ k \in MetadataSections /\ \A j \in MetadataSections : k <= j
        /\ SectionUsable(file.sections[k])
        /\ x = <<file.sections[k].offset, file.sections[k].size>>

Decodable == HeaderUsable /\ NamesUsable /\ \E x : Found(x)

Correct(a, x) ==
    /\ a = "found" => HeaderUsable /\ NamesUsable /\ Found(x)
    /\ a = "rejected" => ~Decodable

LEMMA OutcomeExact ==
    ASSUME file \in File, file' = file
    PROVE  /\ DecodesMetadata <=> Correct(at, text)
           /\ DecodesMetadata' <=> Correct(at', text')
<1>1. \A k \in 1 .. Shnum :
          SectionUsable(file.sections[k]) <=>
              file.sections[k].size \in 1 .. MaxRead
                  /\ In(file.sections[k].offset, file.sections[k].size)
      BY Typed, SectionExact
<1>2. HeaderUsable /\ NamesUsable <=>
          /\ file.elf /\ file.sizes /\ In(0, HeaderSize)
          /\ file.shstrndx < Shnum /\ In(file.shoff, Shnum * SectionSize)
          /\ Names.size > 0 /\ In(Names.offset, Names.size)
      BY HeaderExact, NamesExact
<1>3. DecodesMetadata <=> Correct(at, text)
      BY <1>1, <1>2 DEF DecodesMetadata, Correct, Found, Decodable
<1>4. /\ Shnum' = Shnum /\ Names' = Names
      /\ MetadataSections' = MetadataSections
      /\ \A offset, size : In(offset, size)' <=> In(offset, size)
      BY DEF Shnum, Names, MetadataSections, In
<1>5. DecodesMetadata' <=> Correct(at', text')
      BY <1>1, <1>2, <1>4 DEF DecodesMetadata, Correct, Found, Decodable
<1> QED BY <1>3, <1>5

\* The checks of a file that stays the same.
LEMMA SameFile ==
    ASSUME file' = file
    PROVE  /\ HeaderUsable' <=> HeaderUsable
           /\ NamesUsable' <=> NamesUsable
           /\ MetadataSections' = MetadataSections
BY DEF HeaderUsable, NamesUsable, MetadataSections, Shnum, Names, ValidRange

LEMMA HeaderPreserves ==
    ASSUME Inv, ReadHeader PROVE Inv'
<1> DEFINE t == Shnum * SectionSize
<1>1. file' = file /\ file \in File /\ next' = next /\ text' = text
      BY DEF Inv, ReadHeader, Reject
<1>2. CASE ~HeaderUsable /\ Reject
      <2>1. Correct(at', text')
            BY <1>2 DEF Reject, Correct, Decodable
      <2> QED BY <1>1, <1>2, <2>1, OutcomeExact DEF Inv, Reject, ReadsInFile
<1>3. CASE HeaderUsable /\ at' = "names" /\ Reading(file.shoff, t)
      <2>1. Correct(at', text')
            BY <1>3 DEF Correct
      <2>2. file.shoff + t <= file.size /\ file.shoff \in Nat /\ t \in Nat
            BY <1>1, <1>3, Typed, HeaderExact DEF In
      <2> HIDE DEF t
      <2>3. ReadsInFile' /\ reads' \subseteq Nat \X Nat
            BY <1>1, <1>3, <2>2 DEF Inv, ReadsInFile, Reading
      <2>4. next = 1
            BY DEF Inv, ReadHeader
      <2> QED BY <1>1, <1>3, <2>1, <2>3, <2>4, OutcomeExact, SameFile DEF Inv
<1> QED BY <1>2, <1>3 DEF ReadHeader

LEMMA NamesPreserve ==
    ASSUME Inv, ReadNames PROVE Inv'
<1>1. /\ file' = file /\ file \in File /\ next' = next /\ text' = text /\ reads' = reads
      /\ HeaderUsable
      BY DEF Inv, ReadNames, Reject
<1>2. CASE ~NamesUsable /\ Reject
      <2>1. Correct(at', text')
            BY <1>2 DEF Reject, Correct, Decodable
      <2> QED BY <1>1, <1>2, <2>1, OutcomeExact DEF Inv, Reject, ReadsInFile
<1>3. CASE NamesUsable /\ at' = "sections"
      <2>1. Correct(at', text')
            BY <1>3 DEF Correct
      <2>2. \A k \in MetadataSections : k \in Nat /\ 1 <= k
            BY <1>1, Typed DEF MetadataSections
      <2>3. next = 1
            BY DEF Inv, ReadNames
      <2> QED BY <1>1, <1>3, <2>1, <2>2, <2>3, OutcomeExact, SameFile DEF Inv, ReadsInFile
<1> QED BY <1>2, <1>3 DEF ReadNames

\* The state of the loop at the section "next".
LEMMA LoopState ==
    ASSUME Inv, at = "sections", next <= Shnum
    PROVE  /\ file \in File /\ HeaderUsable /\ NamesUsable /\ ReadsInFile
           /\ reads \subseteq Nat \X Nat /\ next \in 1 .. Shnum /\ next \in Nat
           /\ file.sections[next] \in ElfSection /\ Names \in ElfSection
           /\ \A k \in MetadataSections : k \in 1 .. Shnum /\ next <= k
BY Typed DEF Inv, HeaderUsable, MetadataSections

\* The loop goes on after a section that is not the metadata's.
LEMMA LoopPreserves ==
    ASSUME Inv, SkipSection \/ OtherSection PROVE Inv'
<1> DEFINE s == file.sections[next]
<1>1. /\ at = "sections" /\ next <= Shnum
      /\ file' = file /\ at' = at /\ text' = text /\ next' = next + 1
      BY DEF SkipSection, OtherSection
<1>2. next \notin MetadataSections
      BY <1>1, LoopState, MetadataExact DEF SkipSection, OtherSection
<1>3. \A k \in MetadataSections : next' <= k
      BY <1>1, <1>2, LoopState, Typed
<1>4. ReadsInFile' /\ reads' \subseteq Nat \X Nat
      <2>1. CASE reads' = reads
            BY <1>1, <2>1, LoopState DEF ReadsInFile
      <2>2. CASE NameFits(s) /\ Reading(NameOffset(s), NameSize)
            <3>1. NameOffset(s) \in Nat /\ NameOffset(s) + NameSize <= file.size
                  BY <1>1, <2>2, LoopState, NameOffsetExact
            <3> HIDE DEF s
            <3> QED BY <1>1, <2>2, <3>1, LoopState, SizeAssumption DEF ReadsInFile, Reading
      <2> QED BY <2>1, <2>2 DEF SkipSection, OtherSection
<1>5. Correct(at', text')
      BY <1>1 DEF Correct
<1> QED BY <1>1, <1>3, <1>4, <1>5, LoopState, OutcomeExact, SameFile DEF Inv

\* The loop ends at the first section that has the metadata's name.
LEMMA MetadataPreserves ==
    ASSUME Inv, MetadataSection PROVE Inv'
<1> DEFINE s == file.sections[next]
<1>1. /\ at = "sections" /\ next <= Shnum /\ file' = file /\ next' = next
      /\ NameFits(s) /\ NameOffset(s) \in file.named
      BY DEF MetadataSection
<1>2. next \in MetadataSections /\ \A j \in MetadataSections : next <= j
      BY <1>1, LoopState, MetadataExact
<1>3. /\ NameOffset(s) \in Nat /\ NameOffset(s) + NameSize <= file.size
      /\ s.offset \in Nat /\ s.size \in Nat
      BY <1>1, LoopState, NameOffsetExact, SizeAssumption DEF ElfSection
<1>4. CASE /\ SectionUsable(s) /\ at' = "found" /\ text' = <<s.offset, s.size>>
           /\ reads' = reads \cup {<<NameOffset(s), NameSize>>, <<s.offset, s.size>>}
      <2>1. s.offset + s.size <= file.size
            BY <1>1, <1>4, LoopState, SectionExact DEF In
      <2>2. Correct(at', text')
            BY <1>1, <1>2, <1>4, LoopState DEF Correct, Found
      <2> HIDE DEF s
      <2>3. ReadsInFile' /\ reads' \subseteq Nat \X Nat
            BY <1>1, <1>3, <1>4, <2>1, LoopState, SizeAssumption DEF ReadsInFile
      <2> QED BY <1>1, <1>4, <2>2, <2>3, LoopState, OutcomeExact DEF Inv
<1>5. CASE /\ ~SectionUsable(s) /\ at' = "rejected" /\ text' = text
           /\ Reading(NameOffset(s), NameSize)
      <2>1. \A k \in MetadataSections :
                (\A j \in MetadataSections : k <= j) => k = next
            BY <1>1, <1>2, LoopState
      <2>2. Correct(at', text')
            BY <1>2, <1>5, <2>1 DEF Correct, Decodable, Found
      <2> HIDE DEF s
      <2>3. ReadsInFile' /\ reads' \subseteq Nat \X Nat
            BY <1>1, <1>3, <1>5, LoopState, SizeAssumption DEF ReadsInFile, Reading
      <2> QED BY <1>1, <1>5, <2>2, <2>3, LoopState, OutcomeExact DEF Inv
<1> QED BY <1>4, <1>5 DEF MetadataSection

\* The loop ends without one.
LEMMA NonePreserves ==
    ASSUME Inv, NoSection PROVE Inv'
<1>1. /\ at = "sections" /\ next > Shnum /\ file' = file /\ next' = next
      /\ at' = "rejected" /\ text' = text /\ reads' = reads /\ file \in File
      BY DEF Inv, NoSection, Reject
<1>2. MetadataSections = {}
      BY <1>1, Typed DEF Inv, MetadataSections
<1>3. Correct(at', text')
      BY <1>1, <1>2 DEF Correct, Decodable, Found
<1> QED BY <1>1, <1>3, OutcomeExact DEF Inv, ReadsInFile

LEMMA InvNext == Inv /\ [Next]_vars => Inv'
<1> SUFFICES ASSUME Inv, [Next]_vars PROVE Inv'
    OBVIOUS
<1>1. CASE UNCHANGED vars
      <2>1. /\ file' = file /\ file \in File
            /\ UNCHANGED <<at, next, reads, text>> /\ DecodesMetadata
            BY <1>1 DEF vars, Inv
      <2>2. DecodesMetadata'
            BY <2>1, OutcomeExact
      <2> QED BY <2>1, <2>2, SameFile DEF Inv, ReadsInFile
<1> QED BY <1>1, HeaderPreserves, NamesPreserve, LoopPreserves, MetadataPreserves,
           NonePreserves DEF Next, Terminated

-----------------------------------------------------------------------------
\* For every word width, header layout and file: no read past the header leaves
\* the file.
THEOREM ReadsStayInFile == Spec => []ReadsInFile
<1>1. Inv => ReadsInFile
      BY DEF Inv
<1> QED BY InvInit, InvNext, <1>1, PTL DEF Spec

\* For every word width, header layout and file: the metadata section is found
\* exactly if the format says that there is one.
THEOREM DecodingExact == Spec => []DecodesMetadata
<1>1. Inv => DecodesMetadata
      BY DEF Inv
<1> QED BY InvInit, InvNext, <1>1, PTL DEF Spec

-----------------------------------------------------------------------------
(* Mach-O.                                                                 *)

\* What lies in the slice that is read.
InSlice(r) == r[1] >= base /\ r[1] + r[2] <= end

\* The invariant: the bounds of a slice were checked against the file, and the
\* commands' against the slice; the next command starts among them.
MachOInv ==
    /\ image \in Images
    /\ arch \in Nat \ {0} /\ command \in Nat \ {0}
    /\ SlicesReadApart
    /\ phase \in {"header", "commands"} =>
           base \in Nat /\ end \in Nat /\ base <= end /\ end <= image.size
    /\ phase = "commands" =>
           /\ base \in DOMAIN image.slices
           /\ CommandsEnd <= end
           /\ commandOffset \in Nat
           /\ base <= commandOffset /\ commandOffset <= CommandsEnd

-----------------------------------------------------------------------------
\* As many sections as are left room for take no more than that room.
LEMMA RoomForSections ==
    ASSUME NEW room \in Nat, NEW size \in Nat \ {0}, NEW n \in Nat, n <= room \div size,
           NEW j \in 1 .. n
    PROVE  (j - 1) * size \in Nat /\ (j - 1) * size + size <= room
<1> DEFINE q == room \div size
<1>1. q \in Nat /\ q * size <= room
      BY SMTT(30)
<1>2. j \in Nat /\ j <= q
      BY <1>1
<1> HIDE DEF q
<1>3. j * size <= q * size
      BY <1>1, <1>2, SMTT(30)
<1>4. (j - 1) * size = j * size - size /\ (j - 1) * size \in Nat
      BY <1>2, SMTT(30)
<1>5. j * size <= room
  <2> DEFINE x == j * size
             y == q * size
  <2>1. x \in Int /\ y \in Int /\ x <= y /\ y <= room
        BY <1>1, <1>2, <1>3
  <2> HIDE DEF x, y
  <2>2. x <= room
        BY <2>1
  <2> QED BY <2>2 DEF x
<1> QED BY <1>4, <1>5

LEMMA ImageTyped ==
    ASSUME image \in Images
    PROVE  /\ image.size \in Nat
           /\ \A i \in DOMAIN Arches : Arches[i].offset \in Nat /\ Arches[i].size \in Nat
           /\ \A place \in DOMAIN image.slices :
                  /\ image.slices[place].commandsSize \in Nat
                  /\ image.slices[place].commands \in Seq(Command)
<1>1. image.size \in 0 .. MachWords - 1 /\ image.arches \in Seq(Arch)
      BY ImagesAssumption
<1>2. image.size \in Nat
      BY <1>1, MachSizeAssumption
<1>3. \A i \in DOMAIN Arches : Arches[i].offset \in Nat /\ Arches[i].size \in Nat
  <2>1. CASE image.fat
    <3>1. Arches \in Seq(Arch)
          BY <1>1, <2>1 DEF Arches
    <3>2. \A i \in DOMAIN Arches : Arches[i] \in Arch
          BY <3>1
    <3>3. \A a \in Arch : a.offset \in Nat /\ a.size \in Nat
          BY MachSizeAssumption DEF Arch
    <3> QED BY <3>2, <3>3
  <2>2. CASE ~image.fat
    <3>1. Arches = <<[offset |-> 0, size |-> image.size]>>
          BY <2>2 DEF Arches
    <3> QED BY <3>1, <1>2
  <2> QED BY <2>1, <2>2
<1>4. \A place \in DOMAIN image.slices : image.slices[place] \in Slice
      BY ImagesAssumption
<1> QED BY <1>2, <1>3, <1>4, MachSizeAssumption DEF Slice

\* The command that is read next, which its slice holds.
LEMMA CommandTyped ==
    ASSUME MachOInv, phase = "commands", command <= Len(CurrentSlice.commands)
    PROVE  /\ CurrentSlice.commands[command] \in Command
           /\ CommandsEnd \in Nat
<1>1. /\ CurrentSlice.commandsSize \in Nat /\ CurrentSlice.commands \in Seq(Command)
      /\ base \in Nat /\ command \in Nat \ {0}
      BY ImageTyped DEF MachOInv, CurrentSlice
<1> QED BY <1>1, MachSizeAssumption, SMTT(30) DEF CommandsEnd, CommandsStart

\* All that is read of a usable command lies in the slice.
LEMMA CommandReadsInSlice ==
    ASSUME MachOInv, phase = "commands", NEW c \in Command, CommandsEnd \in Nat, CommandUsable(c)
    PROVE  \A r \in CommandReads(c) : InSlice(r)
<1>1. /\ base \in Nat /\ end \in Nat /\ commandOffset \in Nat
      /\ base <= commandOffset /\ commandOffset <= CommandsEnd /\ CommandsEnd <= end
      BY DEF MachOInv
<1>2. /\ c.size \in Nat /\ c.segment \in BOOLEAN /\ c.sections \in Seq(Section)
      BY MachSizeAssumption DEF Command
<1>3. /\ CommandSize \in Nat \ {0} /\ SegmentSize \in Nat /\ MachSectionSize \in Nat \ {0}
      BY MachSizeAssumption
<1>4. c.size >= CommandSize /\ commandOffset + c.size <= CommandsEnd
      BY <1>1, <1>2, <1>3 DEF CommandUsable
<1>5. InSlice(<<commandOffset, IF c.segment THEN SegmentSize ELSE CommandSize>>)
  <2>1. CASE c.segment
    <3>1. SegmentSize <= c.size
          BY <2>1 DEF CommandUsable
    <3> QED BY <1>1, <1>2, <1>3, <1>4, <2>1, <3>1 DEF InSlice
  <2>2. CASE ~c.segment
        BY <1>1, <1>2, <1>3, <1>4, <2>2 DEF InSlice
  <2> QED BY <2>1, <2>2
<1>6. ASSUME NEW j \in DOMAIN c.sections, c.segment
      PROVE  InSlice(<<commandOffset + SegmentSize + (j - 1) * MachSectionSize, MachSectionSize>>)
  <2> DEFINE before == (j - 1) * MachSectionSize
  <2>1. /\ SegmentSize <= c.size
        /\ Len(c.sections) <= (c.size - SegmentSize) \div MachSectionSize
        BY <1>6 DEF CommandUsable
  <2>2. c.size - SegmentSize \in Nat /\ Len(c.sections) \in Nat /\ j \in 1 .. Len(c.sections)
        BY <1>2, <1>3, <1>6, <2>1
  <2>3. before \in Nat /\ before + MachSectionSize <= c.size - SegmentSize
        BY <1>3, <2>1, <2>2, RoomForSections
  <2> HIDE DEF before
  <2>4. InSlice(<<commandOffset + SegmentSize + before, MachSectionSize>>)
        BY <1>1, <1>2, <1>3, <1>4, <2>3 DEF InSlice
  <2> QED BY <2>4 DEF before
<1> QED BY <1>5, <1>6 DEF CommandReads, SectionReads, Reaches

-----------------------------------------------------------------------------
\* What is read in the slice is read apart from the others.
LEMMA ReadsApart ==
    ASSUME MachOInv, NEW ranges, \A r \in ranges : InSlice(r), end <= image.size,
           ReadsInSlice(ranges), image' = image
    PROVE  SlicesReadApart'
BY DEF MachOInv, SlicesReadApart, ReadsInSlice, InSlice

LEMMA MachOInitInv == MachInit => MachOInv
BY DEF MachInit, MachOInv, SlicesReadApart

LEMMA SliceStep ==
    ASSUME MachOInv, EnterSlice
    PROVE  MachOInv'
<1>1. /\ image' = image /\ command' = command /\ sliceReads' = sliceReads
      /\ phase = "arch" /\ arch \in 1 .. Len(Arches) /\ arch \in Nat \ {0}
      BY DEF MachOInv, EnterSlice
<1> DEFINE a == Arches[arch]
<1>2. a.offset \in Nat /\ a.size \in Nat /\ image.size \in Nat
  <2>1. arch \in DOMAIN Arches
        BY <1>1, ImagesAssumption DEF Arches, MachOInv
  <2> QED BY <2>1, ImageTyped DEF MachOInv
<1>3. SlicesReadApart'
      BY <1>1 DEF MachOInv, SlicesReadApart
<1>4. CASE ~InRange(a.offset, a.size, image.size)
      BY <1>1, <1>3, <1>4 DEF MachOInv, EnterSlice
<1>5. CASE InRange(a.offset, a.size, image.size)
  <2>1. phase' = "header" /\ base' = a.offset /\ end' = a.offset + a.size /\ arch' = arch
        BY <1>5 DEF EnterSlice
  <2>2. a.offset + a.size <= image.size
        BY <1>2, <1>5 DEF InRange
  <2> QED BY <1>1, <1>2, <1>3, <2>1, <2>2 DEF MachOInv
<1> QED BY <1>4, <1>5

LEMMA HeaderStep ==
    ASSUME MachOInv, ReadMachHeader
    PROVE  MachOInv'
<1> DEFINE readable == base \in DOMAIN image.slices /\ InRange(base, MachHeaderSize, end)
           usable == /\ InRange(CommandsStart, CurrentSlice.commandsSize, end)
                     /\ Len(CurrentSlice.commands) * CommandSize <= CurrentSlice.commandsSize
           ranges == IF readable THEN {<<base, MachHeaderSize>>} ELSE {}
<1>1. /\ image' = image /\ base' = base /\ end' = end /\ ReadsInSlice(ranges)
      /\ base \in Nat /\ end \in Nat /\ base <= end /\ end <= image.size
      BY DEF MachOInv, ReadMachHeader
<1>2. \A r \in ranges : InSlice(r)
      BY <1>1, MachSizeAssumption DEF InSlice, InRange
<1> HIDE DEF ranges
<1>3. SlicesReadApart'
      BY <1>1, <1>2, ReadsApart
<1>4. CASE readable /\ usable
  <2>1. phase' = "commands" /\ command' = 1 /\ commandOffset' = CommandsStart /\ arch' = arch
        BY <1>4 DEF ReadMachHeader
  <2>2. CurrentSlice.commandsSize \in Nat
        BY <1>4, ImageTyped DEF MachOInv, CurrentSlice
  <2>3. /\ CommandsStart \in Nat /\ base <= CommandsStart
        /\ CommandsStart <= CommandsEnd /\ CommandsEnd <= end
        BY <1>1, <1>4, <2>2, MachSizeAssumption DEF CommandsStart, CommandsEnd, InRange
  <2>4. CommandsEnd' = CommandsEnd
        BY <1>1 DEF CommandsEnd, CommandsStart, CurrentSlice
  <2> QED BY <1>1, <1>3, <1>4, <2>1, <2>3, <2>4 DEF MachOInv
<1>5. CASE ~(readable /\ usable)
  <2>1. phase' \notin {"header", "commands"} /\ arch' = arch + 1 /\ command' = command
        BY <1>5 DEF ReadMachHeader, SliceFails, AfterFailure
  <2> QED BY <1>1, <1>3, <2>1 DEF MachOInv
<1> QED BY <1>4, <1>5

LEMMA CommandStep ==
    ASSUME MachOInv, ReadCommand
    PROVE  MachOInv'
<1> DEFINE c == CurrentSlice.commands[command]
<1>1. /\ image' = image /\ base' = base /\ end' = end /\ arch' = arch /\ phase' = phase
      /\ phase = "commands" /\ command <= Len(CurrentSlice.commands)
      /\ CommandUsable(c) /\ ReadsInSlice(CommandReads(c))
      /\ command' = command + 1 /\ commandOffset' = commandOffset + c.size
      BY DEF ReadCommand
<1>2. c \in Command /\ CommandsEnd \in Nat
      BY <1>1, CommandTyped
<1>3. SlicesReadApart'
      BY <1>1, <1>2, CommandReadsInSlice, ReadsApart DEF MachOInv
<1>4. c.size \in Nat /\ c.size <= CommandsEnd - commandOffset
      BY <1>1, <1>2, MachSizeAssumption DEF Command, CommandUsable, MachOInv
<1>5. CommandsEnd' = CommandsEnd
      BY <1>1 DEF CommandsEnd, CommandsStart, CurrentSlice
<1> HIDE DEF c
<1> QED BY <1>1, <1>2, <1>3, <1>4, <1>5 DEF MachOInv

LEMMA MetadataStep ==
    ASSUME MachOInv, FindMetadata
    PROVE  MachOInv'
<1> DEFINE c == CurrentSlice.commands[command]
<1>1. /\ image' = image /\ base' = base /\ end' = end
      /\ phase = "commands" /\ command <= Len(CurrentSlice.commands) /\ CommandUsable(c)
      BY DEF FindMetadata
<1>2. c \in Command /\ CommandsEnd \in Nat
      BY <1>1, CommandTyped
<1>3. \A r \in CommandReads(c) : InSlice(r)
      BY <1>1, <1>2, CommandReadsInSlice
<1>4. base \in Nat /\ end \in Nat /\ end <= image.size
      BY <1>1 DEF MachOInv
<1>5. PICK j \in DOMAIN c.sections :
          LET s == c.sections[j]
              bytes == <<SectionStart(s), s.size>>
          IN  IF InRange(SectionStart(s), s.size, end)
              THEN /\ phase' = "found"
                   /\ ReadsInSlice(CommandReads(c) \cup {bytes})
                   /\ UNCHANGED <<arch, command, commandOffset>>
              ELSE SliceFails /\ ReadsInSlice(CommandReads(c))
      BY DEF FindMetadata
<1> DEFINE s == c.sections[j]
           bytes == <<SectionStart(s), s.size>>
<1>6. s.offset \in Nat /\ s.size \in Nat
  <2>1. c.sections \in Seq(Section)
        BY <1>2 DEF Command
  <2>2. s \in Section
        BY <1>5, <2>1
  <2> QED BY <2>2, MachSizeAssumption DEF Section
<1>7. CASE InRange(SectionStart(s), s.size, end)
  <2>1. InSlice(bytes)
        BY <1>4, <1>6, <1>7 DEF InSlice, InRange, SectionStart
  <2>2. /\ phase' = "found" /\ ReadsInSlice(CommandReads(c) \cup {bytes})
        /\ arch' = arch /\ command' = command
        BY <1>5, <1>7
  <2>3. \A r \in CommandReads(c) \cup {bytes} : InSlice(r)
        BY <1>3, <2>1
  <2>4. SlicesReadApart'
        BY <1>1, <1>4, <2>2, <2>3, ReadsApart
  <2> QED BY <1>1, <2>2, <2>4 DEF MachOInv
<1>8. CASE ~InRange(SectionStart(s), s.size, end)
  <2>1. SliceFails /\ ReadsInSlice(CommandReads(c))
        BY <1>5, <1>8
  <2>2. SlicesReadApart'
        BY <1>1, <1>3, <1>4, <2>1, ReadsApart
  <2> QED BY <1>1, <2>1, <2>2 DEF MachOInv, SliceFails, AfterFailure
<1> QED BY <1>7, <1>8

\* The steps that read nothing of a slice.
LEMMA OtherSteps ==
    ASSUME MachOInv, ReadMagic \/ NoSliceLeft \/ CommandsFail \/ UNCHANGED machVars
    PROVE  MachOInv'
<1>1. image' = image /\ sliceReads' = sliceReads /\ base' = base /\ end' = end
      BY DEF ReadMagic, NoSliceLeft, CommandsFail, machVars
<1>2. SlicesReadApart'
      BY <1>1 DEF MachOInv, SlicesReadApart
<1>3. CASE ReadMagic \/ NoSliceLeft
      BY <1>1, <1>2, <1>3 DEF MachOInv, ReadMagic, NoSliceLeft
<1>4. CASE CommandsFail
      BY <1>1, <1>2, <1>4 DEF MachOInv, CommandsFail, SliceFails, AfterFailure
<1>5. CASE UNCHANGED machVars
      BY <1>1, <1>2, <1>5 DEF MachOInv, machVars, CommandsEnd, CommandsStart, CurrentSlice
<1> QED BY <1>3, <1>4, <1>5

\* What read_macho_slice() reads of a slice lies in it, and the slice in the
\* file, for any universal binary.
THEOREM SlicesApart == MachSpec => []SlicesReadApart
<1>1. MachOInv /\ [MachNext]_machVars => MachOInv'
      BY SliceStep, HeaderStep, CommandStep, MetadataStep, OtherSteps DEF MachNext, MachOver
<1>2. MachOInv => SlicesReadApart
      BY DEF MachOInv
<1> QED BY MachOInitInv, <1>1, <1>2, PTL DEF MachSpec

-----------------------------------------------------------------------------
(* The metadata of a Mach-O file.                                          *)

\* Every nonempty set of natural numbers has a least element.
LEMMA LeastNumber ==
    ASSUME NEW T, T \subseteq Nat, T # {}
    PROVE  \E x \in T : \A y \in T : ~(y < x)
<1>1. IsWellFoundedOn(OpToRel(<,Nat), Nat)
      BY NatLessThanWellFounded
<1>2. \E x \in T : \A y \in T : ~(<<y, x>> \in OpToRel(<,Nat))
      BY <1>1, WFMin
<1> QED BY <1>2 DEF OpToRel

\* The sums of the sizes up to the m-th command.
Sums(f, m, commands) ==
    /\ f \in [0 .. m -> Nat] /\ f[0] = MachHeaderSize
    /\ \A n \in 1 .. m : f[n] = f[n - 1] + commands[n].size

\* Commands of any number have such sums.
LEMMA SumsExist ==
    ASSUME NEW commands \in Seq(Command)
    PROVE  \E f : Sums(f, Len(commands), commands)
<1> DEFINE N == Len(commands)
           T == {m \in 0 .. N : ~\E f : Sums(f, m, commands)}
<1>1. N \in Nat /\ MachHeaderSize \in Nat
      BY MachSizeAssumption
<1>2. \A n \in 1 .. N : commands[n].size \in Nat
  <2>1. \A n \in 1 .. N : commands[n] \in Command
        OBVIOUS
  <2> QED BY <2>1, MachSizeAssumption DEF Command
<1>3. ASSUME T # {} PROVE FALSE
  <2>1. T \subseteq Nat
        BY <1>1
  <2> HIDE DEF T
  <2>2. PICK m \in T : \A y \in T : ~(y < m)
        BY <1>3, <2>1, LeastNumber
  <2> USE DEF T
  <2>3. m \in 0 .. N /\ m \in Nat
        BY <1>1, <2>2
  <2>4. CASE m = 0
    <3> DEFINE f == [n \in 0 .. 0 |-> MachHeaderSize]
    <3>1. f \in [0 .. 0 -> Nat] /\ f[0] = MachHeaderSize /\ 1 .. 0 = {}
          BY <1>1
    <3> HIDE DEF f
    <3>2. Sums(f, 0, commands)
          BY <3>1 DEF Sums
    <3> QED BY <2>2, <2>4, <3>2
  <2>5. CASE m # 0
    <3>1. m \in 1 .. N /\ m - 1 \in 0 .. N /\ m - 1 < m
          BY <1>1, <2>3, <2>5
    <3>2. PICK g : Sums(g, m - 1, commands)
          BY <2>2, <3>1
    <3> DEFINE f == [n \in 0 .. m |-> IF n = m THEN g[m - 1] + commands[m].size ELSE g[n]]
    <3>3. g[m - 1] \in Nat /\ \A n \in 0 .. m - 1 : g[n] \in Nat
          BY <3>1, <3>2 DEF Sums
    <3>4. f \in [0 .. m -> Nat] /\ f[0] = MachHeaderSize
          BY <1>2, <3>1, <3>2, <3>3 DEF Sums
    <3>5. ASSUME NEW n \in 1 .. m
          PROVE  f[n] = f[n - 1] + commands[n].size
      <4>1. CASE n = m
            BY <3>1, <4>1
      <4>2. CASE n # m
        <5>1. n \in 1 .. m - 1 /\ f[n] = g[n] /\ f[n - 1] = g[n - 1]
              BY <3>1, <4>2
        <5> QED BY <3>2, <5>1 DEF Sums
      <4> QED BY <4>1, <4>2
    <3> HIDE DEF f
    <3>6. Sums(f, m, commands)
          BY <3>4, <3>5 DEF Sums
    <3> QED BY <2>2, <3>6
  <2> QED BY <2>4, <2>5
<1>4. N \in 0 .. N
      BY <1>1
<1> QED BY <1>3, <1>4

\* Each command starts where the one before it ends.
LEMMA StartsFollow ==
    ASSUME NEW slice, slice.commands \in Seq(Command)
    PROVE  /\ CommandStart(slice, 1) = MachHeaderSize
           /\ \A k \in 1 .. Len(slice.commands) :
                  /\ CommandStart(slice, k + 1) = CommandStart(slice, k) + slice.commands[k].size
                  /\ CommandStart(slice, k) \in Nat /\ CommandStart(slice, k + 1) \in Nat
<1> DEFINE N == Len(slice.commands)
           Def(f) == f = [n \in 0 .. N |->
                             IF n = 0 THEN MachHeaderSize ELSE f[n - 1] + slice.commands[n].size]
           sum == CHOOSE f : Def(f)
<1>1. PICK g : Sums(g, N, slice.commands)
      BY SumsExist
<1>2. N \in Nat
      OBVIOUS
<1>3. Def(g)
  <2>1. g = [n \in 0 .. N |-> g[n]]
        BY <1>1 DEF Sums
  <2>2. \A n \in 0 .. N : g[n] = IF n = 0 THEN MachHeaderSize ELSE g[n - 1] + slice.commands[n].size
        BY <1>1, <1>2 DEF Sums
  <2> QED BY <2>1, <2>2
<1>4. Def(sum)
      BY <1>3
<1>5. \A k : CommandStart(slice, k) = sum[k - 1]
      BY DEF CommandStart
<1> HIDE DEF sum
<1>6. sum[0] = MachHeaderSize
      BY <1>2, <1>4
<1>7. \A n \in 1 .. N : sum[n] = sum[n - 1] + slice.commands[n].size
      BY <1>2, <1>4
<1> DEFINE T == {m \in 0 .. N : sum[m] # g[m]}
<1>8. ASSUME T # {} PROVE FALSE
  <2>1. T \subseteq Nat
        BY <1>2
  <2> HIDE DEF T
  <2>2. PICK m \in T : \A y \in T : ~(y < m)
        BY <1>8, <2>1, LeastNumber
  <2> USE DEF T
  <2>3. m \in 0 .. N /\ m # 0
        BY <1>1, <1>6, <2>2 DEF Sums
  <2>4. m \in 1 .. N /\ m - 1 \in 0 .. N /\ m - 1 < m
        BY <1>2, <2>3
  <2>5. sum[m - 1] = g[m - 1]
        BY <2>2, <2>4
  <2> QED BY <1>1, <1>7, <2>2, <2>4, <2>5 DEF Sums
<1>9. \A m \in 0 .. N : sum[m] \in Nat
      BY <1>1, <1>8 DEF Sums
<1>10. CommandStart(slice, 1) = MachHeaderSize
  <2>1. 1 - 1 = 0
        OBVIOUS
  <2> QED BY <1>5, <1>6, <2>1
<1>11. ASSUME NEW k \in 1 .. N
       PROVE  /\ CommandStart(slice, k + 1) = CommandStart(slice, k) + slice.commands[k].size
              /\ CommandStart(slice, k) \in Nat /\ CommandStart(slice, k + 1) \in Nat
  <2>1. k - 1 \in 0 .. N /\ k \in 0 .. N /\ (k + 1) - 1 = k
        BY <1>2
  <2> HIDE DEF N
  <2>2. CommandStart(slice, k) = sum[k - 1] /\ CommandStart(slice, k + 1) = sum[k]
        BY <1>5, <2>1
  <2>3. sum[k] = sum[k - 1] + slice.commands[k].size
        BY <1>7
  <2> QED BY <1>9, <2>1, <2>2, <2>3
<1> QED BY <1>10, <1>11

\* A number of sections fits into a room exactly if their sizes do.
LEMMA RoomExact ==
    ASSUME NEW room \in Nat, NEW size \in Nat \ {0}, NEW n \in Nat
    PROVE  n <= room \div size <=> n * size <= room
<1> DEFINE q == room \div size
<1>1. q \in Nat /\ q * size <= room /\ room < (q + 1) * size
      BY SMTT(30)
<1> HIDE DEF q
<1>2. n <= q => n * size <= q * size
      BY <1>1, SMTT(30)
<1>3. n > q => (q + 1) * size <= n * size
      BY <1>1, SMTT(30)
<1> DEFINE x == n * size
           y == q * size
           z == (q + 1) * size
<1>4. x \in Nat /\ y \in Nat /\ z \in Nat
      BY <1>1
<1>5. (n <= q => x <= y) /\ (n > q => z <= x) /\ y <= room /\ room < z
      BY <1>1, <1>2, <1>3
<1> HIDE DEF x, y, z
<1>6. n <= q <=> x <= room
      BY <1>1, <1>4, <1>5
<1> QED BY <1>6 DEF q, x

-----------------------------------------------------------------------------
(* The slices, one after the other.                                        *)

Usable(i) == TableEnd <= image.size /\ MetadataOf(Arches[i]) # {}

\* The invariant: the slices before the current one have no metadata, nor have the
\* commands before the current one, which are whole and end where it starts.
Walk ==
    /\ phase \in {"magic", "arch", "header", "commands", "found", "rejected"}
    /\ phase = "magic" => arch = 1
    /\ phase \in {"arch", "header", "commands"} =>
           /\ TableEnd <= image.size
           /\ \A i \in DOMAIN Arches : i < arch => MetadataOf(Arches[i]) = {}
    /\ phase \in {"header", "commands"} =>
           arch \in DOMAIN Arches /\ base = Arches[arch].offset /\ end = base + Arches[arch].size
    /\ phase = "commands" =>
           /\ command - 1 \in 0 .. Len(CurrentSlice.commands)
           /\ MachHeaderSize + CurrentSlice.commandsSize <= Arches[arch].size
           /\ Len(CurrentSlice.commands) * CommandSize <= CurrentSlice.commandsSize
           /\ commandOffset = base + CommandStart(CurrentSlice, command)
           /\ \A k \in 1 .. command - 1 :
                  CommandWhole(CurrentSlice, k) /\ ~HasMetadata(CurrentSlice.commands[k])
    /\ DecodesFirstSlice

Outcome(p, x) ==
    /\ p = "found" => \E i \in DOMAIN Arches :
                          /\ Usable(i) /\ x \in MetadataOf(Arches[i])
                          /\ \A j \in DOMAIN Arches : Usable(j) => i <= j
    /\ p = "rejected" => \A i \in DOMAIN Arches : ~Usable(i)

\* The slices are those of the image, and so is what the outcome has to be.
LEMMA SlicesFixed ==
    ASSUME image' = image
    PROVE  /\ Arches' = Arches /\ TableEnd' = TableEnd
           /\ \A a : MetadataOf(a)' = MetadataOf(a)
           /\ DecodesFirstSlice <=> Outcome(phase, machText)
           /\ DecodesFirstSlice' <=> Outcome(phase', machText')
<1>1. Arches' = Arches /\ TableEnd' = TableEnd
      BY DEF Arches, TableEnd
<1>2. \A a : MetadataOf(a)' = MetadataOf(a)
      BY DEF MetadataOf
<1>3. DecodesFirstSlice <=> Outcome(phase, machText)
      BY DEF DecodesFirstSlice, Outcome, Usable
<1>4. DecodesFirstSlice' <=> Outcome(phase', machText')
  <2> DEFINE use == {i \in DOMAIN Arches : TableEnd <= image.size /\ MetadataOf(Arches[i]) # {}}
  <2>1. {i \in DOMAIN Arches : TableEnd <= image.size /\ MetadataOf(Arches[i]) # {}}' = use
        BY <1>1, <1>2
  <2>2. DecodesFirstSlice' <=>
            /\ phase' = "found" =>
                   \E i \in use : (\A j \in use : i <= j) /\ machText' \in MetadataOf(Arches[i])
            /\ phase' = "rejected" => use = {}
        BY <1>1, <1>2, <2>1 DEF DecodesFirstSlice
  <2> QED BY <2>2 DEF Outcome, Usable
<1> QED BY <1>1, <1>2, <1>3, <1>4

\* The slice that is being read.
LEMMA SliceState ==
    ASSUME MachOInv, Walk, phase \in {"header", "commands"}
    PROVE  /\ base \in Nat /\ end \in Nat /\ arch \in DOMAIN Arches /\ arch \in Nat
           /\ Arches[arch].offset = base /\ Arches[arch].size = end - base
           /\ Arches[arch].size \in Nat
           /\ base + Arches[arch].size <= image.size
           /\ base \in DOMAIN image.slices =>
                  /\ CurrentSlice.commandsSize \in Nat
                  /\ CurrentSlice.commands \in Seq(Command)
<1>1. /\ base \in Nat /\ end \in Nat /\ end <= image.size /\ image \in Images
      /\ arch \in DOMAIN Arches /\ arch \in Nat
      /\ base = Arches[arch].offset /\ end = base + Arches[arch].size
      BY DEF MachOInv, Walk
<1>2. Arches[arch].size \in Nat
      BY <1>1, ImageTyped
<1> QED BY <1>1, <1>2, ImageTyped DEF CurrentSlice

\* The metadata of the slice that is being read.
Texts ==
    {<<base + MetadataIn(CurrentSlice.commands[k]).offset,
       MetadataIn(CurrentSlice.commands[k]).size>> :
         k \in {x \in DOMAIN CurrentSlice.commands :
                    /\ FirstWithMetadata(CurrentSlice, x)
                    /\ \A j \in 1 .. x : CommandWhole(CurrentSlice, j)
                    /\ MachHeaderSize + CurrentSlice.commandsSize <= Arches[arch].size
                    /\ Len(CurrentSlice.commands) * CommandSize <= CurrentSlice.commandsSize
                    /\ MetadataIn(CurrentSlice.commands[x]).offset
                           + MetadataIn(CurrentSlice.commands[x]).size <= Arches[arch].size}}

LEMMA TextsOfSlice ==
    ASSUME MachOInv, Walk, phase \in {"header", "commands"}
    PROVE  MetadataOf(Arches[arch]) = IF base \in DOMAIN image.slices THEN Texts ELSE {}
<1>1. /\ Arches[arch].offset = base /\ base + Arches[arch].size <= image.size
      /\ base \in Nat /\ Arches[arch].size \in Nat /\ image.size \in Nat
      BY SliceState, ImageTyped DEF MachOInv
<1>2. ~(base + Arches[arch].size > image.size)
      BY <1>1
<1> QED BY <1>1, <1>2, Zenon DEF MetadataOf, Texts, CurrentSlice


-----------------------------------------------------------------------------
(* The commands of a slice.                                                *)

LEMMA CommandState ==
    ASSUME MachOInv, Walk, phase = "commands", command <= Len(CurrentSlice.commands)
    PROVE  /\ command \in DOMAIN CurrentSlice.commands /\ command \in Nat
           /\ CurrentSlice.commands[command] \in Command
           /\ CommandStart(CurrentSlice, command) \in Nat
           /\ CommandStart(CurrentSlice, command + 1) =
                  CommandStart(CurrentSlice, command) + CurrentSlice.commands[command].size
           /\ commandOffset = base + CommandStart(CurrentSlice, command)
           /\ CommandsEnd = base + (MachHeaderSize + CurrentSlice.commandsSize)
<1>1. /\ base \in DOMAIN image.slices /\ command \in Nat \ {0}
      /\ commandOffset = base + CommandStart(CurrentSlice, command)
      BY DEF MachOInv, Walk
<1>2. CurrentSlice.commandsSize \in Nat /\ CurrentSlice.commands \in Seq(Command) /\ base \in Nat
      BY <1>1, SliceState
<1>3. command \in 1 .. Len(CurrentSlice.commands)
      BY <1>1, <1>2
<1>4. CommandsEnd = base + (MachHeaderSize + CurrentSlice.commandsSize)
      BY <1>2, MachSizeAssumption DEF CommandsEnd, CommandsStart
<1> QED BY <1>1, <1>2, <1>3, <1>4, StartsFollow

\* The checks of a command are those the format asks for.
LEMMA WholeExact ==
    ASSUME MachOInv, Walk, phase = "commands", command <= Len(CurrentSlice.commands)
    PROVE  CommandUsable(CurrentSlice.commands[command]) <=> CommandWhole(CurrentSlice, command)
<1> DEFINE c == CurrentSlice.commands[command]
           start == CommandStart(CurrentSlice, command)
           all == MachHeaderSize + CurrentSlice.commandsSize
<1>1. /\ c \in Command /\ start \in Nat /\ base \in Nat
      /\ commandOffset = base + start /\ CommandsEnd = base + all
      BY CommandState, SliceState
<1>2. all \in Nat
      BY SliceState, MachSizeAssumption DEF MachOInv
<1>3. /\ CommandSize \in Nat \ {0} /\ SegmentSize \in Nat /\ MachSectionSize \in Nat \ {0}
      BY MachSizeAssumption
<1>4. c.size \in Nat /\ c.segment \in BOOLEAN /\ Len(c.sections) \in Nat
  <2>1. c.size \in Nat /\ c.segment \in BOOLEAN /\ c.sections \in Seq(Section)
        BY <1>1, MachSizeAssumption DEF Command
  <2> QED BY <2>1
<1> DEFINE n == Len(c.sections)
           room == c.size - SegmentSize
<1>5. SegmentSize <= c.size =>
          (n <= room \div MachSectionSize <=> SegmentSize + n * MachSectionSize <= c.size)
  <2> SUFFICES ASSUME SegmentSize <= c.size
               PROVE  n <= room \div MachSectionSize <=> SegmentSize + n * MachSectionSize <= c.size
      OBVIOUS
  <2>1. room \in Nat /\ n \in Nat /\ room = c.size - SegmentSize
        BY <1>3, <1>4
  <2> HIDE DEF n, room
  <2>2. n <= room \div MachSectionSize <=> n * MachSectionSize <= room
        BY <1>3, <2>1, RoomExact
  <2>3. n * MachSectionSize \in Nat
        BY <1>3, <2>1
  <2> QED BY <1>3, <1>4, <2>1, <2>2, <2>3
<1>6. SegmentSize + n * MachSectionSize <= c.size => SegmentSize <= c.size
  <2>1. n * MachSectionSize \in Nat
        BY <1>3, <1>4
  <2> QED BY <1>3, <1>4, <2>1
<1>7. CommandUsable(c) <=>
          /\ base + start <= base + all /\ CommandSize <= (base + all) - (base + start)
          /\ CommandSize <= c.size /\ c.size <= (base + all) - (base + start)
          /\ c.segment => SegmentSize <= c.size /\ n <= room \div MachSectionSize
  <2>1. c.size \in CommandSize .. CommandsEnd - commandOffset <=>
            CommandSize <= c.size /\ c.size <= CommandsEnd - commandOffset
        BY <1>1, <1>2, <1>3, <1>4
  <2> QED BY <1>1, <2>1 DEF CommandUsable, InRange
<1>8. CommandWhole(CurrentSlice, command) <=>
          /\ c.size >= CommandSize /\ start + c.size <= all
          /\ c.segment => SegmentSize + n * MachSectionSize <= c.size
      BY DEF CommandWhole
<1> DEFINE fits == n <= room \div MachSectionSize
           ends == SegmentSize + n * MachSectionSize <= c.size
           size == c.size
<1>9. /\ SegmentSize <= size => (fits <=> ends)
      /\ ends => SegmentSize <= size
      BY <1>5, <1>6
<1> HIDE DEF fits, ends, size, start, all
<1>10. CommandUsable(c) <=>
          /\ base + start <= base + all /\ CommandSize <= (base + all) - (base + start)
          /\ CommandSize <= size /\ size <= (base + all) - (base + start)
          /\ c.segment => SegmentSize <= size /\ fits
      BY <1>7 DEF fits, size
<1>11. CommandWhole(CurrentSlice, command) <=>
          /\ size >= CommandSize /\ start + size <= all
          /\ c.segment => ends
      BY <1>8 DEF ends, size
<1>12. size \in Nat
      BY <1>4 DEF size
<1> QED BY <1>1, <1>2, <1>3, <1>9, <1>10, <1>11, <1>12

\* The metadata section that is reached is the first.
LEMMA SectionFirst ==
    ASSUME NEW c \in Command, NEW j \in DOMAIN c.sections,
           Reaches(c, j), c.sections[j].metadata
    PROVE  HasMetadata(c) /\ MetadataIn(c) = c.sections[j]
<1>1. c.sections \in Seq(Section) /\ DOMAIN c.sections = 1 .. Len(c.sections)
      BY DEF Command
<1>2. HasMetadata(c)
      BY DEF HasMetadata, Reaches, ToSet
<1>3. ASSUME NEW i \in DOMAIN c.sections, Reaches(c, i), c.sections[i].metadata
      PROVE  i = j
  <2>1. ~(i \in 1 .. j - 1) /\ ~(j \in 1 .. i - 1)
        BY <1>3 DEF Reaches
  <2> QED BY <1>1, <2>1
<1>4. (CHOOSE i \in DOMAIN c.sections : c.sections[i].metadata /\ Reaches(c, i)) = j
      BY <1>3
<1> QED BY <1>2, <1>4 DEF MetadataIn


-----------------------------------------------------------------------------
(* The steps.                                                              *)

\* A slice without metadata gives way to the next.
LEMMA SliceGivesWay ==
    ASSUME MachOInv, Walk, image' = image, phase \in {"arch", "header", "commands"},
           arch \in DOMAIN Arches, MetadataOf(Arches[arch]) = {},
           phase' = "arch", arch' = arch + 1
    PROVE  Walk'
<1>1. /\ TableEnd <= image.size /\ arch \in Nat /\ Arches' = Arches /\ TableEnd' = TableEnd
      /\ \A a : MetadataOf(a)' = MetadataOf(a)
      /\ \A i \in DOMAIN Arches : i < arch => MetadataOf(Arches[i]) = {}
      BY SlicesFixed DEF Walk, MachOInv
<1>2. \A i \in DOMAIN Arches : i < arch + 1 => i < arch \/ i = arch
  <2>1. DOMAIN Arches \subseteq Nat
        BY ImageTyped, ImagesAssumption DEF Arches, MachOInv
  <2> QED BY <1>1, <2>1
<1>3. DecodesFirstSlice'
      BY SlicesFixed DEF Outcome
<1> QED BY <1>1, <1>2, <1>3 DEF Walk

LEMMA WalkInit == MachInit => Walk
<1> SUFFICES ASSUME MachInit PROVE Walk
    OBVIOUS
<1>1. phase = "magic" /\ arch = 1
      BY DEF MachInit
<1>2. DecodesFirstSlice
      BY <1>1 DEF DecodesFirstSlice
<1> QED BY <1>1, <1>2 DEF Walk

LEMMA WalkMagic ==
    ASSUME MachOInv, Walk, ReadMagic
    PROVE  Walk'
<1> DEFINE table == Len(image.arches) * ArchSize
           fits == /\ InRange(0, FatHeaderSize, image.size)
                   /\ image.fat => InRange(FatHeaderSize, table, image.size)
<1>1. /\ image' = image /\ arch' = arch /\ arch = 1
      /\ phase' = IF fits THEN "arch" ELSE "rejected"
      BY DEF ReadMagic, Walk
<1>2. /\ image.size \in Nat /\ image.fat \in BOOLEAN /\ Len(image.arches) \in Nat
      /\ image.arches \in Seq(Arch)
      BY ImageTyped, ImagesAssumption DEF MachOInv
<1>3. table \in Nat /\ FatHeaderSize \in Nat \ {0}
      BY <1>2, MachSizeAssumption
<1>4. fits <=> TableEnd <= image.size
  <2> HIDE DEF table
  <2>1. TableEnd = FatHeaderSize + IF image.fat THEN table ELSE 0
        BY DEF TableEnd, table
  <2>2. CASE image.fat
        BY <1>2, <1>3, <2>1, <2>2 DEF InRange
  <2>3. CASE ~image.fat
        BY <1>2, <1>3, <2>1, <2>3 DEF InRange
  <2> QED BY <1>2, <2>2, <2>3
<1>5. DOMAIN Arches \subseteq Nat \ {0}
      BY <1>2 DEF Arches
<1> HIDE DEF fits, table
<1>6. Arches' = Arches /\ TableEnd' = TableEnd /\ \A a : MetadataOf(a)' = MetadataOf(a)
      BY <1>1, SlicesFixed
<1>7. Outcome(phase', machText')
      BY <1>1, <1>4 DEF Outcome, Usable
<1>8. DecodesFirstSlice'
      BY <1>1, <1>7, SlicesFixed
<1>9. \A i \in DOMAIN Arches : ~(i < 1)
      BY <1>5
<1> QED BY <1>1, <1>4, <1>6, <1>8, <1>9 DEF Walk

LEMMA WalkSlice ==
    ASSUME MachOInv, Walk, EnterSlice
    PROVE  Walk'
<1> DEFINE a == Arches[arch]
<1>1. /\ image' = image /\ phase = "arch" /\ arch \in Nat \ {0} /\ arch <= Len(Arches)
      BY DEF EnterSlice, MachOInv
<1>2. arch \in DOMAIN Arches
      BY <1>1, ImagesAssumption DEF Arches, MachOInv
<1>3. a.offset \in Nat /\ a.size \in Nat /\ image.size \in Nat
      BY <1>2, ImageTyped DEF MachOInv
<1>4. InRange(a.offset, a.size, image.size) <=> a.offset + a.size <= image.size
      BY <1>3 DEF InRange
<1>5. Arches' = Arches /\ TableEnd' = TableEnd /\ \A x : MetadataOf(x)' = MetadataOf(x)
      BY <1>1, SlicesFixed
<1>6. CASE ~InRange(a.offset, a.size, image.size)
  <2>1. phase' = phase /\ arch' = arch + 1
        BY <1>6 DEF EnterSlice
  <2>2. MetadataOf(a) = {}
        BY <1>3, <1>4, <1>6 DEF MetadataOf
  <2> QED BY <1>1, <1>2, <2>1, <2>2, SliceGivesWay
<1>7. CASE InRange(a.offset, a.size, image.size)
  <2>1. phase' = "header" /\ base' = a.offset /\ end' = a.offset + a.size /\ arch' = arch
        BY <1>7 DEF EnterSlice
  <2>2. DecodesFirstSlice'
        BY <1>1, <2>1, SlicesFixed DEF Outcome
  <2> QED BY <1>1, <1>2, <1>5, <2>1, <2>2 DEF Walk
<1> QED BY <1>6, <1>7

LEMMA WalkNone ==
    ASSUME MachOInv, Walk, NoSliceLeft
    PROVE  Walk'
<1>1. /\ image' = image /\ phase = "arch" /\ phase' = "rejected" /\ arch > Len(Arches)
      /\ arch \in Nat
      BY DEF NoSliceLeft, MachOInv
<1>2. \A i \in DOMAIN Arches : i < arch
      BY <1>1, ImagesAssumption DEF Arches, MachOInv
<1>3. Outcome(phase', machText')
      BY <1>1, <1>2 DEF Outcome, Usable, Walk
<1>4. DecodesFirstSlice'
      BY <1>1, <1>3, SlicesFixed
<1> QED BY <1>1, <1>4 DEF Walk

LEMMA WalkHeader ==
    ASSUME MachOInv, Walk, ReadMachHeader
    PROVE  Walk'
<1> DEFINE readable == base \in DOMAIN image.slices /\ InRange(base, MachHeaderSize, end)
           usable == /\ InRange(CommandsStart, CurrentSlice.commandsSize, end)
                     /\ Len(CurrentSlice.commands) * CommandSize <= CurrentSlice.commandsSize
<1>1. image' = image /\ base' = base /\ end' = end /\ phase = "header"
      BY DEF ReadMachHeader
<1>2. /\ base \in Nat /\ end \in Nat /\ arch \in DOMAIN Arches /\ arch \in Nat
      /\ Arches[arch].offset = base /\ Arches[arch].size = end - base
      BY <1>1, SliceState
<1>3. base \in DOMAIN image.slices =>
          CurrentSlice.commandsSize \in Nat /\ CurrentSlice.commands \in Seq(Command)
      BY <1>1, SliceState
<1>4. base \in DOMAIN image.slices =>
          (InRange(base, MachHeaderSize, end) /\ InRange(CommandsStart, CurrentSlice.commandsSize, end)
               <=> MachHeaderSize + CurrentSlice.commandsSize <= end - base)
      BY <1>2, <1>3, MachSizeAssumption DEF InRange, CommandsStart
<1>5. Arches' = Arches /\ TableEnd' = TableEnd /\ \A x : MetadataOf(x)' = MetadataOf(x)
      BY <1>1, SlicesFixed
<1>6. CASE readable /\ usable
  <2>1. phase' = "commands" /\ command' = 1 /\ commandOffset' = CommandsStart /\ arch' = arch
        BY <1>6 DEF ReadMachHeader
  <2>2. CurrentSlice' = CurrentSlice
        BY <1>1 DEF CurrentSlice
  <2>3. CommandStart(CurrentSlice, 1) = MachHeaderSize /\ 1 - 1 \in 0 .. Len(CurrentSlice.commands)
        BY <1>3, <1>6, StartsFollow
  <2>4. DecodesFirstSlice'
        BY <1>1, <2>1, SlicesFixed DEF Outcome
  <2>5. commandOffset' = base + CommandStart(CurrentSlice, 1)
        BY <2>1, <2>3 DEF CommandsStart
  <2>6. 1 .. 1 - 1 = {}
        OBVIOUS
  <2>7. MachHeaderSize + CurrentSlice.commandsSize <= Arches[arch].size
        BY <1>2, <1>4, <1>6
  <2> QED BY <1>1, <1>2, <1>5, <1>6, <2>1, <2>2, <2>3, <2>4, <2>5, <2>6, <2>7
          DEF Walk, CommandWhole
<1>7. CASE ~(readable /\ usable)
  <2>1. phase' = "arch" /\ arch' = arch + 1
        BY <1>7 DEF ReadMachHeader, SliceFails, AfterFailure
  <2>2. Texts = {} \/ base \notin DOMAIN image.slices
    <3>1. base \in DOMAIN image.slices =>
              ~(/\ MachHeaderSize + CurrentSlice.commandsSize <= Arches[arch].size
                /\ Len(CurrentSlice.commands) * CommandSize <= CurrentSlice.commandsSize)
          BY <1>2, <1>4, <1>7
    <3> QED BY <3>1 DEF Texts
  <2>3. MetadataOf(Arches[arch]) = {}
        BY <1>1, <2>2, TextsOfSlice
  <2> QED BY <1>1, <1>2, <2>1, <2>3, SliceGivesWay
<1> QED BY <1>6, <1>7


LEMMA WalkCommand ==
    ASSUME MachOInv, Walk, ReadCommand
    PROVE  Walk'
<1> DEFINE c == CurrentSlice.commands[command]
<1>1. /\ image' = image /\ phase = "commands" /\ phase' = phase /\ arch' = arch
      /\ base' = base /\ end' = end /\ command <= Len(CurrentSlice.commands)
      /\ CommandUsable(c) /\ ~HasMetadata(c)
      /\ command' = command + 1 /\ commandOffset' = commandOffset + c.size
      BY DEF ReadCommand
<1>2. /\ command \in DOMAIN CurrentSlice.commands /\ command \in Nat /\ c \in Command
      /\ CommandStart(CurrentSlice, command) \in Nat
      /\ CommandStart(CurrentSlice, command + 1) = CommandStart(CurrentSlice, command) + c.size
      /\ commandOffset = base + CommandStart(CurrentSlice, command)
      BY <1>1, CommandState
<1>3. base \in Nat /\ CurrentSlice.commands \in Seq(Command)
      BY <1>1, SliceState DEF MachOInv
<1>4. c.size \in Nat
      BY <1>2, MachSizeAssumption DEF Command
<1>5. CommandWhole(CurrentSlice, command)
      BY <1>1, WholeExact
<1>6. Arches' = Arches /\ TableEnd' = TableEnd /\ \A x : MetadataOf(x)' = MetadataOf(x)
      BY <1>1, SlicesFixed
<1>7. CurrentSlice' = CurrentSlice
      BY <1>1 DEF CurrentSlice
<1>8. DecodesFirstSlice'
      BY <1>1, SlicesFixed DEF Outcome
<1>9. commandOffset' = base + CommandStart(CurrentSlice, command + 1)
      BY <1>1, <1>2, <1>3, <1>4
<1>10. \A k \in 1 .. (command + 1) - 1 :
           CommandWhole(CurrentSlice, k) /\ ~HasMetadata(CurrentSlice.commands[k])
  <2>1. \A k \in 1 .. (command + 1) - 1 : k \in 1 .. command - 1 \/ k = command
        BY <1>2
  <2> QED BY <1>1, <1>5, <2>1 DEF Walk
<1>11. (command + 1) - 1 \in 0 .. Len(CurrentSlice.commands)
      BY <1>2, <1>3
<1> QED BY <1>1, <1>6, <1>7, <1>8, <1>9, <1>10, <1>11 DEF Walk, CommandWhole

\* Only the current command can have the first metadata of its slice.
LEMMA TextsOfCommand ==
    ASSUME MachOInv, Walk, phase = "commands"
    PROVE  \A k \in DOMAIN CurrentSlice.commands :
               FirstWithMetadata(CurrentSlice, k) /\ (\A j \in 1 .. k : CommandWhole(CurrentSlice, j)) =>
                   /\ command <= k
                   /\ command <= Len(CurrentSlice.commands)
                   /\ CommandWhole(CurrentSlice, command)
                   /\ HasMetadata(CurrentSlice.commands[command]) => k = command
<1>1. /\ command \in Nat \ {0} /\ CurrentSlice.commands \in Seq(Command)
      /\ \A k \in 1 .. command - 1 : ~HasMetadata(CurrentSlice.commands[k])
      BY SliceState DEF MachOInv, Walk
<1>2. DOMAIN CurrentSlice.commands = 1 .. Len(CurrentSlice.commands)
      /\ Len(CurrentSlice.commands) \in Nat
      BY <1>1
<1> SUFFICES ASSUME NEW k \in DOMAIN CurrentSlice.commands,
                    FirstWithMetadata(CurrentSlice, k),
                    \A j \in 1 .. k : CommandWhole(CurrentSlice, j)
             PROVE  /\ command <= k
                    /\ command <= Len(CurrentSlice.commands)
                    /\ CommandWhole(CurrentSlice, command)
                    /\ HasMetadata(CurrentSlice.commands[command]) => k = command
    OBVIOUS
<1>3. k \in 1 .. Len(CurrentSlice.commands) /\ HasMetadata(CurrentSlice.commands[k])
      /\ \A j \in 1 .. k - 1 : ~HasMetadata(CurrentSlice.commands[j])
      BY <1>2 DEF FirstWithMetadata
<1>4. command <= k
      BY <1>1, <1>2, <1>3
<1>5. command \in 1 .. k /\ (command # k => command \in 1 .. k - 1)
      BY <1>1, <1>2, <1>3, <1>4
<1> QED BY <1>2, <1>3, <1>4, <1>5

LEMMA WalkCommandsFail ==
    ASSUME MachOInv, Walk, CommandsFail
    PROVE  Walk'
<1>1. /\ image' = image /\ phase = "commands" /\ phase' = "arch" /\ arch' = arch + 1
      BY DEF CommandsFail, SliceFails, AfterFailure
<1>2. command <= Len(CurrentSlice.commands) => ~CommandWhole(CurrentSlice, command)
      BY <1>1, WholeExact DEF CommandsFail
<1>3. Texts = {}
      BY <1>1, <1>2, TextsOfCommand DEF Texts
<1>4. MetadataOf(Arches[arch]) = {} /\ arch \in DOMAIN Arches
      BY <1>1, <1>3, TextsOfSlice, SliceState
<1> QED BY <1>1, <1>4, SliceGivesWay

LEMMA WalkMetadata ==
    ASSUME MachOInv, Walk, FindMetadata
    PROVE  Walk'
<1> DEFINE c == CurrentSlice.commands[command]
<1>1. /\ image' = image /\ phase = "commands" /\ base' = base /\ end' = end
      /\ command <= Len(CurrentSlice.commands) /\ CommandUsable(c)
      BY DEF FindMetadata
<1>2. PICK j \in DOMAIN c.sections :
          /\ Reaches(c, j) /\ c.sections[j].metadata
          /\ IF InRange(SectionStart(c.sections[j]), c.sections[j].size, end)
             THEN /\ phase' = "found"
                  /\ machText' = <<SectionStart(c.sections[j]), c.sections[j].size>>
             ELSE phase' = "arch" /\ arch' = arch + 1
      BY DEF FindMetadata, SliceFails, AfterFailure
<1> DEFINE s == c.sections[j]
           bytes == <<base + s.offset, s.size>>
<1>3. command \in DOMAIN CurrentSlice.commands /\ command \in Nat /\ c \in Command
      BY <1>1, CommandState
<1>4. HasMetadata(c) /\ MetadataIn(c) = s
      BY <1>2, <1>3, SectionFirst
<1>5. s.offset \in Nat /\ s.size \in Nat
  <2>1. c.sections \in Seq(Section)
        BY <1>3 DEF Command
  <2>2. s \in Section
        BY <1>2, <2>1
  <2> QED BY <2>2, MachSizeAssumption DEF Section
<1>6. /\ base \in Nat /\ end \in Nat /\ arch \in DOMAIN Arches /\ arch \in Nat
      /\ Arches[arch].size = end - base
      BY <1>1, SliceState
<1>7. InRange(SectionStart(s), s.size, end) <=> s.offset + s.size <= Arches[arch].size
      BY <1>5, <1>6 DEF InRange, SectionStart
<1>8. /\ \A k \in 1 .. command - 1 :
              CommandWhole(CurrentSlice, k) /\ ~HasMetadata(CurrentSlice.commands[k])
      /\ MachHeaderSize + CurrentSlice.commandsSize <= Arches[arch].size
      /\ Len(CurrentSlice.commands) * CommandSize <= CurrentSlice.commandsSize
      /\ base \in DOMAIN image.slices
      BY <1>1 DEF Walk, MachOInv
<1>9. FirstWithMetadata(CurrentSlice, command)
      BY <1>4, <1>8 DEF FirstWithMetadata
<1>10. \A k \in 1 .. command : CommandWhole(CurrentSlice, k)
  <2>1. \A k \in 1 .. command : k \in 1 .. command - 1 \/ k = command
        BY <1>3
  <2>2. CommandWhole(CurrentSlice, command)
        BY <1>1, WholeExact
  <2> QED BY <1>8, <2>1, <2>2
<1> HIDE DEF c, s
<1>11. Texts = IF s.offset + s.size <= Arches[arch].size THEN {bytes} ELSE {}
  <2>1. \A k \in DOMAIN CurrentSlice.commands :
            FirstWithMetadata(CurrentSlice, k) /\ (\A i \in 1 .. k : CommandWhole(CurrentSlice, i))
                => k = command
        BY <1>1, <1>4, TextsOfCommand DEF c
  <2>2. MetadataIn(CurrentSlice.commands[command]) = s
        BY <1>4 DEF c
  <2> QED BY <1>3, <1>8, <1>9, <1>10, <2>1, <2>2 DEF Texts
<1>12. MetadataOf(Arches[arch]) = Texts
      BY <1>1, <1>8, TextsOfSlice
<1>13. CASE s.offset + s.size <= Arches[arch].size
  <2>1. phase' = "found" /\ machText' = bytes
        BY <1>2, <1>7, <1>13 DEF s, SectionStart
  <2>2. machText' \in MetadataOf(Arches[arch])
        BY <1>11, <1>12, <1>13, <2>1
  <2>3. TableEnd <= image.size /\ \A i \in DOMAIN Arches : i < arch => MetadataOf(Arches[i]) = {}
        BY <1>1 DEF Walk
  <2>4. DOMAIN Arches \subseteq Nat
        BY ImagesAssumption DEF Arches, MachOInv
  <2>5. \A i \in DOMAIN Arches : Usable(i) => arch <= i
        BY <1>6, <2>3, <2>4 DEF Usable
  <2>6. Usable(arch)
        BY <2>2, <2>3 DEF Usable
  <2>7. Outcome(phase', machText')
        BY <1>6, <2>1, <2>2, <2>5, <2>6 DEF Outcome
  <2>8. DecodesFirstSlice'
        BY <1>1, <2>7, SlicesFixed
  <2> QED BY <2>1, <2>8 DEF Walk
<1>14. CASE ~(s.offset + s.size <= Arches[arch].size)
  <2>1. phase' = "arch" /\ arch' = arch + 1
        BY <1>2, <1>7, <1>14 DEF s
  <2>2. MetadataOf(Arches[arch]) = {}
        BY <1>11, <1>12, <1>14
  <2> QED BY <1>1, <1>6, <2>1, <2>2, SliceGivesWay
<1> QED BY <1>13, <1>14

LEMMA WalkStays ==
    ASSUME MachOInv, Walk, UNCHANGED machVars
    PROVE  Walk'
<1>1. /\ image' = image /\ phase' = phase /\ machText' = machText
      /\ UNCHANGED <<arch, base, end, command, commandOffset>>
      BY DEF machVars
<1>2. Arches' = Arches /\ TableEnd' = TableEnd /\ \A x : MetadataOf(x)' = MetadataOf(x)
      BY <1>1, SlicesFixed
<1>3. DecodesFirstSlice'
      BY <1>1, SlicesFixed DEF Walk
<1>4. CurrentSlice' = CurrentSlice
      BY <1>1 DEF CurrentSlice
<1> QED BY <1>1, <1>2, <1>3, <1>4 DEF Walk, CommandWhole

\* The loader returns the metadata of the first slice that has any, and rejects
\* a library only if none has, for any universal or thin binary.
THEOREM FirstSliceDecoded == MachSpec => []DecodesFirstSlice
<1>1. MachOInv /\ [MachNext]_machVars => MachOInv'
      BY SliceStep, HeaderStep, CommandStep, MetadataStep, OtherSteps DEF MachNext, MachOver
<1>2. MachOInv /\ Walk /\ [MachNext]_machVars => Walk'
      BY WalkMagic, WalkSlice, WalkNone, WalkHeader, WalkCommand, WalkMetadata,
         WalkCommandsFail, WalkStays DEF MachNext, MachOver
<1>3. Walk => DecodesFirstSlice
      BY DEF Walk
<1> QED BY MachOInitInv, WalkInit, <1>1, <1>2, <1>3, PTL DEF MachSpec

-----------------------------------------------------------------------------
(* PE.                                                                     *)

Library ==
    /\ {pe.dos, pe.nt, pe.dll} \subseteq BOOLEAN /\ pe.lfanew \in Int
    /\ pe.size \in Nat /\ pe.optional \in Nat /\ pe.sections \in Seq(PeSection)

TableSize == Len(pe.sections) * PeSectionSize

NoneBefore(i) == \A k \in DOMAIN pe.sections : k < i => ~pe.sections[k].metadata

\* The invariant: what was checked before a step still holds in it, and no
\* section before the loop's position has the metadata's name.
PeInv ==
    /\ Library
    /\ peNext \in Nat \ {0}
    /\ peReads \subseteq Int \X Int
    /\ ReadsInMapping
    /\ peAt \in {"dos", "nt"} => peNext = 1
    /\ peAt = "nt" => pe.dos /\ pe.lfanew >= 0 /\ DosSize <= pe.size
    /\ peAt = "sections" => HeadersWhole /\ NoneBefore(peNext)
    /\ DecodesPeMetadata

-----------------------------------------------------------------------------
\* A section header of the table lies within the table.
LEMMA EntryInTable ==
    ASSUME NEW n \in Nat, NEW i \in 1 .. n, NEW size \in Nat
    PROVE  /\ (i - 1) * size \in Nat
           /\ (i - 1) * size + size <= n * size
<1>1. i * size <= n * size
      BY SMTT(30)
<1>2. (i - 1) * size = i * size - size /\ (i - 1) * size \in Nat
      BY SMTT(30)
<1> QED BY <1>1, <1>2

LEMMA TableTyped ==
    ASSUME Library
    PROVE  /\ Len(pe.sections) \in Nat /\ DOMAIN pe.sections = 1 .. Len(pe.sections)
           /\ \A k \in DOMAIN pe.sections : pe.sections[k] \in PeSection
           /\ TableSize \in Nat
           /\ SectionTable \in Int
<1>1. pe.sections \in Seq(PeSection) /\ Len(pe.sections) \in Nat
      BY DEF Library
<1>2. TableSize \in Nat
      BY <1>1, PeSizeAssumption DEF TableSize
<1> QED BY <1>1, <1>2, PeSizeAssumption DEF Library, SectionTable

\* The check accepts a section exactly if it has a text, and takes the right one.
LEMMA TextExact ==
    ASSUME Library, NEW s \in PeSection
    PROVE  LET usable == s.data /\ s.constant /\ TextSize(s) # 0 /\ Within(s.pointer, TextSize(s))
           IN  /\ usable <=> TextLengths(s) # {}
               /\ usable => TextSize(s) \in TextLengths(s)
<1>1. /\ s.raw \in Nat /\ s.virtual \in Nat /\ s.pointer \in Nat /\ pe.size \in Nat
      /\ s.data \in BOOLEAN /\ s.constant \in BOOLEAN
      BY DEF PeSection, Library
<1>2. TextSize(s) \in 0 .. s.raw
      BY <1>1 DEF TextSize
<1>3. Within(s.pointer, TextSize(s)) <=> s.pointer + TextSize(s) <= pe.size
      BY <1>1, <1>2 DEF Within
<1>4. \A n \in TextLengths(s) : n = TextSize(s) /\ n # 0
      BY <1>1 DEF TextLengths, TextSize
<1>5. TextSize(s) \in TextLengths(s)
          <=> s.data /\ s.constant /\ TextSize(s) # 0 /\ s.pointer + TextSize(s) <= pe.size
      BY <1>1, <1>2 DEF TextLengths, TextSize
<1> QED BY <1>3, <1>4, <1>5

LEMMA PeInitInv == PeInit => PeInv
BY LibrariesAssumption DEF PeInit, PeInv, Library, ReadsInMapping, DecodesPeMetadata

\* The three headers are read one after the other.
LEMMA DosStep == PeInv /\ ReadDosHeader => PeInv'
<1> SUFFICES ASSUME PeInv, ReadDosHeader PROVE PeInv'
    OBVIOUS
<1>1. /\ pe.size \in Nat /\ pe' = pe /\ peNext' = 1 /\ peAt = "dos" /\ Library
      BY DEF PeInv, Library, ReadDosHeader
<1>2. Within(0, DosSize) <=> DosSize <= pe.size
      BY <1>1, PeSizeAssumption DEF Within
<1>3. CASE Within(0, DosSize) /\ pe.dos /\ pe.lfanew >= 0
  <2>1. peAt' = "nt" /\ peReads' = peReads \cup {<<0, DosSize>>}
        BY <1>3 DEF ReadDosHeader, Continue
  <2>2. ReadsInMapping' /\ peReads' \subseteq Int \X Int
        BY <1>1, <1>2, <1>3, <2>1, PeSizeAssumption DEF PeInv, ReadsInMapping
  <2> QED BY <1>1, <1>2, <1>3, <2>1, <2>2 DEF PeInv, Library, DecodesPeMetadata
<1>4. CASE ~(Within(0, DosSize) /\ pe.dos /\ pe.lfanew >= 0)
  <2>1. peAt' = "rejected" /\ peReads' = peReads
        BY <1>4 DEF ReadDosHeader, Continue
  <2>2. ~HeadersWhole
        BY <1>2, <1>4 DEF HeadersWhole
  <2>3. ~HeadersWhole'
        BY <1>1, <2>2 DEF HeadersWhole, SectionTable
  <2> QED BY <1>1, <2>1, <2>3 DEF PeInv, Library, ReadsInMapping, DecodesPeMetadata
<1> QED BY <1>3, <1>4

LEMMA NtStep == PeInv /\ ReadNtHeaders => PeInv'
<1> SUFFICES ASSUME PeInv, ReadNtHeaders PROVE PeInv'
    OBVIOUS
<1> DEFINE usable == /\ Within(pe.lfanew, SignatureSize) /\ pe.nt
                     /\ Within(pe.lfanew + SignatureSize, FileHeaderSize) /\ pe.dll
                     /\ Within(SectionTable, Len(pe.sections) * PeSectionSize)
<1>1. /\ pe.size \in Nat /\ pe.optional \in Nat /\ pe.lfanew \in Nat
      /\ pe' = pe /\ peNext' = 1 /\ peNext = 1
      /\ peAt = "nt" /\ Library /\ pe.dos /\ DosSize <= pe.size
      BY DEF PeInv, Library, ReadNtHeaders
<1>2. /\ TableSize \in Nat /\ SectionTable \in Nat
      /\ SectionTable = pe.lfanew + SignatureSize + FileHeaderSize + pe.optional
      BY <1>1, TableTyped, PeSizeAssumption DEF SectionTable
<1>3. /\ Within(pe.lfanew, SignatureSize) <=> pe.lfanew + SignatureSize <= pe.size
      /\ Within(pe.lfanew + SignatureSize, FileHeaderSize)
             <=> pe.lfanew + SignatureSize + FileHeaderSize <= pe.size
      /\ Within(SectionTable, TableSize) <=> SectionTable + TableSize <= pe.size
      BY <1>1, <1>2, PeSizeAssumption DEF Within
<1>4. usable <=> HeadersWhole
  <2>1. usable <=> /\ Within(pe.lfanew, SignatureSize) /\ pe.nt
                   /\ Within(pe.lfanew + SignatureSize, FileHeaderSize) /\ pe.dll
                   /\ Within(SectionTable, TableSize)
        BY DEF TableSize
  <2>2. HeadersWhole <=> /\ pe.dos /\ pe.nt /\ pe.dll /\ pe.lfanew >= 0 /\ DosSize <= pe.size
                         /\ SectionTable + TableSize <= pe.size
        BY DEF HeadersWhole, TableSize
  <2> HIDE DEF usable
  <2> QED BY <1>1, <1>2, <1>3, <2>1, <2>2, PeSizeAssumption
<1>5. HeadersWhole' <=> HeadersWhole
      BY <1>1 DEF HeadersWhole, SectionTable
<1>6. CASE usable
  <2>1. /\ peAt' = "sections"
        /\ peReads' = peReads \cup {<<pe.lfanew, SignatureSize>>,
                                    <<pe.lfanew + SignatureSize, FileHeaderSize>>}
        BY <1>6 DEF ReadNtHeaders, Continue
  <2>2. ReadsInMapping' /\ peReads' \subseteq Int \X Int
        BY <1>1, <1>3, <1>6, <2>1, PeSizeAssumption DEF PeInv, ReadsInMapping
  <2>3. NoneBefore(peNext)'
        BY <1>1, TableTyped DEF NoneBefore
  <2> QED BY <1>1, <1>4, <1>5, <1>6, <2>1, <2>2, <2>3 DEF PeInv, Library, DecodesPeMetadata
<1>7. CASE ~usable
  <2>1. peAt' = "rejected" /\ peReads' = peReads
        BY <1>7 DEF ReadNtHeaders, Continue
  <2> QED BY <1>1, <1>4, <1>5, <1>7, <2>1 DEF PeInv, Library, ReadsInMapping, DecodesPeMetadata
<1> QED BY <1>6, <1>7

\* The header of a section of the table is in the file.
LEMMA SectionRead ==
    ASSUME Library, HeadersWhole, NEW i \in 1 .. Len(pe.sections)
    PROVE  /\ SectionHeader(i) \in Int \X Int
           /\ SectionHeader(i)[1] >= 0 /\ SectionHeader(i)[1] + SectionHeader(i)[2] <= pe.size
<1>1. /\ Len(pe.sections) \in Nat /\ TableSize \in Nat /\ SectionTable \in Nat /\ pe.size \in Nat
      BY TableTyped, PeSizeAssumption DEF Library, HeadersWhole, SectionTable
<1>2. /\ (i - 1) * PeSectionSize \in Nat
      /\ (i - 1) * PeSectionSize + PeSectionSize <= TableSize
      BY <1>1, EntryInTable, PeSizeAssumption DEF TableSize
<1>3. SectionTable + TableSize <= pe.size
      BY DEF HeadersWhole, TableSize
<1> DEFINE offset == (i - 1) * PeSectionSize
<1>4. SectionHeader(i) = <<SectionTable + offset, PeSectionSize>>
      BY DEF SectionHeader
<1>5. offset \in Nat /\ offset + PeSectionSize <= TableSize
      BY <1>2
<1> HIDE DEF offset
<1> QED BY <1>1, <1>3, <1>4, <1>5, PeSizeAssumption

LEMMA OtherStep == PeInv /\ OtherPeSection => PeInv'
<1> SUFFICES ASSUME PeInv, OtherPeSection PROVE PeInv'
    OBVIOUS
<1>1. /\ pe' = pe /\ peNext' = peNext + 1 /\ peNext \in 1 .. Len(pe.sections)
      /\ peAt = "sections" /\ Library /\ HeadersWhole /\ NoneBefore(peNext)
      /\ ~pe.sections[peNext].metadata
      /\ peAt' = "sections" /\ peReads' = peReads \cup {SectionHeader(peNext)}
      BY TableTyped DEF PeInv, OtherPeSection, Continue
<1>2. ReadsInMapping' /\ peReads' \subseteq Int \X Int
      BY <1>1, SectionRead DEF PeInv, ReadsInMapping
<1>3. NoneBefore(peNext)'
      BY <1>1, TableTyped DEF NoneBefore
<1>4. HeadersWhole'
      BY <1>1 DEF HeadersWhole, SectionTable
<1> QED BY <1>1, <1>2, <1>3, <1>4 DEF PeInv, Library, DecodesPeMetadata

LEMMA FindStep == PeInv /\ FindPeMetadata => PeInv'
<1> SUFFICES ASSUME PeInv, FindPeMetadata PROVE PeInv'
    OBVIOUS
<1> DEFINE s == pe.sections[peNext]
           size == TextSize(s)
           usable == s.data /\ s.constant /\ size # 0 /\ Within(s.pointer, size)
<1>1. /\ pe' = pe /\ peNext' = peNext /\ peNext \in 1 .. Len(pe.sections) /\ peNext \in Nat \ {0}
      /\ peAt = "sections" /\ Library /\ HeadersWhole /\ NoneBefore(peNext) /\ s.metadata
      BY TableTyped DEF PeInv, FindPeMetadata
<1>2. s \in PeSection /\ peNext \in DOMAIN pe.sections
      BY <1>1, TableTyped
<1>3. (usable <=> TextLengths(s) # {}) /\ (usable => size \in TextLengths(s))
      BY <1>1, <1>2, TextExact
<1>4. FirstMetadata(peNext)
      BY <1>1, TableTyped DEF FirstMetadata, NoneBefore
<1>5. \A k \in DOMAIN pe.sections : FirstMetadata(k) => k = peNext
      BY <1>1, <1>2, TableTyped DEF FirstMetadata, NoneBefore
<1>6. /\ HeadersWhole' /\ \A k : FirstMetadata(k)' <=> FirstMetadata(k)
      /\ \A t : TextLengths(t)' = TextLengths(t)
      BY <1>1 DEF HeadersWhole, SectionTable, FirstMetadata, TextLengths
<1>7. CASE usable
  <2>1. /\ peAt' = "found" /\ peText' = <<s.pointer, size>>
        /\ peReads' = peReads \cup {SectionHeader(peNext), <<s.pointer, size>>}
        BY <1>7 DEF FindPeMetadata, Continue
  <2>2. s.pointer \in Nat /\ size \in Nat /\ s.pointer + size <= pe.size
        BY <1>2, <1>3, <1>7 DEF PeSection, TextLengths
  <2>3. ReadsInMapping' /\ peReads' \subseteq Int \X Int
        BY <1>1, <2>1, <2>2, SectionRead DEF PeInv, ReadsInMapping
  <2>4. DecodesPeMetadata'
        BY <1>1, <1>2, <1>3, <1>4, <1>6, <1>7, <2>1 DEF DecodesPeMetadata
  <2> QED BY <1>1, <2>1, <2>3, <2>4 DEF PeInv, Library
<1>8. CASE ~usable
  <2>1. peAt' = "rejected" /\ peReads' = peReads
        BY <1>8 DEF FindPeMetadata, Continue
  <2>2. DecodesPeMetadata'
        BY <1>1, <1>3, <1>5, <1>6, <1>8, <2>1 DEF DecodesPeMetadata
  <2> QED BY <1>1, <2>1, <2>2 DEF PeInv, Library, ReadsInMapping
<1> QED BY <1>7, <1>8

LEMMA NoSectionStep == PeInv /\ NoPeSection => PeInv'
<1> SUFFICES ASSUME PeInv, NoPeSection PROVE PeInv'
    OBVIOUS
<1>1. /\ pe' = pe /\ peNext' = peNext /\ peNext > Len(pe.sections) /\ peNext \in Nat \ {0}
      /\ peAt = "sections" /\ Library /\ NoneBefore(peNext)
      /\ peAt' = "rejected" /\ peReads' = peReads
      BY DEF PeInv, NoPeSection, Continue
<1>2. \A k \in DOMAIN pe.sections : ~FirstMetadata(k)
      BY <1>1, TableTyped DEF FirstMetadata, NoneBefore
<1>3. DecodesPeMetadata'
      BY <1>1, <1>2 DEF DecodesPeMetadata, FirstMetadata
<1> QED BY <1>1, <1>3 DEF PeInv, Library, ReadsInMapping

LEMMA StutterStep == PeInv /\ UNCHANGED peVars => PeInv'
BY DEF PeInv, peVars, Library, ReadsInMapping, DecodesPeMetadata, HeadersWhole,
       SectionTable, NoneBefore, FirstMetadata, TextLengths

LEMMA Invariance == PeSpec => []PeInv
<1>1. PeInv /\ [PeNext]_peVars => PeInv'
      BY DosStep, NtStep, OtherStep, FindStep, NoSectionStep, StutterStep
      DEF PeNext, PeOver
<1> QED BY PeInitInv, <1>1, PTL DEF PeSpec

-----------------------------------------------------------------------------
\* Whatever the headers of a PE file say, decodeEmbeddedText() touches no byte
\* outside of its mapping.
THEOREM MappingReadsInside == PeSpec => []ReadsInMapping
<1>1. PeInv => ReadsInMapping
      BY DEF PeInv
<1> QED BY Invariance, <1>1, PTL

\* decodeEmbeddedText() returns the text of the first section with the
\* metadata's name, exactly when the file is a DLL and that section has one.
THEOREM PeDecodingExact == PeSpec => []DecodesPeMetadata
<1>1. PeInv => DecodesPeMetadata
      BY DEF PeInv
<1> QED BY Invariance, <1>1, PTL

=============================================================================
