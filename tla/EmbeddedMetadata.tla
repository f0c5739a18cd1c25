-------------------------- MODULE EmbeddedMetadata --------------------------
(***************************************************************************)
(* How the loader finds the embedded metadata of an ELF library: the       *)
(* header, the section table, the table of section names, then the first   *)
(* section with the metadata's name.  Every offset and size comes from the *)
(* file and is taken modulo Words, as unsigned arithmetic does; a read     *)
(* that the file does not hold fails.                                      *)
(***************************************************************************)
EXTENDS Integers, Sequences

CONSTANTS
    Words,        \* 2^w, w the width of an offset
    HeaderSize,   \* sizeof(Header)
    SectionSize,  \* sizeof(Section)
    NameSize,     \* sizeof(metadataSectionName), with its terminator
    MaxRead,      \* the largest size that readable_size() accepts
    Files         \* the files considered

\* What a file holds.  "elf": magic, byte order and class are known; "sizes": the
\* header states the sizes of this class; "sections": what the section table
\* holds; "named": the offsets at which the file holds the metadata's name.
File ==
    [size : 0 .. Words - 1, elf : BOOLEAN, sizes : BOOLEAN,
     shoff : 0 .. Words - 1, shstrndx : Nat,
     sections : Seq([name : 0 .. Words - 1, offset : 0 .. Words - 1,
                     size : 0 .. Words - 1]),
     named : SUBSET Nat]

ASSUME SizeAssumption ==
    /\ Words \in Nat /\ HeaderSize \in Nat
    /\ SectionSize \in Nat \ {0} /\ NameSize \in Nat \ {0}
    /\ MaxRead \in Nat
ASSUME FilesAssumption == Files \subseteq File

VARIABLES
    file,    \* the library, fixed
    at,      \* what is read next, or the outcome
    next,    \* the section the loop goes on with
    reads,   \* auxiliary: <<offset, size>> of the reads after the header
    text     \* the section returned, as <<offset, size>>

vars == <<file, at, next, reads, text>>

Shnum == Len(file.sections)

Names == file.sections[file.shstrndx + 1]

Plus(a, b) == IF a + b < Words THEN a + b ELSE a + b - Words

Minus(a, b) == IF b <= a THEN a - b ELSE a - b + Words

\* Mutant: the end is compared, and may wrap around.
ValidRange_Sum(offset, size) == Plus(offset, size) <= file.size

ValidRange(offset, size) == offset <= file.size /\ size <= Minus(file.size, offset)

Reading(offset, size) == reads' = reads \cup {<<offset, size>>}

Reject == at' = "rejected" /\ UNCHANGED <<next, reads, text>>

-----------------------------------------------------------------------------
Init ==
    /\ file \in Files
    /\ at = "header"
    /\ next = 1
    /\ reads = {}
    /\ text = <<>>

\* A table whose size does not fit a word is not in the file either.
HeaderUsable ==
    /\ file.elf /\ file.size >= HeaderSize /\ file.sizes
    /\ Shnum # 0 /\ file.shstrndx < Shnum
    /\ ValidRange(file.shoff, Shnum * SectionSize)

ReadHeader ==
    /\ at = "header"
    /\ \/ ~HeaderUsable /\ Reject
       \/ /\ HeaderUsable
          /\ Reading(file.shoff, Shnum * SectionSize)
          /\ at' = "names"
          /\ UNCHANGED <<next, text>>
    /\ UNCHANGED file

NamesUsable == Names.size # 0 /\ ValidRange(Names.offset, Names.size)

ReadNames ==
    /\ at = "names"
    /\ \/ ~NamesUsable /\ Reject
       \/ NamesUsable /\ at' = "sections" /\ UNCHANGED <<next, reads, text>>
    /\ UNCHANGED file

\* Mutant: a name that ends with the table is passed over.
NameFits_Before(s) == s.name < Names.size /\ NameSize < Minus(Names.size, s.name)

NameFits(s) == s.name < Names.size /\ NameSize <= Minus(Names.size, s.name)

NameOffset(s) == Plus(Names.offset, s.name)

SkipSection ==
    /\ at = "sections" /\ next <= Shnum
    /\ ~NameFits(file.sections[next])
    /\ next' = next + 1
    /\ UNCHANGED <<file, at, reads, text>>

OtherSection ==
    /\ at = "sections" /\ next <= Shnum
    /\ LET s == file.sections[next] IN
       /\ NameFits(s) /\ NameOffset(s) \notin file.named
       /\ Reading(NameOffset(s), NameSize)
    /\ next' = next + 1
    /\ UNCHANGED <<file, at, text>>

SectionUsable(s) ==
    s.size # 0 /\ ValidRange(s.offset, s.size) /\ s.size <= MaxRead

MetadataSection ==
    /\ at = "sections" /\ next <= Shnum
    /\ LET s == file.sections[next] IN
       /\ NameFits(s) /\ NameOffset(s) \in file.named
       /\ \/ /\ SectionUsable(s)
             /\ reads' = reads \cup {<<NameOffset(s), NameSize>>, <<s.offset, s.size>>}
             /\ text' = <<s.offset, s.size>>
             /\ at' = "found"
          \/ /\ ~SectionUsable(s)
             /\ Reading(NameOffset(s), NameSize)
             /\ at' = "rejected"
             /\ UNCHANGED text
    /\ UNCHANGED <<file, next>>

NoSection ==
    /\ at = "sections" /\ next > Shnum
    /\ Reject
    /\ UNCHANGED file

Terminated == at \in {"found", "rejected"} /\ UNCHANGED vars

Next ==
    \/ ReadHeader \/ ReadNames \/ NoSection
    \/ SkipSection \/ OtherSection \/ MetadataSection
    \/ Terminated

Spec == Init /\ [][Next]_vars

-----------------------------------------------------------------------------
(* Properties.                                                             *)

\* Whatever the offsets and sizes in a file are, also where their sums wrap
\* around, what is read after the header lies within the file, so no buffer is
\* made larger than the file.
ReadsInFile == \A r \in reads : r[1] + r[2] <= file.size

\* What the format says, without arithmetic on words: the range lies in the file.
In(offset, size) == offset + size <= file.size

\* The sections whose name, within the table of names, is the metadata's.
MetadataSections ==
    {k \in 1 .. Shnum :
        LET s == file.sections[k] IN
        s.name + NameSize <= Names.size /\ Names.offset + s.name \in file.named}

\* A library with usable tables is decoded to the first section that has the
\* metadata's name, wherever in the tables section and name are, unless that
\* section is empty or outside of the file; any other is rejected.
DecodesMetadata ==
    LET tables == /\ file.elf /\ file.sizes /\ In(0, HeaderSize)
                  /\ file.shstrndx < Shnum /\ In(file.shoff, Shnum * SectionSize)
                  /\ Names.size > 0 /\ In(Names.offset, Names.size)
        First(k) == k \in MetadataSections /\ \A j \in MetadataSections : k <= j
        Usable(s) == s.size \in 1 .. MaxRead /\ In(s.offset, s.size)
    IN  /\ at = "found" =>
               /\ tables
               /\ \E k \in 1 .. Shnum :
                      LET s == file.sections[k]
                      IN  First(k) /\ Usable(s) /\ text = <<s.offset, s.size>>
        /\ at = "rejected" =>
               ~(tables /\ \E k \in 1 .. Shnum : First(k) /\ Usable(file.sections[k]))

=============================================================================
