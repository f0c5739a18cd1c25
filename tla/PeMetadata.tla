------------------------------ MODULE PeMetadata ------------------------------
(***************************************************************************)
(* How the loader finds the embedded metadata in the mapping of a PE       *)
(* library: the DOS header, the NT headers it leads to, the section table  *)
(* behind them, and the first section with the metadata's name, which has  *)
(* to be plain data.  Offsets have 64 bits and their parts 32 or 16, so no *)
(* sum of them wraps around.                                               *)
(***************************************************************************)
EXTENDS Integers, Sequences

CONSTANTS
    DosSize,          \* sizeof(IMAGE_DOS_HEADER)
    SignatureSize,    \* sizeof(DWORD)
    FileHeaderSize,   \* sizeof(IMAGE_FILE_HEADER)
    PeSectionSize,    \* sizeof(IMAGE_SECTION_HEADER)
    Libraries         \* the files considered

\* "dos", "nt": the signatures are there; "lfanew": where the NT headers are;
\* "optional": SizeOfOptionalHeader; "data", "constant": the section is initialized
\* data, and neither writable nor executable.
PeSection ==
    [metadata : BOOLEAN, data : BOOLEAN, constant : BOOLEAN,
     raw : Nat, virtual : Nat, pointer : Nat]

ASSUME PeSizeAssumption ==
    {DosSize, SignatureSize, FileHeaderSize, PeSectionSize} \subseteq Nat \ {0}
ASSUME LibrariesAssumption ==
    \A l \in Libraries :
        /\ {l.dos, l.nt, l.dll} \subseteq BOOLEAN /\ l.lfanew \in Int
        /\ l.size \in Nat /\ l.optional \in Nat /\ l.sections \in Seq(PeSection)

VARIABLES
    pe,        \* the library, fixed
    peAt,      \* what is read next, or the outcome
    peNext,    \* the section the loop goes on with
    peReads,   \* auxiliary: <<offset, size>> of the reads that led on
    peText     \* what the text is assigned from, as <<offset, size>>

peVars == <<pe, peAt, peNext, peReads, peText>>

\* Mutant: a range that starts in the file is valid.
Within_Start(offset, size) == offset <= pe.size

Within(offset, size) == offset <= pe.size /\ size <= pe.size - offset

Continue(usable, ranges, at) ==
    IF usable THEN peReads' = peReads \cup ranges /\ peAt' = at
              ELSE peAt' = "rejected" /\ UNCHANGED peReads

SectionTable == pe.lfanew + SignatureSize + FileHeaderSize + pe.optional

SectionHeader(i) == <<SectionTable + (i - 1) * PeSectionSize, PeSectionSize>>

-----------------------------------------------------------------------------
PeInit ==
    /\ pe \in Libraries
    /\ peAt = "dos"
    /\ peNext = 1
    /\ peReads = {}
    /\ peText = <<>>

ReadDosHeader ==
    /\ peAt = "dos"
    /\ Continue(Within(0, DosSize) /\ pe.dos /\ pe.lfanew >= 0, {<<0, DosSize>>}, "nt")
    /\ UNCHANGED <<pe, peNext, peText>>

ReadNtHeaders ==
    /\ peAt = "nt"
    /\ Continue(/\ Within(pe.lfanew, SignatureSize) /\ pe.nt
                /\ Within(pe.lfanew + SignatureSize, FileHeaderSize) /\ pe.dll
                /\ Within(SectionTable, Len(pe.sections) * PeSectionSize),
                {<<pe.lfanew, SignatureSize>>, <<pe.lfanew + SignatureSize, FileHeaderSize>>},
                "sections")
    /\ UNCHANGED <<pe, peNext, peText>>

OtherPeSection ==
    /\ peAt = "sections" /\ peNext <= Len(pe.sections)
    /\ ~pe.sections[peNext].metadata
    /\ Continue(TRUE, {SectionHeader(peNext)}, "sections")
    /\ peNext' = peNext + 1
    /\ UNCHANGED <<pe, peText>>

\* Mutant: the padding of the raw data is part of the text.
TextSize_Raw(s) == s.raw

TextSize(s) == IF s.virtual # 0 /\ s.virtual < s.raw THEN s.virtual ELSE s.raw

FindPeMetadata ==
    /\ peAt = "sections" /\ peNext <= Len(pe.sections)
    /\ pe.sections[peNext].metadata
    /\ LET s == pe.sections[peNext]
           text == <<s.pointer, TextSize(s)>>
           usable == s.data /\ s.constant /\ TextSize(s) # 0 /\ Within(s.pointer, TextSize(s))
       IN  /\ Continue(usable, {SectionHeader(peNext), text}, "found")
           /\ peText' = IF usable THEN text ELSE peText
    /\ UNCHANGED <<pe, peNext>>

NoPeSection ==
    /\ peAt = "sections" /\ peNext > Len(pe.sections)
    /\ Continue(FALSE, {}, "found")
    /\ UNCHANGED <<pe, peNext, peText>>

PeOver == peAt \in {"found", "rejected"} /\ UNCHANGED peVars

PeNext ==
    \/ ReadDosHeader \/ ReadNtHeaders
    \/ OtherPeSection \/ FindPeMetadata \/ NoPeSection
    \/ PeOver

PeSpec == PeInit /\ [][PeNext]_peVars

-----------------------------------------------------------------------------
(* Properties.                                                             *)

\* Whatever the headers say, nothing outside of the mapped file is touched.
ReadsInMapping == \A r \in peReads : r[1] >= 0 /\ r[1] + r[2] <= pe.size

\* How long the text of a section may be, if it is one: all of its raw data, or
\* as much as it has in memory.
TextLengths(s) ==
    {n \in 1 .. s.raw :
        /\ n = s.raw \/ n = s.virtual
        /\ s.virtual > 0 => n <= s.virtual
        /\ s.data /\ s.constant /\ s.pointer + n <= pe.size}

\* The headers of a DLL that the file holds.
HeadersWhole ==
    /\ pe.dos /\ pe.nt /\ pe.dll /\ pe.lfanew >= 0 /\ DosSize <= pe.size
    /\ SectionTable + Len(pe.sections) * PeSectionSize <= pe.size

FirstMetadata(k) ==
    pe.sections[k].metadata /\ \A j \in 1 .. k - 1 : ~pe.sections[j].metadata

\* The loader returns what the linker put into the first section with the
\* metadata's name, without the padding up to the file alignment, and only of a
\* DLL where that section is constant data that the file holds.
DecodesPeMetadata ==
    LET first == {k \in DOMAIN pe.sections : FirstMetadata(k)}
    IN  /\ peAt = "found" =>
               /\ HeadersWhole
               /\ \E k \in first : /\ peText[1] = pe.sections[k].pointer
                                   /\ peText[2] \in TextLengths(pe.sections[k])
        /\ peAt = "rejected" =>
               ~(HeadersWhole /\ \E k \in first : TextLengths(pe.sections[k]) # {})

=============================================================================
