------------------------------- MODULE ModelFile -------------------------------
(***************************************************************************)
(* A .litertlm model file: written by LitertLmFileBuilder                   *)
(* (schema/py/litertlm_builder.py), whose sections start at a multiple of   *)
(* the block size, its header read by ReadHeaderFromLiteRTLM                *)
(* (schema/core/litertlm_read.cc), and its sections mapped on demand, by    *)
(* several threads, by LitertLmLoader (runtime/util/litert_lm_loader.cc).   *)
(*                                                                          *)
(* A byte is Zero, or [section, at] for a byte of a section, or Header.  Of *)
(* the header the model keeps the sections' keys and offsets.  Backend      *)
(* constraints and other metadata are left out.                             *)
(***************************************************************************)
EXTENDS Integers, Sequences, FiniteSets

CONSTANTS
    Key,         \* a section's type, with the model type for TFLite sections
    Once,        \* those the builder adds once: LLM metadata, the tokenizer
    Length,      \* bound: the lengths of sections
    MaxSections, \* bound: sections added
    HeaderRoom,  \* the sections whose header fits into the first block
    BlockSize,   \* BLOCK_SIZE
    Alignments,  \* what MemoryMappedFile::GetOffsetAlignment may be
    Reader       \* threads

VARIABLES
    sections,   \* _sections: [key, length]
    onceAdded,  \* _has_llm_metadata, _has_tokenizer
    system,     \* _system_metadata is not empty
    bytes,      \* the file, <<>> before it is built
    header,     \* the header it holds: [ok, sections], a sequence of [key, begin, end]
    loader,     \* "none", "mapped" (of a mapped file), "file", or "failed"
    alignment,
    locations,  \* section_locations_
    maps,       \* section_memory_mapped_files_: a mapping per key
    regions,    \* every mapping made: the part of the file it shows
    buffers,    \* section_buffers_: [map, at, size], 0 for the mapped file
    wants,      \* the key a reader found no buffer for, <<>> for none
    handed      \* the buffers returned: [key, buffer]

NoFunction == [k \in {} |-> 0]
With(f, k, v) == [x \in DOMAIN f \cup {k} |-> IF x = k THEN v ELSE f[x]]
Zeros(n) == [i \in 1..n |-> "zero"]

FileInit ==
    /\ sections = <<>> /\ onceAdded = {} /\ system = FALSE
    /\ bytes = <<>> /\ header = [ok |-> FALSE, sections |-> <<>>]
    /\ loader = "none" /\ alignment \in Alignments
    /\ locations = NoFunction /\ maps = NoFunction /\ buffers = NoFunction
    /\ regions = <<>> /\ wants = [r \in Reader |-> <<>>] /\ handed = {}

(***************************************************************************)
(* The builder.                                                             *)
(***************************************************************************)
Building == bytes = <<>> /\ UNCHANGED <<bytes, header, loader, alignment, locations,
                                        maps, regions, buffers, wants, handed>>

AddSystemMetadata ==
    /\ Building /\ ~system
    /\ system' = TRUE
    /\ UNCHANGED <<sections, onceAdded>>

\* The flag of a section that may come once is set before its file is looked for.
AddSection(key, length, found) ==
    /\ Building
    /\ Len(sections) < MaxSections
    /\ key \in Once => key \notin onceAdded
    /\ ~found => key \in Once
    /\ onceAdded' = onceAdded \cup ({key} \cap Once)
    /\ sections' = IF found THEN Append(sections, [key |-> key, length |-> length]) ELSE sections
    /\ UNCHANGED system

Pad(n) == (BlockSize - (n % BlockSize)) % BlockSize

Content(i) == [j \in 1..sections[i].length |-> [section |-> i, at |-> j]]

\* The first block, then the first i sections and their padding.
Written[i \in 0..Len(sections)] ==
    IF i = 0 THEN Zeros(BlockSize)
    ELSE LET unpadded == Written[i - 1] \o Content(i)
         IN unpadded \o Zeros(Pad(Len(unpadded)))

\* Where section i starts: as far as has been written before it.
Begin(i) == Len(Written[i - 1])

\* The header is written into the first block last; it needs system metadata.
\* One that does not fit has overwritten what follows when it is refused.
Build ==
    LET all  == Written[Len(sections)]
        fits == Len(sections) <= HeaderRoom
        size == IF ~system THEN 0 ELSE IF fits THEN BlockSize ELSE BlockSize + 1
    IN /\ bytes = <<>>
       /\ bytes' = [p \in 1..(IF Len(all) < size THEN size ELSE Len(all)) |->
                      IF p <= size THEN "header" ELSE all[p]]
       /\ header' = [ok |-> system /\ fits,
                     sections |-> [i \in DOMAIN sections |->
                        [key |-> sections[i].key, begin |-> Begin(i),
                         end |-> Begin(i) + sections[i].length]]]
       /\ UNCHANGED <<sections, onceAdded, system, loader, alignment, locations,
                      maps, regions, buffers, wants, handed>>

(***************************************************************************)
(* The loader.                                                              *)
(***************************************************************************)
\* ReadHeaderFromLiteRTLM finds the magic number, a version it knows and a
\* header that ends where it says.
HeaderRead == header.ok

\* Initialize: of several sections of one key the last one counts.
LastOf(hs, k) == CHOOSE i \in DOMAIN hs :
    hs[i].key = k /\ \A j \in (i + 1)..Len(hs) : hs[j].key # k

Initialize(source) ==
    LET hs == header.sections IN
    /\ bytes # <<>> /\ loader = "none"
    /\ loader' = IF HeaderRead THEN source ELSE "failed"
    /\ locations' = IF ~HeaderRead THEN NoFunction
                    ELSE [k \in {hs[i].key : i \in DOMAIN hs} |->
                            [begin |-> hs[LastOf(hs, k)].begin, end |-> hs[LastOf(hs, k)].end]]
    /\ UNCHANGED <<sections, onceAdded, system, bytes, header, alignment, maps, regions,
                   buffers, wants, handed>>

FileLoaded == loader \in {"mapped", "file"}

\* GetSectionBuffer, first under the lock of readers.
FindBuffer(r, k) ==
    /\ FileLoaded /\ wants[r] = <<>>
    /\ IF k \in DOMAIN buffers
       THEN handed' = handed \cup {[key |-> k, buffer |-> buffers[k]]} /\ UNCHANGED wants
       ELSE wants' = [wants EXCEPT ![r] = <<k>>] /\ UNCHANGED handed
    /\ UNCHANGED <<sections, onceAdded, system, bytes, header, loader, alignment,
                   locations, maps, regions, buffers>>

\* MemoryMappedFile::Create: a length of 0 means the rest of the file.
Region(begin, length) ==
    LET n == IF length = 0 THEN Len(bytes) - begin ELSE length
    IN [begin |-> begin, end |-> begin + n]

\* MapSection: a mapping starts at a multiple of the alignment, before the
\* section if it must; a mapping of the same key goes.
MapSection(k, loc) ==
    LET gap    == loc.begin % alignment
        region == Region(loc.begin - gap, loc.end - loc.begin + gap)
        size   == loc.end - loc.begin
        mapped == region.end > region.begin
    IN IF loader = "mapped"
       THEN /\ buffers' = With(buffers, k, [map |-> 0, at |-> loc.begin, size |-> size])
            /\ UNCHANGED <<maps, regions>>
       ELSE IF mapped
       THEN /\ regions' = Append(regions, region)
            /\ maps' = With(maps, k, Len(regions'))
            /\ buffers' = With(buffers, k, [map |-> Len(regions'), at |-> gap, size |-> size])
       ELSE UNCHANGED <<buffers, maps, regions>>

\* Mutant of StillMissing: not looked up again once the lock is held alone.
StillMissingOrNot(k) == TRUE

StillMissing(k) == k \notin DOMAIN buffers

\* Then alone: another thread may have mapped it; a section not in the file, and
\* one that cannot be mapped, give none.
MapBuffer(r) ==
    /\ wants[r] # <<>>
    /\ wants' = [wants EXCEPT ![r] = <<>>]
    /\ LET k == wants[r][1] IN
       /\ IF StillMissing(k) /\ k \in DOMAIN locations THEN MapSection(k, locations[k])
          ELSE UNCHANGED <<maps, regions, buffers>>
       /\ handed' = IF k \in DOMAIN buffers'
                    THEN handed \cup {[key |-> k, buffer |-> buffers'[k]]} ELSE handed
    /\ UNCHANGED <<sections, onceAdded, system, bytes, header, loader, alignment, locations>>

FileNext ==
    \/ AddSystemMetadata
    \/ \E k \in Key, n \in Length, found \in BOOLEAN : AddSection(k, n, found)
    \/ Build
    \/ \E source \in {"mapped", "file"} : Initialize(source)
    \/ \E r \in Reader : (\E k \in Key : FindBuffer(r, k)) \/ MapBuffer(r)

FileSpec == FileInit /\ [][FileNext]_<<sections, onceAdded, system, bytes, header, loader,
                                      alignment, locations, maps, regions, buffers, wants, handed>>

\* What a caller reads through a buffer.
Read(b) == LET from == IF b.map = 0 THEN b.at ELSE regions[b.map].begin + b.at
           IN SubSeq(bytes, from + 1, from + b.size)

\* A buffer handed out, to whichever thread and however its mapping had to be
\* aligned, stays mapped and shows the bytes the builder wrote for the last
\* section added under its key.
SectionsRead ==
    \A h \in handed :
        /\ h.buffer.map # 0 => \E k \in DOMAIN maps : maps[k] = h.buffer.map
        /\ h.buffer.map # 0 =>
             h.buffer.at + h.buffer.size <= regions[h.buffer.map].end - regions[h.buffer.map].begin
        /\ Read(h.buffer) = Content(LastOf(sections, h.key))
=============================================================================
