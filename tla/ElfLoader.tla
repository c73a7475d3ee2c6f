----------------------------- MODULE ElfLoader -----------------------------
(***************************************************************************)
(* elf::loader::load_elf: the header checks, then one pass over the        *)
(* program headers with a MemoryMap to find overlaps.                      *)
(*                                                                         *)
(* An image is what goblin makes of the bytes: [defects, little, len,      *)
(* entry, phdrs].                                                          *)
(* defects holds the codes of the header checks the image fails (the parse *)
(* itself is goblin's), little says whether EI_DATA is little-endian       *)
(* (goblin reads either), len is the number of bytes, phdrs the program    *)
(* headers: [load, vaddr, memsz, offset, filesz, flags].                   *)
(***************************************************************************)
EXTENDS Regions

CONSTANTS
    Images,   \* the images load_elf may be given
    MaxVec    \* the largest `memsz' that can be allocated, an isize at most

PhdrType == [load : BOOLEAN, vaddr : Addresses, memsz : Addresses,
             offset : Addresses, filesz : Addresses, flags : 0 .. 7]

(* Magic, goblin's parse, class, machine, type: in the order they are made. *)
HeaderChecks == <<"E001", "E005", "E002", "E003", "E004">>

ImageType == [defects : SUBSET {HeaderChecks[i] : i \in DOMAIN HeaderChecks},
              little : BOOLEAN, len : Addresses, entry : Addresses, phdrs : Seq(PhdrType)]

ASSUME ElfLoaderAssumption ==
    /\ \A i \in Images : i \in ImageType
    /\ MaxVec \in 0 .. Space \div 2 - 1

VARIABLES
    image,      \* the argument of load_elf
    phase,      \* "header", "phdrs", "loaded", "refused"
    next,       \* the program header the loop has come to
    claimed,    \* the regions of its MemoryMap
    segments,   \* the Vec of segments
    error       \* "none", a code, "panic" or "abort"

loaderVars == <<image, phase, next, claimed, segments, error>>

LoaderInit ==
    /\ image \in Images
    /\ phase = "header" /\ next = 1
    /\ claimed = << >> /\ segments = << >> /\ error = "none"

Refuse(code) ==
    /\ phase' = "refused" /\ error' = code
    /\ UNCHANGED <<image, next, claimed, segments>>

-----------------------------------------------------------------------------
CheckHeader ==
    LET failed == {i \in DOMAIN HeaderChecks : HeaderChecks[i] \in image.defects}
    IN  /\ phase = "header"
        /\ IF failed # {} THEN Refuse(HeaderChecks[Min(failed)])
           ELSE /\ phase' = "phdrs"
                /\ UNCHANGED <<image, next, claimed, segments, error>>

(* The allocation of the segment's memory, and the copy of its file bytes   *)
(* into it: a size that is no isize panics, one for which there is no       *)
(* memory ends the process, and a slice larger than the memory panics.      *)
CopyError(p) ==
    IF p.memsz >= Space \div 2 THEN "panic"
    ELSE IF p.memsz > MaxVec THEN "abort"
    ELSE IF p.filesz > p.memsz THEN "panic"
    ELSE "none"

(* The same when the file has to go on behind the segment's bytes. *)
PhdrError_Strict(p) ==
    IF Overflows(p.vaddr, p.memsz) THEN "E005"
    ELSE IF InsertOutcome(claimed, p.vaddr, p.memsz) # "ok" THEN "E007"
    ELSE IF p.offset + p.filesz >= image.len THEN "E006"
    ELSE CopyError(p)

(* The same when the sum of offset and size is not checked for overflow. *)
PhdrError_Wrapping(p) ==
    IF Overflows(p.vaddr, p.memsz) THEN "E005"
    ELSE IF InsertOutcome(claimed, p.vaddr, p.memsz) # "ok" THEN "E007"
    ELSE IF Plus(p.offset, p.filesz) > image.len THEN "E006"
    ELSE CopyError(p)

(* What the body of the loop comes to: the checks, the allocation and the   *)
(* copy, in this order.                                                     *)
PhdrError(p) ==
    IF Overflows(p.vaddr, p.memsz) THEN "E005"
    ELSE IF InsertOutcome(claimed, p.vaddr, p.memsz) = "overlap" THEN "E007"
    ELSE IF InsertOutcome(claimed, p.vaddr, p.memsz) = "panic" THEN "panic"
    ELSE IF Overflows(p.offset, p.filesz) \/ p.offset + p.filesz > image.len
      THEN "E006"
    ELSE CopyError(p)

(* The same with the first region of the map for the one that is met. *)
OverlapOther_First(p) == claimed[1].base

(* The `other' of SegmentOverlap. *)
OverlapOther(p) ==
    LET hits == {i \in DOMAIN claimed :
                    Contains(claimed[i], p.vaddr) \/ p.vaddr = claimed[i].base}
    IN  IF hits = {} THEN 0 ELSE claimed[Min(hits)].base

(* The loop steps over a header that is not PT_LOAD. *)
SkipPhdr ==
    /\ phase = "phdrs" /\ next <= Len(image.phdrs)
    /\ ~image.phdrs[next].load
    /\ next' = next + 1
    /\ UNCHANGED <<image, phase, claimed, segments, error>>

LoadPhdr ==
    /\ phase = "phdrs" /\ next <= Len(image.phdrs)
    /\ LET p == image.phdrs[next]
       IN  /\ p.load
           /\ IF PhdrError(p) # "none" THEN Refuse(PhdrError(p))
              ELSE /\ claimed' = Inserted(claimed, p.vaddr, p.memsz, p.flags)
                   /\ segments' = Append(segments, p)
                   /\ next' = next + 1
                   /\ UNCHANGED <<image, phase, error>>

(* Behind the loop. *)
Finish ==
    /\ phase = "phdrs" /\ next > Len(image.phdrs)
    /\ IF segments = << >> THEN Refuse("E005")
       ELSE /\ phase' = "loaded"
            /\ UNCHANGED <<image, next, claimed, segments, error>>

LoaderNext == CheckHeader \/ SkipPhdr \/ LoadPhdr \/ Finish

LoaderSpec == LoaderInit /\ [][LoaderNext]_loaderVars
=============================================================================
