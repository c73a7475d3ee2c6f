------------------------ MODULE ElfLoaderProperties ------------------------
(***************************************************************************)
(* What is asked of ElfLoader.                                             *)
(***************************************************************************)
EXTENDS ElfLoader

Codes == {"none", "panic", "abort", "E001", "E002", "E003", "E004", "E005", "E006", "E007"}

Region == [base : Addresses, size : Addresses \ {0}, prot : 0 .. 7]

(* Every variable holds a value of its type. *)
LoaderTypeOK ==
    /\ image \in ImageType
    /\ phase \in {"header", "phdrs", "loaded", "refused"}
    /\ next \in 1 .. Len(image.phdrs) + 1
    /\ claimed \in Seq(Region)
    /\ segments \in Seq(PhdrType)
    /\ error \in Codes

-----------------------------------------------------------------------------
(* Two segments share an address. *)
Meet(p, q) ==
    /\ p.memsz > 0 /\ q.memsz > 0
    /\ p.vaddr < q.vaddr + q.memsz /\ q.vaddr < p.vaddr + p.memsz

(* A segment as the mapper and the hook may rely on it: it ends inside the  *)
(* address space and the file holds the bytes it takes from it.             *)
SoundSegment(p) ==
    /\ p.vaddr + p.memsz < Space
    /\ p.offset + p.filesz <= image.len
    /\ p.filesz <= p.memsz

(* The segments handed on are sound and no two of them meet, whatever the   *)
(* program headers say and however much of the list has been read.          *)
SegmentsAreSound ==
    /\ \A i \in DOMAIN segments : SoundSegment(segments[i])
    /\ \A i, j \in DOMAIN segments : i < j => ~Meet(segments[i], segments[j])

(* The headers to load. *)
Loads == {i \in DOMAIN image.phdrs : image.phdrs[i].load}

(* Whether an image is to be accepted, said of the image as a whole and     *)
(* without a map; in either byte order, since load_elf does not ask for it. *)
Acceptable ==
    /\ image.defects = {}
    /\ Loads # {}
    /\ \A i \in Loads : /\ SoundSegment(image.phdrs[i])
                        /\ image.phdrs[i].memsz <= MaxVec
    /\ \A i, j \in Loads : i < j => ~Meet(image.phdrs[i], image.phdrs[j])

(* load_elf accepts an image when, and only when, it is acceptable, and     *)
(* keeps every loadable header of it in the order of the file.              *)
AcceptsExactly ==
    LET place(i) == Cardinality({j \in Loads : j <= i})
    IN  /\ phase = "loaded" =>
              /\ Acceptable
              /\ Len(segments) = Cardinality(Loads)
              /\ \A i \in Loads : segments[place(i)] = image.phdrs[i]
        /\ phase = "refused" => ~Acceptable

(* E007 is reported only where segments meet, and the segment it blames is  *)
(* one of those met.  The lookup is another one than the overlap test: it   *)
(* goes by the first address of the new segment, and where that is free it  *)
(* blames address 0.                                                        *)
CulpritIsMet ==
    error = "E007" =>
        LET p == image.phdrs[next]
            met == {i \in DOMAIN segments : Meet(p, segments[i])}
            holding == {i \in met : segments[i].vaddr <= p.vaddr}
        IN  /\ met # {}
            /\ IF holding = {} THEN OverlapOther(p) = 0
               ELSE \E i \in holding : OverlapOther(p) = segments[i].vaddr

-----------------------------------------------------------------------------
(* A statement of the sources that the code does not keep. *)

(* docs/security.md:17: "A malformed image is rejected with a stable error  *)
(* code and never executed."  load_elf panics on a header that takes more   *)
(* bytes from the file than it has memory for.                              *)
RejectedWithCode == error # "panic"
=============================================================================
