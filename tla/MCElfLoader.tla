---------------------------- MODULE MCElfLoader ----------------------------
(* A space of 8 addresses and images of 3 bytes.  The images of MCImages   *)
(* are: every combination of header defects in either byte order; every    *)
(* pair of program headers over a few places, sizes, offsets and lengths,  *)
(* legal or not; and every triple of headers of which the file has all     *)
(* bytes.  No memory is left for a segment of 3, and 4 is no isize.        *)
EXTENDS ElfLoaderProperties

Phdr(load, vaddr, memsz, offset, filesz) ==
    [load |-> load, vaddr |-> vaddr, memsz |-> memsz,
     offset |-> offset, filesz |-> filesz, flags |-> 5]

Image(defects, phdrs) ==
    [defects |-> defects, little |-> TRUE, len |-> 3, entry |-> 0, phdrs |-> phdrs]

Good == Phdr(TRUE, 0, 1, 0, 1)

MCDefective ==
    {[Image(d, <<Good>>) EXCEPT !.little = l] :
        d \in SUBSET {"E001", "E002", "E003", "E004", "E005"}, l \in BOOLEAN}

MCPhdrs == {Phdr(TRUE, v, m, o, f) :
                v \in {0, 1, 6}, m \in {0, 1, 2, 4}, o \in {0, 2, 7}, f \in {0, 1, 2}}
           \cup {Phdr(FALSE, 0, 1, 0, 1)}

MCPlaced == {Phdr(TRUE, v, m, 0, 0) : v \in {0, 1, 2, 4}, m \in {0, 1, 2, 3}}

MCImages ==
    MCDefective
        \cup {Image({}, s) : s \in {<< >>} \cup {<<p, q>> : p, q \in MCPhdrs}}
        \cup {Image({}, <<p, q, r>>) : p, q, r \in MCPlaced}
=============================================================================
