--------------------------- MODULE MCAddressSpace ---------------------------
(* A space of 16 addresses in pages of 2, the stack in 8 .. 11 with a frame *)
(* of 2, and images of 3 bytes with one or two segments: in one page, in    *)
(* neighbouring pages, over a page boundary, on the stack, in the last      *)
(* page (whose end wraps), empty, with and without zero-filled tails; the   *)
(* flags of a segment follow from its address.                              *)
EXTENDS AddressSpaceProperties

Phdr(vaddr, memsz, offset, filesz) ==
    [load |-> TRUE, vaddr |-> vaddr, memsz |-> memsz,
     offset |-> offset, filesz |-> filesz, flags |-> vaddr % 8]

Image(phdrs) == [defects |-> {}, little |-> TRUE, len |-> 3, entry |-> 1, phdrs |-> phdrs]

MCPhdrs == {Phdr(v, m, o, f) : v \in {0, 1, 2, 3, 7, 9, 14, 15}, m \in {0, 1, 3},
                               o \in {0, 1}, f \in {0, 1, 2}}

MCImages ==
    {Image(<<p, q>>) : p \in MCPhdrs, q \in MCPhdrs}
        \cup {[Image(<< >>) EXCEPT !.defects = {"E004"}], Image(<< >>)}
        \cup {Image(<<[p EXCEPT !.load = FALSE], p>>) : p \in MCPhdrs}

MCExtraMaps == {[base |-> b, size |-> s, rights |-> {"r", "x"}] :
                    b \in {3, 4, 12}, s \in {0, 2, 4}}
=============================================================================
